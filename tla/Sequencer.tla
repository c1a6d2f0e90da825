----------------------------- MODULE Sequencer -----------------------------
(* A sound made from a sequence or a sample of a sound bank: BaseSeqSound    *)
(* (resourcemapper.cpp), SequencePlayer and the voices of AliveAudio         *)
(* (oddlib/audio).  AudioConverter writes it to a file, in a loop of one     *)
(* thread; or it is one of Sound's players, updated by the main thread and   *)
(* played by the audio thread.  Both hold mSoundPlayersMutex for that, so a  *)
(* call of the player is one step.                                           *)
(*                                                                           *)
(* Time is counted in frames (a left and a right sample) and the level of a  *)
(* voice in small integers; the values of samples are not zero.  Reverb, the *)
(* pitch of a tone and m_QuarterCallback, which nobody sets, are left out.   *)
EXTENDS Integers, FiniteSets, SequencesExt

CONSTANTS
  Songs,         \* Songs[n]: [events] of a SeqSound, [program, note] of a SingleSeqSampleSound
  Tones,         \* Tones[p]: the tones of program p of the sound bank
  Rate,          \* Rate[n]: how far a frame of note n moves in the sample
  Pitches,       \* what RandFloat adds to it
  FullLevel,     \* the level 1.0
  FramesPerTick, \* the tempo: frames in a tick of the events' delta times
  Bars,          \* m_TimeSignatureBars
  BufferFrames,  \* frames a call of Play fills
  MaxAhead,      \* bound: calls of Play between two updates of a player
  MaxSample      \* bound: frames played

\* Kinds of events are strings, of which "on", "off", "program" and "end" have
\* messages of their own.
SequenceEvents ==
  [delta : Nat, status : {<<>>} \cup (STRING \X (0..15)), data : Nat, velocity : Nat]
BankTones ==
  [min : Nat, max : Nat, size : Nat, loop : BOOLEAN, pan : {"left", "both", "right"},
   attack : Nat \ {0}, decay : Nat, sustain : Nat, release : Nat \ {0}]

ASSUME SequencerAssumption ==
  /\ 0 \in DOMAIN Tones /\ DOMAIN Tones \subseteq Nat
  /\ \A p \in DOMAIN Tones : Tones[p] \subseteq BankTones /\ \A t \in Tones[p] : t.min \in DOMAIN Rate
  /\ DOMAIN Rate \subseteq Nat /\ \A n \in DOMAIN Rate : Rate[n] \in Nat \ {0}
  /\ Pitches \subseteq Nat /\ Pitches # {}
  \* A tick, the shortest note, is heard, and so is the shortest sample.
  /\ FramesPerTick \in Nat \ {0, 1} /\ FullLevel \in Nat \ {0} /\ Bars \in Nat
  /\ \A p \in DOMAIN Tones : \A t \in Tones[p] :
       \A n \in DOMAIN Rate, d \in Pitches : t.size - 1 > Rate[n] + d
  /\ BufferFrames \in Nat \ {0} /\ MaxAhead \in Nat \ {0} /\ MaxSample \in Nat
  /\ \A n \in DOMAIN Songs :
       \/ Songs[n].kind = "sample" /\ Songs[n].program \in DOMAIN Tones /\ Songs[n].note \in DOMAIN Rate
       \* A stream ends with the end of the track, or is refused at its first event.
       \/ /\ Songs[n].kind = "seq" /\ Songs[n].events \in Seq(SequenceEvents) \ {<<>>}
          /\ Songs[n].events[1].status = <<>> \/ Last(Songs[n].events).status \in {"end"} \X (0..15)

VARIABLES
  song, m_MessageList,
  m_PlayerState, mCurrentSampleIndex, m_SongBeginSample, m_SongFinishSample,
  m_Voices,
  phase,         \* of the converter: update, play, check; player; done, erased, crashed
  quit,          \* quitFlag
  ahead,         \* calls of Play since the player was updated
  lastHeard,     \* the last sample of the buffer that is not 0
  written,       \* samples the encoder has consumed
  \* history:
  sounded,       \* the messages whose notes have been heard
  heard,         \* the last sample that was not 0
  touched        \* a key of DebugUi was pressed

sequenceVars == <<m_PlayerState, m_SongBeginSample, m_SongFinishSample>>
fileVars == <<quit, written>>
sequencerVars ==
  <<song, m_MessageList, sequenceVars, mCurrentSampleIndex, m_Voices, phase, fileVars,
    ahead, lastHeard, sounded, heard, touched>>

\* The element of a singleton: each step of a recursion has the value of the
\* one before it.
The(singleton) == CHOOSE x \in singleton : TRUE

-----------------------------------------------------------------------------
(* Reading a sequence: an event without status repeats the one before *)

MessagesOf(status, time, e) ==
  LET message(type) == <<[type |-> type, time |-> time, channel |-> status[2], data |-> e.data]>>
  IN CASE status[1] = "on" /\ e.velocity = 0 -> message("off")
       [] status[1] \in {"on", "off", "program", "end"} -> message(status[1])
       [] OTHER -> <<>>

ReadEvent(read, e) ==
  LET status == IF e.status = <<>> THEN read.status ELSE e.status
      time == read.time + e.delta
  IN IF read.over \/ status = <<>> THEN [read EXCEPT !.over = TRUE]
     ELSE [time |-> time, status |-> status, over |-> status[1] = "end",
           list |-> read.list \o MessagesOf(status, time, e)]

LoadSequenceStream(events) ==
  LET read[k \in 0..Len(events)] ==
        IF k = 0 THEN [time |-> 0, status |-> <<>>, over |-> FALSE, list |-> <<>>]
        ELSE The({ReadEvent(before, events[k]) : before \in {read[k - 1]}})
  IN read[Len(events)].list

\* The programs of a stream are of its bank, and its notes have a pitch.
ASSUME SongsFitBank ==
  \A n \in DOMAIN Songs : Songs[n].kind = "seq" =>
    \A m \in Range(LoadSequenceStream(Songs[n].events)) :
      /\ m.type = "program" => m.data \in DOMAIN Tones
      /\ m.type = "on" => m.data \in DOMAIN Rate

MidiTimeToSample(time) == FramesPerTick * time

-----------------------------------------------------------------------------
(* The voices of AliveAudio *)

NewVoices(program, note, trackDelay, rate, ignoreLoops, message) ==
  {[message |-> message, tone |-> t, program |-> program, note |-> note, rate |-> rate,
    ignoreLoops |-> ignoreLoops, delay |-> trackDelay, usesOff |-> FALSE, offDelay |-> 0,
    on |-> TRUE, dead |-> FALSE, adsr |-> "attack", level |-> 0, offset |-> 0, out |-> "none"] :
      t \in {tone \in Tones[program] : note \in tone.min..tone.max}}

\* Mutant: a later note-off moves the end of an earlier note of the key.
NoteOffDelayLast(voices, program, note, trackDelay) ==
  {IF v.note = note /\ v.program = program /\ v.delay < trackDelay
   THEN [v EXCEPT !.usesOff = TRUE, !.offDelay = trackDelay] ELSE v : v \in voices}

NoteOffDelay(voices, program, note, trackDelay) ==
  {IF v.note = note /\ v.program = program /\ v.delay < trackDelay /\ v.offDelay <= 0
   THEN [v EXCEPT !.usesOff = TRUE, !.offDelay = trackDelay] ELSE v : v \in voices}

\* One step along the envelope; the level decides whether the voice lives.
Enveloped(v) ==
  LET raised == v.level + v.tone.attack
      lowered == v.level - v.tone.decay
  IN CASE v.adsr = "release" -> [v EXCEPT !.level = @ - v.tone.release]
       [] v.adsr # "release" /\ ~v.on -> [v EXCEPT !.adsr = "release"]
       [] v.adsr = "attack" /\ v.on ->
            IF raised > FullLevel THEN [v EXCEPT !.level = FullLevel, !.adsr = "decay"]
            ELSE [v EXCEPT !.level = raised]
       [] v.adsr = "decay" /\ v.on ->
            IF v.tone.decay = 0 \/ lowered < v.tone.sustain
            THEN [v EXCEPT !.level = v.tone.sustain, !.adsr = "sustain"]
            ELSE [v EXCEPT !.level = lowered]
       [] OTHER -> v

\* Mutant: a single shot loops like the note of a sequence.
GetSampleLooping(v) ==
  LET e == Enveloped(v)
      offset == v.offset + v.rate
      cut == ~v.tone.loop /\ offset >= v.tone.size - 1
  IN [e EXCEPT !.dead = e.level <= 0 \/ cut,
               !.offset = IF v.tone.loop /\ offset >= v.tone.size THEN 0 ELSE offset,
               !.out = IF e.level <= 0 \/ cut THEN "none" ELSE v.tone.pan]

\* A voice panned hard to the left leaves the right channel silent.
GetSample(v) ==
  LET e == Enveloped(v)
      offset == v.offset + v.rate
      loops == v.tone.loop /\ ~v.ignoreLoops
      cut == ~loops /\ offset >= v.tone.size - 1
  IN [e EXCEPT !.dead = e.level <= 0 \/ cut,
               !.offset = IF loops /\ offset >= v.tone.size THEN 0 ELSE offset,
               !.out = IF e.level <= 0 \/ cut THEN "none" ELSE v.tone.pan]

\* Delays that are over are not counted any further.
RenderFrame(v) ==
  LET offDelay == IF v.usesOff /\ v.offDelay > 0 THEN v.offDelay - 1 ELSE v.offDelay
      w == [v EXCEPT !.delay = IF @ < 0 THEN @ ELSE @ - 1, !.offDelay = offDelay,
                     !.on = @ /\ ~(v.usesOff /\ offDelay <= 0), !.out = "none"]
  IN IF w.dead \/ w.delay > 0 THEN w ELSE GetSample(w)

\* The voice after each of the frames of a buffer.
Rendered(v) ==
  LET voice[k \in 0..BufferFrames] ==
        IF k = 0 THEN v ELSE The({RenderFrame(before) : before \in {voice[k - 1]}})
  IN voice

AliveRenderAudio ==
  \E renders \in {{Rendered(v) : v \in m_Voices}} :
  LET HeardIn(k) == {r \in renders : r[k].out # "none"}
      samples == {0} \cup UNION {{2 * k - (IF r[k].out = "left" THEN 1 ELSE 0) : r \in HeardIn(k)} :
                                   k \in 1..BufferFrames}
  IN /\ m_Voices' = {v \in {r[BufferFrames] : r \in renders} : ~v.dead}
     /\ mCurrentSampleIndex' = mCurrentSampleIndex + BufferFrames
     /\ lastHeard' = Max(samples)
     /\ heard' = IF samples = {0} THEN heard ELSE 2 * mCurrentSampleIndex + lastHeard'
     /\ sounded' = sounded \cup {r[1].message : r \in UNION {HeardIn(k) : k \in 1..BufferFrames}}
     /\ UNCHANGED <<song, m_MessageList, sequenceVars, fileVars, touched>>

-----------------------------------------------------------------------------
(* SequencePlayer *)

\* INIT_VOICES: the voices of the whole song, message by message; PLAYING from
\* the end of the track on.
Process(s, i) ==
  LET m == m_MessageList[i]
      at == MidiTimeToSample(m.time)
      program == s.channels[m.channel]
  IN CASE m.type = "on" ->
            [s EXCEPT !.voices = @ \cup NewVoices(program, m.data, at, Rate[m.data], FALSE, i),
                      !.begin = IF s.firstNote THEN mCurrentSampleIndex + at ELSE @,
                      !.firstNote = FALSE]
       [] m.type = "off" -> [s EXCEPT !.voices = NoteOffDelay(@, program, m.data, at)]
       [] m.type = "program" -> [s EXCEPT !.channels[m.channel] = m.data]
       [] m.type = "end" -> [s EXCEPT !.state = "PLAYING", !.finish = mCurrentSampleIndex + at]

Unprocessed ==
  [channels |-> [c \in 0..15 |-> 0], voices |-> m_Voices, firstNote |-> TRUE,
   begin |-> m_SongBeginSample, finish |-> m_SongFinishSample, state |-> m_PlayerState]

InitVoices ==
  LET processed[k \in 0..Len(m_MessageList)] ==
        IF k = 0 THEN Unprocessed
        ELSE The({Process(before, k) : before \in {processed[k - 1]}})
  IN processed[Len(m_MessageList)]

\* The length of a quarter beat, an integer, divides the position of the song:
\* that it is 0 ends the program.
SequenceUpdate(next) ==
  \E s \in {IF m_PlayerState = "INIT_VOICES" THEN InitVoices
             ELSE [state |-> m_PlayerState, voices |-> m_Voices,
                   begin |-> m_SongBeginSample, finish |-> m_SongFinishSample]} :
  LET over == s.state = "PLAYING" /\ mCurrentSampleIndex > s.finish
      crashes ==
        s.state = "PLAYING" /\ ~over /\ (Bars = 0 \/ (s.finish - s.begin) \div Bars = 0)
  IN /\ m_Voices' = s.voices
     /\ m_SongBeginSample' = s.begin /\ m_SongFinishSample' = s.finish
     /\ m_PlayerState' = IF over THEN "FINISHED" ELSE s.state
     /\ phase' = IF crashes THEN "crashed" ELSE next
     /\ ahead' = 0
     /\ UNCHANGED <<song, m_MessageList, mCurrentSampleIndex, fileVars, lastHeard, sounded, heard, touched>>

\* Mutant: the voices may fade, or begin, after the end of the track.
AtEndOfTrack == m_PlayerState \in {"FINISHED", "STOPPED"}

AtEnd == m_PlayerState \in {"FINISHED", "STOPPED"} /\ m_Voices = {}

\* Load: what nobody else sees yet.
SequencerInit ==
  /\ song \in DOMAIN Songs
  /\ phase \in {"update", "player"}
  /\ LET sound == Songs[song]
     IN IF sound.kind = "seq"
        THEN /\ m_MessageList = LoadSequenceStream(sound.events)
             /\ m_PlayerState = "INIT_VOICES" /\ m_Voices = {}
        ELSE /\ m_MessageList = <<>>
             /\ m_PlayerState = "FINISHED"
             /\ \E pitch \in Pitches :
                  m_Voices = NewVoices(sound.program, sound.note, 0, Rate[sound.note] + pitch, TRUE, 1)
  /\ mCurrentSampleIndex = 0 /\ m_SongBeginSample = 0 /\ m_SongFinishSample = 0
  /\ quit = FALSE /\ written = 0 /\ ahead = 0 /\ lastHeard = 0
  /\ sounded = {} /\ heard = 0 /\ touched = FALSE

-----------------------------------------------------------------------------
(* AudioConverter::Convert *)

ConvertUpdate == phase = "update" /\ SequenceUpdate("play")

ConvertPlay ==
  /\ phase = "play" /\ mCurrentSampleIndex < MaxSample
  /\ AliveRenderAudio
  /\ phase' = "check" /\ UNCHANGED ahead

\* The silence at the end is not written; the encoder takes whole frames.
ConvertConsume ==
  /\ phase = "check"
  /\ LET numSamplesToUse == IF AtEnd THEN lastHeard ELSE 2 * BufferFrames
     IN written' = written + 2 * (numSamplesToUse \div 2)
  /\ phase' = IF AtEnd \/ quit THEN "done" ELSE "update"
  /\ UNCHANGED <<song, m_MessageList, sequenceVars, mCurrentSampleIndex, m_Voices, quit,
                 ahead, lastHeard, sounded, heard, touched>>

CancelConversion ==
  /\ phase \in {"update", "play", "check"} /\ ~quit
  /\ quit' = TRUE
  /\ UNCHANGED <<song, m_MessageList, sequenceVars, mCurrentSampleIndex, m_Voices, phase, written,
                 ahead, lastHeard, sounded, heard, touched>>

ConvertStep == ConvertUpdate \/ ConvertPlay \/ ConvertConsume

-----------------------------------------------------------------------------
(* A player of Sound *)

\* Sound::Update: a player at its end is erased, the others are updated.
PlayerErased ==
  /\ phase = "player" /\ AtEnd
  /\ phase' = "erased"
  /\ UNCHANGED <<song, m_MessageList, sequenceVars, mCurrentSampleIndex, m_Voices, fileVars,
                 ahead, lastHeard, sounded, heard, touched>>
PlayerUpdate == phase = "player" /\ ~AtEnd /\ SequenceUpdate("player")

\* Sound::Play, on the audio thread.
PlayerPlay ==
  /\ phase = "player" /\ mCurrentSampleIndex < MaxSample /\ ahead < MaxAhead
  /\ AliveRenderAudio
  /\ ahead' = ahead + 1 /\ UNCHANGED phase

\* The buttons of SoundBrowserUi and VabBrowserUi.
StopSequence ==
  /\ phase = "player"
  /\ m_Voices' = {} /\ m_PlayerState' = "STOPPED"
  /\ UNCHANGED <<song, m_MessageList, m_SongBeginSample, m_SongFinishSample, mCurrentSampleIndex,
                 phase, fileVars, ahead, lastHeard, sounded, heard, touched>>
PlayTone ==
  /\ phase = "player" /\ ~touched
  /\ \E p \in DOMAIN Tones : \E t \in Tones[p] :
       m_Voices' = NewVoices(p, t.min, 0, Rate[t.min], FALSE, 0)
  /\ touched' = TRUE
  /\ UNCHANGED <<song, m_MessageList, sequenceVars, mCurrentSampleIndex, phase, fileVars,
                 ahead, lastHeard, sounded, heard>>

SequencerNext ==
  ConvertStep \/ CancelConversion \/ PlayerErased \/ PlayerUpdate \/ PlayerPlay \/ StopSequence \/ PlayTone

\* The converter is a thread of its own, the main loop updates the players in
\* every frame, and the device asks for sound as long as it is open.
SequencerFairness ==
  /\ WF_sequencerVars(ConvertStep)
  /\ WF_sequencerVars(PlayerErased \/ PlayerUpdate)
  /\ WF_sequencerVars(PlayerPlay)

SequencerSpec == SequencerInit /\ [][SequencerNext]_sequencerVars /\ SequencerFairness

-----------------------------------------------------------------------------
(* What a sequence means *)

Ons == {i \in DOMAIN m_MessageList : m_MessageList[i].type = "on"}

\* The program of the channel when message i is reached.
ProgramAt(i) ==
  LET changes == {j \in 1..i : /\ m_MessageList[j].type = "program"
                               /\ m_MessageList[j].channel = m_MessageList[i].channel}
  IN IF changes = {} THEN 0 ELSE m_MessageList[Max(changes)].data

\* The messages that end note i: those for its key on its channel, after it.
OffsOf(i) ==
  {j \in DOMAIN m_MessageList :
     /\ j > i /\ m_MessageList[j].type = "off"
     /\ m_MessageList[j].channel = m_MessageList[i].channel
     /\ m_MessageList[j].data = m_MessageList[i].data}
OffOf(i) == Min(OffsOf(i))

SameKey(i, j) ==
  m_MessageList[i].data = m_MessageList[j].data /\ ProgramAt(i) = ProgramAt(j)

\* A note has a length and keeps its program, and no note-off for its key, of
\* whichever channel, comes between it and its own.
IsProper(i) ==
  /\ OffsOf(i) # {}
  /\ m_MessageList[OffOf(i)].time > m_MessageList[i].time
  /\ ProgramAt(OffOf(i)) = ProgramAt(i)
  /\ \A j \in i + 1..OffOf(i) - 1 :
       ~(m_MessageList[j].type = "off" /\ SameKey(i, j) /\ m_MessageList[j].time > m_MessageList[i].time)

\* The frames played since the voices of the song were made.
Elapsed ==
  mCurrentSampleIndex - m_SongBeginSample + MidiTimeToSample(m_MessageList[Min(Ons)].time)

Sings(i) ==
  \E t \in Tones[ProgramAt(i)] : m_MessageList[i].data \in t.min..t.max

Converted == phase = "done" /\ ~quit
PlayedToTheEnd == phase = "erased" /\ m_PlayerState = "FINISHED" /\ ~touched

\* The last sample of a single shot: its tones are played to their ends, but
\* for those that die away with the key down.
Shot == {t \in Tones[Songs[song].program] : Songs[song].note \in t.min..t.max}
FramesOf(t, pitch) == Max({k \in 0..t.size : k * (Rate[Songs[song].note] + pitch) < t.size - 1})
LastOfShot(pitch) ==
  Max({0} \cup {2 * FramesOf(t, pitch) - (IF t.pan = "left" THEN 1 ELSE 0) : t \in Shot})

EndsByItself ==
  Songs[song].kind = "seq" =>
    /\ Ons # {} /\ \A i \in Ons : IsProper(i)
    /\ Bars > 0
    /\ MidiTimeToSample(Last(m_MessageList).time - m_MessageList[Min(Ons)].time) >= Bars

-----------------------------------------------------------------------------
(* Properties *)

(* Every key is up exactly from the time of its own note-off, although all   *)
(* of a song's voices are made at once and NoteOffDelay knows them by program*)
(* and note only: if the note has a length, ends in the program it began in, *)
(* and no other channel lets the same key go in between.                     *)
KeysGoUpOnTime ==
  \A v \in m_Voices : v.message \in Ons /\ IsProper(v.message) =>
    (v.on <=> Elapsed < MidiTimeToSample(m_MessageList[OffOf(v.message)].time))

(* A sound that comes to its end was heard as a whole, whoever played it:    *)
(* every note that has a tone, and a single shot to the end of its sample,   *)
(* although a player is at its end before its voices are; and the encoder    *)
(* was given all of it, except for the left sample of a last frame whose     *)
(* right one is silent (SequencePlayer::AtEnd, AudioConverter::Convert).     *)
EndsWithItsSound ==
  /\ Converted \/ PlayedToTheEnd =>
       IF Songs[song].kind = "seq" THEN {i \in Ons : Sings(i)} \subseteq sounded
       ELSE (\A t \in Shot : t.sustain > 0) => \E pitch \in Pitches : heard = LastOfShot(pitch)
  /\ Converted => written >= heard - 1

(* A sound that is left alone ends: its file is finished, or its player is   *)
(* erased.  A sequence needs notes that end and a beat of a frame at least.  *)
SoundsEnd ==
  (phase \in {"update", "player"} /\ EndsByItself) ~> (phase \in {"done", "erased"} \/ touched)

=============================================================================
