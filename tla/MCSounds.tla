------------------------------ MODULE MCSounds ------------------------------
(* What Sound keeps in memory, and one of the sounds it converts and plays.  *)
(* They share no state in the modules, so one of them moves in a behaviour;  *)
(* the disk is empty, and the sound one without notes, when it does not.     *)
EXTENDS MCSound, MCSequencer

VARIABLE part

allSoundVars == <<vars, soundVars, sequencerVars, part>>

SoundsInit ==
  /\ part \in {"memory", "sound"}
  /\ SoundInit /\ SequencerInit
  /\ part = "memory" \/ (version = "empty" /\ \A n \in Names : wav[n] = "none" /\ tmp[n] = "none")
  /\ part = "sound" \/ (song = "refused" /\ phase = "player")

\* The sound is over, ended the program, or its file would grow for ever.
Ended ==
  /\ part = "sound"
  /\ \/ phase \in {"done", "erased", "crashed"}
     \/ phase = "play" /\ mCurrentSampleIndex >= MaxSample
  /\ UNCHANGED allSoundVars

SoundsNext ==
  \/ part = "memory" /\ SoundNext /\ UNCHANGED <<sequencerVars, part>>
  \/ part = "sound" /\ SequencerNext /\ UNCHANGED <<vars, soundVars, part>>
  \/ Ended

\* The fairness of the modules, for the part that moves.
SoundsFairness ==
  /\ SF_<<vars, soundVars>>(part = "memory" /\ UpdateStep)
  /\ SF_<<vars, soundVars>>(part = "memory" /\ Notified)
  /\ WF_<<vars, soundVars>>(part = "memory" /\ PlayEnd)
  /\ WF_<<vars, soundVars>>(part = "memory" /\ Working)
  /\ WF_sequencerVars(part = "sound" /\ ConvertStep)
  /\ WF_sequencerVars(part = "sound" /\ (PlayerErased \/ PlayerUpdate))
  /\ WF_sequencerVars(part = "sound" /\ PlayerPlay)

SoundsSpec == SoundsInit /\ [][SoundsNext]_allSoundVars /\ SoundsFairness
=============================================================================
