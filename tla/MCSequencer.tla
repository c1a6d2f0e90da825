---------------------------- MODULE MCSequencer ----------------------------
(* A sound bank with a plucked tone, a pad that loops over two layers of the *)
(* keyboard, and no tone for the highest key; sequences that use running     *)
(* status, velocity 0, two channels and one key again, a key let go by the   *)
(* other channel, and such as never end, are refused or are empty; samples of*)
(* every tone.                                                               *)
EXTENDS Sequencer

Pluck == [min |-> 0, max |-> 1, size |-> 8, loop |-> FALSE, pan |-> "left",
          attack |-> 2, decay |-> 1, sustain |-> 1, release |-> 1]
Pad == [min |-> 0, max |-> 1, size |-> 5, loop |-> TRUE, pan |-> "both",
        attack |-> 1, decay |-> 0, sustain |-> 2, release |-> 2]
Layer == [Pluck EXCEPT !.min = 1, !.pan = "both"]
Bank == [p \in 0..1 |-> IF p = 0 THEN {Pluck} ELSE {Pad, Layer}]
Steps == [n \in 0..2 |-> IF n = 0 THEN 1 ELSE 2]

Event(delta, status, data, velocity) ==
  [delta |-> delta, status |-> status, data |-> data, velocity |-> velocity]
On(delta, channel, note) == Event(delta, <<"on", channel>>, note, 64)
Off(delta, channel, note) == Event(delta, <<"off", channel>>, note, 0)
Running(delta, note, velocity) == Event(delta, <<>>, note, velocity)
Program(channel, program) == Event(0, <<"program", channel>>, program, 0)
Tempo == Event(1, <<"tempo", 15>>, 0, 0)
EndTrack(delta) == Event(delta, <<"end", 15>>, 0, 0)

Again == <<Program(0, 1), On(0, 0, 0), Running(2, 0, 0), Running(1, 0, 64), Running(1, 0, 0), EndTrack(1)>>
Duet == <<Program(1, 1), On(1, 0, 0), On(0, 1, 0), Tempo, Off(0, 1, 0), On(1, 1, 1),
          Off(0, 0, 0), Off(1, 1, 1), EndTrack(0)>>
HeldOver == <<Program(0, 1), On(0, 0, 0), Program(0, 0), Off(1, 0, 0), EndTrack(1)>>
Stray == <<On(0, 0, 0), Off(0, 1, 0), Off(1, 0, 0), On(0, 0, 1), Off(1, 1, 1), Off(1, 0, 1), EndTrack(1)>>
Refused == <<Running(0, 0, 64), EndTrack(1)>>
Empty == <<EndTrack(0)>>

AllSongs ==
  [n \in {"again", "duet", "held over", "stray", "refused", "empty"} |->
     [kind |-> "seq",
      events |-> CASE n = "again" -> Again [] n = "duet" -> Duet [] n = "held over" -> HeldOver
                   [] n = "stray" -> Stray [] n = "refused" -> Refused [] n = "empty" -> Empty]]
  @@ [n \in {"pluck", "pad"} |-> [kind |-> "sample", program |-> IF n = "pluck" THEN 0 ELSE 1, note |-> 0]]
  @@ "mute" :> [kind |-> "sample", program |-> 0, note |-> 2]
=============================================================================
