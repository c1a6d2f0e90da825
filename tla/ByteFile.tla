------------------------------ MODULE ByteFile ------------------------------
(* What an open file is to its readers (IStream): a position that moves over *)
(* the bytes in order, whoever reads, and never passes one unread.           *)
EXTENDS Integers

CONSTANT Callers

VARIABLES
  pos,     \* where the next byte comes from
  left,    \* bytes that a caller's read still wants; -1 when it reads nothing
  piece    \* the bytes given last: the first one, and the one after them

byteVars == <<pos, left, piece>>

ByteInit ==
  /\ pos = 0
  /\ left = [c \in Callers |-> -1]
  /\ piece = [first |-> 0, after |-> 0]

Ask(c) ==
  /\ left[c] = -1 /\ left'[c] \in Nat
  /\ left' = [left EXCEPT ![c] = left'[c]]
  /\ UNCHANGED <<pos, piece>>

\* A part of what is wanted, maybe all of it, and from the position on.
Give(c) ==
  LET k == pos' - pos
  IN /\ k \in 0..left[c]
     /\ piece' = [first |-> pos, after |-> pos']
     /\ left' = [left EXCEPT ![c] = IF k = @ THEN -1 ELSE @ - k]

\* A movie is read by sectors.
GiveSector(size) ==
  /\ piece' = [first |-> pos, after |-> pos + size]
  /\ pos' = pos + size
  /\ UNCHANGED left

SeekTo ==
  /\ pos' \in Nat
  /\ piece' = [first |-> pos', after |-> pos']
  /\ UNCHANGED left

\* Another file, or a part of this one, from its beginning.
Reopen ==
  /\ pos' = 0 /\ piece' = [first |-> 0, after |-> 0]
  /\ left' = [c \in Callers |-> -1]

ByteNext ==
  \/ SeekTo
  \/ \E c \in Callers : Ask(c) \/ Give(c)
  \/ GiveSector(2048)
  \/ Reopen

ByteSpec == ByteInit /\ [][ByteNext]_byteVars
=============================================================================
