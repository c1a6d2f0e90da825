------------------------------ MODULE CdStream ------------------------------
(* A file of a CD image (RawCdImage::CdFileStream, include/cdromfilesystem.  *)
(* hpp): its bytes lie in sectors of the image, each between a raw header    *)
(* and an error correction code, and the stream keeps the place in the file, *)
(* the sector and the place in the image side by side.  A movie is read by   *)
(* whole sectors, their subheaders included.                                 *)
(*                                                                           *)
(* An iteration of the loop in ReadBytes is one step: it is where calls of   *)
(* two threads on one stream can take turns at the coarsest.                 *)
EXTENDS Integers

CONSTANTS
  Callers,     \* who reads the stream
  Records,       \* directory records: location, data_length, and whether it is a .MOV
  Places,      \* bound: where to Seek
  Amounts,     \* bound: how much to read
  SubFiles     \* what MovMovie clones of a movie: first sector and sectors

kRawSectorSize == 2352
RawHeader == 24    \* before the data of a file's sector
MovHeader == 16    \* before the subheader of a movie's sector

ASSUME CdAssumption ==
  /\ \A f \in Records : f.location \in Nat /\ f.data_length \in Nat /\ f.mov \in BOOLEAN
  /\ \A s \in SubFiles : s[1] \in Nat /\ s[2] \in Nat
  /\ Places \subseteq Nat /\ Amounts \subseteq Nat

ASSUME WholeSectors == \A f \in Records : f.mov => f.data_length % 2048 = 0

VARIABLES
  mDr, mPos, mSector,
  mStream,     \* the place in the image of the stream's own clone
  left,        \* destSize of a caller that is in ReadBytes, else -1
  \* history:
  fresh,       \* nothing has been read and no place sought
  piece        \* what was read last: the place in the image and how much

cdVars == <<mDr, mPos, mSector, mStream, left, fresh, piece>>

Idle(c) == left[c] = -1

\* Where the data of the file's first sector is.
FirstByte(dr) == dr.location * kRawSectorSize + (IF dr.mov THEN MovHeader ELSE RawHeader)

\* The constructor keeps the sector of the image, not that of the file.
CdInit ==
  /\ mDr \in Records
  /\ mPos = 0 /\ mSector = mDr.location /\ mStream = mDr.location * kRawSectorSize
  /\ left = [c \in Callers |-> -1]
  /\ fresh = TRUE /\ piece = [at |-> FirstByte(mDr), length |-> 0]

Reopened(dr) ==
  /\ mDr' = dr
  /\ mPos' = 0 /\ mSector' = dr.location /\ mStream' = dr.location * kRawSectorSize
  /\ left' = [c \in Callers |-> -1]
  /\ fresh' = TRUE /\ piece' = [at |-> FirstByte(dr), length |-> 0]

subDir(s) == [mDr EXCEPT !.location = @ + s[1], !.data_length = s[2] * 2048]

\* Clone(start, size): the user goes on with the clone.
Clone ==
  /\ mDr.mov /\ \A c \in Callers : Idle(c)
  /\ \E s \in SubFiles :
       /\ (s[1] + s[2]) * 2048 <= mDr.data_length
       /\ Reopened(subDir(s))

-----------------------------------------------------------------------------
(* Files *)

\* Every reader of a file begins with a header, of less than a sector.
ReadBytes(c, n) ==
  /\ ~mDr.mov /\ Idle(c)
  /\ fresh => n <= 2048
  /\ left' = [left EXCEPT ![c] = n]
  /\ UNCHANGED <<mDr, mPos, mSector, mStream, fresh, piece>>

\* The place in the image once the raw header is skipped.
DataPlace == IF mStream % kRawSectorSize = 0 THEN mStream + RawHeader ELSE mStream
posWithinSector == (DataPlace % kRawSectorSize) - RawHeader
Spans(c) == posWithinSector + left[c] > 2048

\* Mutant: the sector of the file is taken for one of the image.
SpanSectorOfImage(c) ==
  /\ ~Idle(c) /\ ~mDr.mov /\ Spans(c)
  /\ LET spaceLeft == 2048 - posWithinSector
     IN /\ piece' = [at |-> DataPlace, length |-> spaceLeft]
        /\ left' = [left EXCEPT ![c] = @ - spaceLeft]
  /\ mSector' = mSector + 1
  /\ mStream' = mSector' * kRawSectorSize
  /\ mPos' = mSector' * 2048
  /\ fresh' = FALSE /\ UNCHANGED mDr

\* More is wanted than this sector has: go on with the next one.
SpanSector(c) ==
  /\ ~Idle(c) /\ ~mDr.mov /\ Spans(c)
  /\ LET spaceLeft == 2048 - posWithinSector
     IN /\ piece' = [at |-> DataPlace, length |-> spaceLeft]
        /\ left' = [left EXCEPT ![c] = @ - spaceLeft]
  /\ mSector' = mSector + 1
  /\ mStream' = (mSector' + mDr.location) * kRawSectorSize
  /\ mPos' = mSector' * 2048
  /\ fresh' = FALSE /\ UNCHANGED mDr

ReadRest(c) ==
  /\ ~Idle(c) /\ ~mDr.mov /\ ~Spans(c)
  /\ piece' = [at |-> DataPlace, length |-> left[c]]
  /\ mStream' = DataPlace + left[c]
  /\ mPos' = mPos + left[c]
  /\ mSector' = IF left[c] = 0 THEN mSector ELSE DataPlace \div kRawSectorSize - mDr.location
  /\ fresh' = (fresh /\ left[c] = 0)
  /\ left' = [left EXCEPT ![c] = -1]
  /\ UNCHANGED mDr

Seek(p) ==
  /\ ~mDr.mov
  /\ mSector' = p \div 2048
  /\ mStream' = (mSector' + mDr.location) * kRawSectorSize + RawHeader + (p % 2048)
  /\ mPos' = p
  /\ fresh' = FALSE /\ piece' = [at |-> mStream', length |-> 0]
  /\ UNCHANGED <<mDr, left>>

-----------------------------------------------------------------------------
(* Movies *)

AtEnd == mPos = mDr.data_length

\* One sector of the movie, or, for IMovie::Factory, the beginning of one.
ReadSector(n) ==
  /\ mDr.mov /\ ~AtEnd
  /\ piece' = [at |-> mSector * kRawSectorSize + MovHeader, length |-> n]
  /\ mStream' = piece'.at + n
  /\ mSector' = mSector + 1
  /\ mPos' = mPos + 2048
  /\ fresh' = FALSE /\ UNCHANGED <<mDr, left>>

SeekStart ==
  /\ mDr.mov
  /\ mSector' = mDr.location
  /\ mPos' = 0
  /\ mStream' = mSector' * kRawSectorSize + MovHeader
  /\ piece' = [at |-> mStream', length |-> 0]
  /\ UNCHANGED <<mDr, left, fresh>>

CdNext ==
  \/ \E c \in Callers :
       \/ \E n \in Amounts : mPos + n <= mDr.data_length /\ ReadBytes(c, n)
       \/ SpanSector(c) \/ ReadRest(c)
       \/ \E p \in Places : Idle(c) /\ p <= mDr.data_length /\ Seek(p)
  \/ \E n \in {4, kRawSectorSize - MovHeader} : ReadSector(n)
  \/ SeekStart
  \/ Clone

CdSpec == CdInit /\ [][CdNext]_cdVars

-----------------------------------------------------------------------------
(* Properties *)

\* The place in the file of a place in the image; -1 when no data is there.
FilePlace(at) ==
  LET sector == at \div kRawSectorSize - mDr.location
      offset == at % kRawSectorSize
  IN IF mDr.mov
     THEN CASE offset = MovHeader -> sector * 2048
            [] offset > MovHeader -> (sector + 1) * 2048
            [] offset = 0 -> sector * 2048
            [] OTHER -> -1
     ELSE IF offset \in RawHeader..(RawHeader + 2048)
          THEN sector * 2048 + offset - RawHeader ELSE -1

(* A file of a CD image is a file: its bytes are read in order and all of    *)
(* them, across the ends of sectors, from wherever was sought, and Pos says  *)
(* where the next one comes from.  Of a movie, or the part of one that was   *)
(* cloned, it is the sectors that are (RawCdImage::CdFileStream).            *)
File == INSTANCE ByteFile WITH
  pos <- mPos,
  piece <- [first |-> FilePlace(piece.at), after |-> FilePlace(piece.at + piece.length)]

ImplementsFile == File!ByteSpec
=============================================================================
