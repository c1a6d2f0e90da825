----------------------------- MODULE LvlArchive -----------------------------
(* An archive of the game in a file of a CD image (oddlib/lvlarchive): its   *)
(* files and their chunks are found once, when it is opened, and remembered  *)
(* as places; what a chunk holds is read when a resource is located, from    *)
(* the one stream that all chunks share.  ResourceLocator's mMutex keeps the *)
(* locating threads apart; LocateVab does not take it.                       *)
EXTENDS CdStream, Sequences

CONSTANTS
  Lvl,         \* Lvl[i]: a file: start (sector), size, and if it is no blob its
               \* headers: where each is, the chunk's id and size, the End! at last
  Browsers     \* threads of LocateVab among the Callers

NoMutex == "free"

\* The headers a file of the archive may have.
ASSUME LvlAssumption ==
  /\ Browsers \subseteq Callers /\ NoMutex \notin Callers
  /\ DOMAIN Lvl = 1..Len(Lvl) /\ Len(Lvl) \in Nat
  /\ \A i \in DOMAIN Lvl :
       /\ Lvl[i].start \in Nat /\ Lvl[i].size \in Nat
       /\ DOMAIN Lvl[i].headers = 1..Len(Lvl[i].headers) /\ Len(Lvl[i].headers) \in Nat
       /\ \A k \in DOMAIN Lvl[i].headers :
            Lvl[i].headers[k].at \in Nat /\ Lvl[i].headers[k].size \in Nat

\* Each begins where the one before says, and the last one says so.
ASSUME HeadersAssumption ==
  \A i \in DOMAIN Lvl : LET h == Lvl[i].headers IN
    IF Lvl[i].blob \/ Lvl[i].size = 0 THEN h = <<>>
    ELSE /\ h # <<>> /\ h[1].at = Lvl[i].start * 2048
         /\ \A k \in DOMAIN h :
              /\ h[k].id = "End!" <=> k = Len(h)
              /\ h[k].size >= 16 \/ (h[k].size = 0 /\ k = Len(h))
              /\ k < Len(h) => h[k + 1].at = h[k].at + h[k].size

\* At one place there is one header.
ASSUME PlacesAssumption ==
  \A i, j \in DOMAIN Lvl : \A k \in DOMAIN Lvl[i].headers, l \in DOMAIN Lvl[j].headers :
    Lvl[i].headers[k].at = Lvl[j].headers[l].at => Lvl[i].headers[k] = Lvl[j].headers[l]

VARIABLES
  locatorMutex,    \* ResourceLocator::mMutex: its owner
  loading,         \* Load: closed, header, records, file, chunk, loaded
  mFiles,          \* the chunks of the files so far
  reads,           \* the reads a caller still has to make
  began,           \* where the structure or chunk that it reads begins
  next             \* history: where its next byte should come from; -1 after a wrong one

archiveVars == <<locatorMutex, loading, mFiles, reads, began, next>>
lvlVars == <<cdVars, archiveVars>>

HeaderFields == <<4, 4, 4, 4, 4, 4, 4, 4>>
RecordFields == <<12, 4, 4, 4>>
ChunkFields == <<4, 4, 4, 4>>

NothingOpen ==
  /\ locatorMutex = NoMutex /\ loading = "closed" /\ mFiles = <<>>
  /\ reads = [t \in Callers |-> <<>>]
  /\ began = [t \in Callers |-> -1] /\ next = [t \in Callers |-> -1]

ArchiveInit == CdInit /\ ~mDr.mov /\ NothingOpen

\* What t reads next begins at a place of the file.
WillRead(t, place, fields) ==
  /\ reads' = [reads EXCEPT ![t] = fields]
  /\ began' = [began EXCEPT ![t] = place]
  /\ next' = [next EXCEPT ![t] = place]
WillReadNothing(t) == WillRead(t, -1, <<>>)

Ready(t) == Idle(t) /\ reads[t] = <<>>

-----------------------------------------------------------------------------
(* Reading: the fields of a structure one by one, a chunk at once *)

ReadNext(t) ==
  /\ reads[t] # <<>> /\ ReadBytes(t, Head(reads[t]))
  /\ reads' = [reads EXCEPT ![t] = Tail(@)]
  /\ UNCHANGED <<locatorMutex, loading, mFiles, began, next>>

Receive(t) ==
  /\ SpanSector(t) \/ ReadRest(t)
  /\ next' = [next EXCEPT ![t] =
       IF piece'.length = 0 \/ FilePlace(piece'.at) = @ THEN @ + piece'.length ELSE -1]
  /\ UNCHANGED <<locatorMutex, loading, mFiles, reads, began>>

-----------------------------------------------------------------------------
(* LvlArchive::Load, by the first thread that locates something in it *)

OpenLvl(t) ==
  /\ loading = "closed" /\ locatorMutex = NoMutex /\ t \notin Browsers
  /\ locatorMutex' = t /\ loading' = "header"
  /\ WillRead(t, 0, HeaderFields)
  /\ UNCHANGED <<cdVars, mFiles>>

HeaderRead(t) ==
  /\ loading = "header" /\ locatorMutex = t /\ Ready(t)
  /\ loading' = "records"
  /\ WillRead(t, next[t], [k \in 1..(4 * Len(Lvl)) |-> RecordFields[((k - 1) % 4) + 1]])
  /\ UNCHANGED <<cdVars, locatorMutex, mFiles>>

\* It is not the header of an archive (the bytes are data, so it may be): the
\* constructor throws, and whoever locates something next opens it again.
HeaderInvalid(t) ==
  /\ loading = "header" /\ locatorMutex = t /\ Ready(t)
  /\ loading' = "closed" /\ locatorMutex' = NoMutex
  /\ Reopened(mDr) /\ WillReadNothing(t)
  /\ UNCHANGED mFiles

RecordsRead(t) ==
  /\ loading = "records" /\ locatorMutex = t /\ Ready(t)
  /\ loading' = "file" /\ WillReadNothing(t)
  /\ UNCHANGED <<cdVars, locatorMutex, mFiles>>

\* A sound bank is one chunk; in other files, if they are not empty, each chunk
\* has a header.
FileBegin(t) ==
  /\ loading = "file" /\ locatorMutex = t
  /\ Len(mFiles) < Len(Lvl)
  /\ LET f == Lvl[Len(mFiles) + 1] IN
       /\ Seek(f.start * 2048)
       /\ IF f.blob \/ f.size = 0
          THEN /\ mFiles' = Append(mFiles,
                    IF f.blob THEN <<[id |-> "0", mFilePos |-> mPos', mDataSize |-> f.size]>> ELSE <<>>)
               /\ UNCHANGED <<loading, reads, began, next>>
          ELSE /\ mFiles' = Append(mFiles, <<>>)
               /\ loading' = "chunk" /\ WillRead(t, mPos', ChunkFields)
  /\ UNCHANGED locatorMutex

\* The header that was read, if it was one.
ChunkHeaders ==
  UNION {{Lvl[i].headers[k] : k \in DOMAIN Lvl[i].headers} : i \in DOMAIN Lvl}
Parsed(t) == {h \in ChunkHeaders : h.at = began[t] /\ next[t] = h.at + 16}

ChunkRead(t) ==
  /\ loading = "chunk" /\ locatorMutex = t /\ Ready(t)
  /\ \E h \in Parsed(t) :
       /\ IF h.size = 0 THEN UNCHANGED cdVars ELSE Seek(mPos + h.size - 16)
       /\ IF h.id = "End!" THEN loading' = "file" /\ UNCHANGED mFiles /\ WillReadNothing(t)
          ELSE /\ mFiles' = [mFiles EXCEPT ![Len(mFiles)] =
                    Append(@, [id |-> h.id, mFilePos |-> mPos, mDataSize |-> h.size - 16])]
               /\ WillRead(t, mPos', ChunkFields) /\ UNCHANGED loading
  /\ UNCHANGED locatorMutex

FilesLoaded(t) ==
  /\ loading = "file" /\ locatorMutex = t
  /\ Len(mFiles) = Len(Lvl)
  /\ loading' = "loaded" /\ locatorMutex' = NoMutex
  /\ UNCHANGED <<cdVars, mFiles, reads, began, next>>

-----------------------------------------------------------------------------
(* FileChunk::ReadData, by whoever locates what is in the chunk *)

Chunks == UNION {{mFiles[i][k] : k \in DOMAIN mFiles[i]} : i \in DOMAIN mFiles}

\* Mutant: the stream is moved without the mutex.
LocateInUnlocked(t, chunk) ==
  /\ loading = "loaded" /\ Ready(t) /\ began[t] = -1
  /\ chunk.mDataSize # 0
  /\ Seek(chunk.mFilePos) /\ WillRead(t, chunk.mFilePos, <<chunk.mDataSize>>)
  /\ UNCHANGED <<locatorMutex, loading, mFiles>>

LocateIn(t, chunk) ==
  /\ loading = "loaded" /\ Ready(t) /\ began[t] = -1
  /\ t \in Browsers \/ locatorMutex = NoMutex
  /\ locatorMutex' = IF t \in Browsers THEN locatorMutex ELSE t
  /\ IF chunk.mDataSize = 0 THEN WillReadNothing(t) /\ UNCHANGED cdVars
     ELSE Seek(chunk.mFilePos) /\ WillRead(t, chunk.mFilePos, <<chunk.mDataSize>>)
  /\ UNCHANGED <<loading, mFiles>>

Located(t) ==
  /\ loading = "loaded" /\ Ready(t)
  /\ began[t] # -1 \/ locatorMutex = t
  /\ locatorMutex' = IF locatorMutex = t THEN NoMutex ELSE locatorMutex
  /\ WillReadNothing(t)
  /\ UNCHANGED <<cdVars, loading, mFiles>>

ArchiveNext ==
  \E t \in Callers :
    \/ OpenLvl(t) \/ HeaderRead(t) \/ HeaderInvalid(t) \/ RecordsRead(t) \/ FileBegin(t)
    \/ ChunkRead(t) \/ FilesLoaded(t) \/ ReadNext(t) \/ Receive(t)
    \/ \E chunk \in Chunks : LocateIn(t, chunk)
    \/ Located(t)

ArchiveSpec == ArchiveInit /\ [][ArchiveNext]_lvlVars

-----------------------------------------------------------------------------
(* Properties *)

\* What is in the archive.
LvlContents ==
  [i \in DOMAIN Lvl |->
     LET f == Lvl[i] h == f.headers IN
     IF f.blob THEN <<[id |-> "0", mFilePos |-> f.start * 2048, mDataSize |-> f.size]>>
     ELSE [k \in 1..(Len(h) - 1) |->
             [id |-> h[k].id, mFilePos |-> h[k].at + 16, mDataSize |-> h[k].size - 16]]]

(* All chunks of all files are found, and whoever reads one is given all its *)
(* bytes and no others, although every thread moves the one stream and the   *)
(* sectors of the disc end in the middle of headers and chunks               *)
(* (LvlArchive::Load, FileChunk::ReadData; LocateVab is not among them).     *)
ChunksAreWhole ==
  /\ \A t \in Callers : loading = "chunk" /\ locatorMutex = t /\ Ready(t) => Parsed(t) # {}
  /\ loading = "loaded" =>
       /\ mFiles = LvlContents
       /\ \A t \in Callers : Ready(t) /\ began[t] # -1 =>
            \E chunk \in Chunks : chunk.mFilePos = began[t]
                                  /\ next[t] = chunk.mFilePos + chunk.mDataSize
=============================================================================
