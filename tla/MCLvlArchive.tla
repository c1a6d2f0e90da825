--------------------------- MODULE MCLvlArchive ---------------------------
(* An archive of an animation file, whose second header lies across the end  *)
(* of a sector and one of whose chunks fills another, a file without chunks, *)
(* an empty one and a sound bank.  A file of two sectors and some bytes, and *)
(* a movie of three sectors of which two are cloned.                         *)
EXTENDS LvlArchive

ArchiveFile == [location |-> 3, data_length |-> 7 * 2048, mov |-> FALSE]
OnDisk ==
  {ArchiveFile,
   [location |-> 12, data_length |-> 2 * 2048 + 100, mov |-> FALSE],
   [location |-> 20, data_length |-> 3 * 2048, mov |-> TRUE]}
Cut == {<<1, 2>>}

AnimHeader(at, id, size) == [at |-> at, id |-> id, size |-> size]
Archive ==
  <<[start |-> 1, size |-> 4200, blob |-> FALSE,
     headers |-> <<AnimHeader(2048, "walk", 2040), AnimHeader(4088, "run", 2072), AnimHeader(6160, "mark", 16),
                   AnimHeader(6176, "End!", 16)>>],
    [start |-> 4, size |-> 16, blob |-> FALSE, headers |-> <<AnimHeader(8192, "End!", 0)>>],
    [start |-> 5, size |-> 0, blob |-> FALSE, headers |-> <<>>],
    [start |-> 5, size |-> 3000, blob |-> TRUE, headers |-> <<>>]>>
=============================================================================
