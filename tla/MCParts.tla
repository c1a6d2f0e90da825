------------------------------ MODULE MCParts ------------------------------
(* Seven parts of the program of which only safety is checked: the input a   *)
(* frame of Engine::Run starts with, the editor it updates, the resources    *)
(* that are located for it, the archives they are in and the files of a CD   *)
(* image these are, the sounds that are cached meanwhile, and the renderer   *)
(* it ends with.  They share no state in the modules, so one moves in a      *)
(* behaviour and the others stay as they start: a product would reach no     *)
(* state of a part that is not reached here.                                 *)
EXTENDS MCInput, MCEditorMode, MCResourceCache, MCLvlArchive, MCSoundCache, Renderer

VARIABLE part

partVars == <<inputVars, editorVars, cacheVars, lvlVars, vars, rendererVars, part>>

\* A part that does not move needs one initial state only.
PartInit ==
  /\ part \in {"input", "editor", "resources", "archive", "stream", "sounds", "renderer"}
  /\ InputInit /\ EditorInit /\ CacheInit /\ CdInit /\ NothingOpen /\ Init /\ RendererInit
  /\ part = "editor" \/ mStackLimit = -1
  /\ part = "resources" \/ ~overlaps
  /\ part = "stream" <=> mDr # ArchiveFile
  /\ part = "sounds" \/ (version = "empty" /\ \A n \in Names : wav[n] = "none" /\ tmp[n] = "none")

\* The threads share an archive's stream in its own part.
OneReader == \A c \in Callers \ {Main} : Idle(c)

PartNext ==
  \/ part = "input" /\ InputNext /\ UNCHANGED <<editorVars, cacheVars, lvlVars, vars, rendererVars, part>>
  \/ part = "editor" /\ EditorNext /\ UNCHANGED <<inputVars, cacheVars, lvlVars, vars, rendererVars, part>>
  \/ part = "resources" /\ CacheNext /\ UNCHANGED <<inputVars, editorVars, lvlVars, vars, rendererVars, part>>
  \/ part = "archive" /\ ArchiveNext
     /\ UNCHANGED <<inputVars, editorVars, cacheVars, vars, rendererVars, part>>
  \/ part = "stream" /\ CdNext /\ OneReader'
     /\ UNCHANGED <<inputVars, editorVars, cacheVars, archiveVars, vars, rendererVars, part>>
  \/ part = "sounds" /\ Next /\ UNCHANGED <<inputVars, editorVars, cacheVars, lvlVars, rendererVars, part>>
  \/ part = "renderer" /\ RendererNext /\ UNCHANGED <<inputVars, editorVars, cacheVars, lvlVars, vars, part>>

PartSpec == PartInit /\ [][PartNext]_partVars
=============================================================================
