------------------------------ MODULE Renderer ------------------------------
(***************************************************************************)
(* AbstractRenderer (src/abstractrenderer.cpp) over OpenGLRenderer         *)
(* (src/openglrenderer.cpp): drawing commands are written one behind the   *)
(* other into a buffer, and the end of the frame walks the buffer, sorts   *)
(* the commands by layer, issues them with as few changes of texture and   *)
(* render state as it can, and deletes the textures that were given up.    *)
(*                                                                         *)
(* The buffer is a sequence of cells: a header, or one point of the path   *)
(* whose header is before it.  ImGui and GL are external: ImGui keeps the  *)
(* texture that was pushed last, GL reuses the names of deleted textures.  *)
(***************************************************************************)
EXTENDS Naturals, Sequences, FiniteSets, SequencesExt

CONSTANTS
  Textures,          \* the texture names of GL
  Ui,                \* the texture of the font of ImGui, for shapes
  Layers, FmvLayer,  \* eLayers, and the one of the user interface
  Blends,            \* eBlendModes
  MaxCells           \* bound: cells of a frame

NoTexture == "nullptr"
Coordinates == {"eScreen", "eWorld"}

ASSUME RendererAssumption ==
  /\ Ui \in Textures /\ NoTexture \notin Textures
  /\ Layers \subseteq Nat /\ FmvLayer \in Nat
  /\ MaxCells \in Nat \ {0}
  /\ IsFiniteSet(Textures) /\ 2 * (MaxCells + 1) <= Cardinality(Textures)

VARIABLES
  mDrawCommandBuffer, mInPath, mPathBeginPos,
  alive,                \* the textures GL knows
  handles,              \* those the program holds, besides the fonts
  mDestroyTextureList,
  mFontStashTexture,
  drawn                 \* what the frame just ended drew: command, textures, coordinates

bufferVars == <<mDrawCommandBuffer, mInPath, mPathBeginPos>>
textureVars == <<alive, handles, mDestroyTextureList, mFontStashTexture>>
rendererVars == <<bufferVars, textureVars, drawn>>

RendererInit ==
  /\ mDrawCommandBuffer = <<>> /\ mInPath = FALSE /\ mPathBeginPos = 0
  /\ alive = {Ui} /\ handles = {} /\ mDestroyTextureList = <<>>
  /\ mFontStashTexture = NoTexture
  /\ drawn = <<>>

-----------------------------------------------------------------------------
(* Textures *)

\* glGenTextures: a name that is not in use, which may have been.
NewName(used) == CHOOSE t \in Textures : t \notin used

\* Bound: enough names are left for the fonts of a frame.
CreateTexture ==
  /\ Cardinality(alive \ {Ui, mFontStashTexture}) + 2 * (MaxCells + 1) < Cardinality(Textures)
  /\ alive' = alive \cup {NewName(alive)} /\ handles' = handles \cup {NewName(alive)}
  /\ drawn' = <<>> /\ UNCHANGED <<bufferVars, mDestroyTextureList, mFontStashTexture>>

\* The holder gives the handle up; a frame may still be using it.
DestroyTexture(t) ==
  /\ t \in handles /\ handles' = handles \ {t}
  /\ mDestroyTextureList' = Append(mDestroyTextureList, t)
  /\ drawn' = <<>> /\ UNCHANGED <<bufferVars, alive, mFontStashTexture>>

-----------------------------------------------------------------------------
(* Drawing commands *)

Header(type, texture, layer, coordinates, blend) ==
  [type |-> type, size |-> 1, texture |-> texture,
   layer |-> layer, state |-> <<coordinates, blend>>]

Room(n) == Len(mDrawCommandBuffer) + n < MaxCells

\* TexturedQuad, Rect, Line, CircleFilled and Text; Rect stands for the shapes.
Draw(type, texture, layer, coordinates, blend) ==
  /\ ~mInPath /\ Room(1)
  /\ texture \in IF type = "eTexturedQuad" THEN handles ELSE {NoTexture}
  /\ mDrawCommandBuffer' = Append(mDrawCommandBuffer,
                                  Header(type, texture, layer, coordinates, blend))
  /\ drawn' = <<>> /\ UNCHANGED <<mInPath, mPathBeginPos, textureVars>>

\* The header holds nothing but its type until the path is filled.
PathBegin ==
  /\ ~mInPath /\ Room(2)
  /\ mInPath' = TRUE
  /\ mPathBeginPos' = Len(mDrawCommandBuffer) + 1
  /\ mDrawCommandBuffer' = Append(mDrawCommandBuffer, [type |-> "ePath"])
  /\ drawn' = <<>> /\ UNCHANGED <<textureVars>>

PathLineTo ==
  /\ mInPath /\ Room(1)
  /\ mDrawCommandBuffer' = Append(mDrawCommandBuffer, [type |-> "point"])
  /\ drawn' = <<>> /\ UNCHANGED <<mInPath, mPathBeginPos, textureVars>>

\* PathFill and PathStroke: the size reaches to where the buffer ends now.
PathEnd(layer, coordinates, blend) ==
  /\ mInPath /\ mInPath' = FALSE
  /\ mDrawCommandBuffer' =
       [mDrawCommandBuffer EXCEPT ![mPathBeginPos] =
         [Header("ePath", NoTexture, layer, coordinates, blend)
           EXCEPT !.size = Len(mDrawCommandBuffer) + 1 - mPathBeginPos]]
  /\ drawn' = <<>> /\ UNCHANGED <<mPathBeginPos, textureVars>>

-----------------------------------------------------------------------------
(* EndFrame *)

AddUiCmd == Append(mDrawCommandBuffer, Header("eImGuiUi", NoTexture, FmvLayer, "eScreen", "eNormal"))

\* Where the walk over the first cells may stop: each time where the command
\* before ends, and the last one ends with the cells.
Walks(buffer, cells) ==
  {at \in UNION {[1..n -> 1..cells] : n \in 0..cells} :
     LET end(i) == IF i = 0 THEN 1 ELSE at[i] + buffer[at[i]].size
     IN (\A i \in 1..Len(at) : at[i] = end(i - 1)) /\ end(Len(at)) = cells + 1}

\* Mutant: a later command goes before those of its layer.
BeforeUnstable(buffer, p, q) ==
  buffer[p].layer < buffer[q].layer \/ (buffer[p].layer = buffer[q].layer /\ p > q)

\* stable_sort: p < q is the order of the calls.
Before(buffer, p, q) ==
  buffer[p].layer < buffer[q].layer \/ (buffer[p].layer = buffer[q].layer /\ p < q)

Orders(buffer, at) ==
  {order \in [1..Len(at) -> Range(at)] :
     \A i, j \in 1..Len(at) : i < j => Before(buffer, order[i], order[j])}

\* g is what generateImGuiCommands and the font have made of the commands so far.
\* PushCallBack:
WithState(g, cmd) ==
  IF cmd.type \in {"eText", "eImGuiUi"} \/ g.lastState # cmd.state
    THEN [g EXCEPT !.lastState = cmd.state, !.coordinates = cmd.state[1]]
    ELSE g

\* PushTexture:
WithTexture(g, texture) ==
  IF g.lastTexture # texture
    THEN [g EXCEPT !.lastTexture = texture, !.texture = texture]
    ELSE g

\* Mutant: the texture that is replaced is not given up.
WithGlyphsLeaking(g, new) ==
  IF new
    THEN LET t == NewName(g.alive)
         IN [g EXCEPT !.font = t, !.alive = @ \cup {t}]
    ELSE g

\* FontStashRenderUpdate, when the text has glyphs that are not in the atlas.
WithGlyphs(g, new) ==
  IF new
    THEN LET t == NewName(g.alive)
         IN [g EXCEPT !.font = t, !.alive = @ \cup {t},
                      !.destroy = IF g.font = NoTexture THEN @ ELSE Append(@, g.font)]
    ELSE g

DrawnWith(g, cmd, textures) ==
  [g EXCEPT !.drawn = Append(@, [cmd |-> cmd, textures |-> textures,
                                  coordinates |-> g.coordinates, live |-> FALSE])]

Drawn(g, cmd) == DrawnWith(g, cmd, {g.texture})

\* The shadow of the text and the text, each with its glyphs.
\* FontStashRenderDraw pushes the texture of the font without PushTexture.
Text(g, cmd, new) ==
  LET shadow == WithGlyphs(WithTexture(g, Ui), "shadow" \in new \/ g.font = NoTexture)
      text == WithGlyphs(shadow, "text" \in new)
  IN DrawnWith([text EXCEPT !.texture = text.font], cmd, {shadow.font, text.font})

\* Mutant: the render state of the user interface is taken for the last one.
IssuedUiForgotten(g, cmd, new) ==
  LET h == WithState(g, cmd)
  IN CASE cmd.type = "eImGuiUi" -> [h EXCEPT !.lastState = g.lastState]
       [] cmd.type = "eTexturedQuad" -> Drawn(WithTexture(h, cmd.texture), cmd)
       [] cmd.type = "eText" -> Text(h, cmd, new)
       [] OTHER -> Drawn(WithTexture(h, Ui), cmd)

Issued(g, cmd, new) ==
  LET h == WithState(g, cmd)
  IN CASE cmd.type = "eImGuiUi" -> h
       [] cmd.type = "eTexturedQuad" -> Drawn(WithTexture(h, cmd.texture), cmd)
       [] cmd.type = "eText" -> Text(h, cmd, new)
       [] OTHER -> Drawn(WithTexture(h, Ui), cmd)

Unissued ==
  [drawn |-> <<>>, lastTexture |-> NoTexture, texture |-> NoTexture,
   lastState |-> <<"eScreen", "eOpaque">>, coordinates |-> "eScreen",
   font |-> mFontStashTexture, alive |-> alive, destroy |-> mDestroyTextureList]

\* fresh: what is drawn of each text with glyphs not drawn before.
NewGlyphs(fresh, p) == {layer \in {"shadow", "text"} : <<p, layer>> \in fresh}

Generated(buffer, order, fresh) ==
  LET upTo[i \in 0 .. Len(order)] ==
        IF i = 0 THEN Unissued
                 ELSE Issued(upTo[i - 1], buffer[order[i]], NewGlyphs(fresh, order[i]))
  IN upTo[Len(order)]

\* RenderCommandsImpl draws, then DestroyTextures deletes.
EndFrame ==
  /\ ~mInPath
  /\ LET buffer == AddUiCmd
         texts == {p \in DOMAIN buffer : buffer[p].type = "eText"}
     IN \E at \in Walks(buffer, Len(buffer)) : \E order \in Orders(buffer, at),
           fresh \in SUBSET (texts \X {"shadow", "text"}) :
          LET g == Generated(buffer, order, fresh)
          IN /\ drawn' = [i \in DOMAIN g.drawn |->
                            [g.drawn[i] EXCEPT !.live = g.drawn[i].textures \subseteq g.alive]]
             /\ mFontStashTexture' = g.font
             /\ alive' = g.alive \ Range(g.destroy)
  /\ mDestroyTextureList' = <<>>
  /\ mDrawCommandBuffer' = <<>>
  /\ UNCHANGED <<mInPath, mPathBeginPos, handles>>

RendererNext ==
  \/ CreateTexture \/ \E t \in Textures : DestroyTexture(t)
  \/ \E type \in {"eTexturedQuad", "eRect", "eText"}, t \in Textures \cup {NoTexture},
        l \in Layers, c \in Coordinates, b \in Blends : Draw(type, t, l, c, b)
  \/ PathBegin \/ PathLineTo
  \/ \E l \in Layers, c \in Coordinates, b \in Blends : PathEnd(l, c, b)
  \/ EndFrame

RendererSpec == RendererInit /\ [][RendererNext]_rendererVars

-----------------------------------------------------------------------------
(* Properties *)

\* What is done are the commands of buffer, each drawn from a place of its
\* own: the layers one after another, within a layer in the buffer's order.
DrawnInLayers(buffer, done) ==
  \E place \in [DOMAIN done -> DOMAIN buffer] :
    /\ Range(place) = {p \in DOMAIN buffer : buffer[p].type # "point"}
    /\ \A i \in DOMAIN done : done[i].cmd = buffer[place[i]]
    /\ \A i, j \in DOMAIN done : i < j =>
         \/ done[i].cmd.layer < done[j].cmd.layer
         \/ done[i].cmd.layer = done[j].cmd.layer /\ place[i] < place[j]

(* A frame draws every command once, the layers one after another and the    *)
(* commands of a layer in the order of the calls, however many points its    *)
(* paths have ("Call order doesn't determine draw order, but layers do",     *)
(* abstractrenderer.cpp:148).                                                *)
LayersDecideOrder ==
  [][mDrawCommandBuffer' = <<>> /\ mDrawCommandBuffer # <<>> =>
       DrawnInLayers(mDrawCommandBuffer, drawn')]_rendererVars

(* Whatever the frame draws, the texture is one GL still has: of quads whose *)
(* texture was given up after the call, and of texts drawn before the font   *)
(* got a new texture (DestroyTexture, FontStashRenderUpdate).                *)
DrawsLiveTextures == \A i \in DOMAIN drawn : drawn[i].live

\* names are in one place each: held, waiting in list, or the font's.
HeldOnce(names, list, font) ==
  LET waiting == Range(list)
      fonts == {Ui, font} \ {NoTexture}
  IN /\ names = handles \cup waiting \cup fonts
     /\ handles \cap waiting = {} /\ (handles \cup waiting) \cap fonts = {} /\ font # Ui
     /\ \A i, j \in DOMAIN list : list[i] = list[j] => i = j

(* Every texture of GL is held by somebody or waits for the end of the       *)
(* frame, once: none is lost and none deleted twice, also when the font is   *)
(* replaced in the middle of a frame.                                        *)
NoTextureLeaks == HeldOnce(alive, mDestroyTextureList, mFontStashTexture)

\* The walk comes to the end of the buffer, however many points its paths have.
WalkEnds == ~mInPath => Walks(AddUiCmd, Len(AddUiCmd)) # {}

(* The state the commands before leave behind is not taken for the wanted    *)
(* one: every command is found and drawn in its coordinates, quads with      *)
(* their texture and texts with one of the font (generateImGuiCommands), and *)
(* the texture is alive.                                                     *)
DrawnAsAsked ==
  WalkEnds /\ DrawsLiveTextures /\ \A i \in DOMAIN drawn :
    LET d == drawn[i]
    IN /\ d.coordinates = d.cmd.state[1]
       /\ d.cmd.type = "eTexturedQuad" => d.textures = {d.cmd.texture}
       /\ d.cmd.type = "eText" => Ui \notin d.textures

=============================================================================
