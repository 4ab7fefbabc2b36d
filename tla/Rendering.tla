------------------------------- MODULE Rendering -------------------------------
(***************************************************************************)
(* RenderSystem (src/engine/src/ecs/systems/RenderSystem.cpp) with its     *)
(* TextRenderer, the font's glyph cache, the texture atlases and the state *)
(* of the graphics context they share.                                     *)
(*                                                                         *)
(* The constructor builds the meshes (the module Mesh).  A frame then      *)
(* draws the entities with a RenderComponent, switching what is bound only *)
(* when it differs from the last entity's, and the texts, whose quads are  *)
(* collected and drawn together as long as they come from one atlas.       *)
(*                                                                         *)
(* gl is what the context has bound: a vertex array, a program, a texture  *)
(* in unit 0, and two switches.  What glClear, glDrawElements and          *)
(* glDrawArrays leave on the screen is the sequence shown of what was      *)
(* drawn and with what bound.  Colours, matrices and positions on the      *)
(* screen are left out, and so is the loading of asset files: a world      *)
(* names assets that are registered.                                       *)
(***************************************************************************)
EXTENDS Mesh, Atlas, SequencesExt

CONSTANTS
    Worlds,     \* what the State::Init functions put into a world, as far as it is drawn
    Null        \* entt::null

Programs == {"Primitive", "Font"}

Textures == {"White", "Logo"}

(* Textures and atlases as what can be bound to the unit.                  *)
Texture(t) == <<"Texture", t>>

Atlas(index) == <<"Atlas", index>>

Drawable == [mesh : {"PLAIN", "CUBE", "SPHERE", "CYLINDER"}, shader : Programs, texture : Textures]

ASSUME WorldsAssumption ==
    \A w \in Worlds :
        /\ w.entities \in Seq(Drawable)
        /\ w.texts \in Seq(Seq(Codepoints))
        /\ w.camera \in Nat \cup {Null}  \* the entity with the tag and a CameraComponent

VARIABLES
    phase,        \* "Build", "Frame" between frames, "Entities", "Texts"
    world,        \* the world of the engine's state
    curCam,       \* curCam_ of the engine
    curMesh, curShader, curTexture,   \* of RenderSystem
    batch,        \* vertices_: the characters whose quads wait to be drawn
    currentAtlas, \* currentAtlasIndex_
    gl,           \* the graphics context
    at,           \* the entity, or the text and the character, that comes next
    shown,        \* what the frame has drawn so far
    frames        \* whether a frame has been begun

textVars   == <<batch, currentAtlas, atlasVars>>
bindVars   == <<curMesh, curShader, curTexture>>
renderVars == <<phase, world, curCam, bindVars, textVars, gl, at, shown, frames>>
vars       == <<renderVars, meshVars>>

-----------------------------------------------------------------------------
(* Construction and the engine's part                                      *)

Init ==
    /\ MeshInit
    /\ phase = "Build"
    /\ world \in Worlds
    /\ curCam = Null
    /\ curMesh = "PLAIN" /\ curShader = "Primitive" /\ curTexture = "White"
    /\ batch = <<>>
    /\ currentAtlas = -1
    /\ AtlasInit
    /\ gl = [vao |-> "None", program |-> "None", texture |-> <<"None">>,
             depth |-> TRUE, cull |-> TRUE]
    /\ at = <<1, 1>>
    /\ shown = <<>>
    /\ frames = FALSE

BuildMesh ==
    /\ phase = "Build"
    /\ MeshNext
    /\ UNCHANGED renderVars

(* The rest of the constructor.                                            *)
EndConstruction ==
    /\ phase = "Build"
    /\ ~ Building
    /\ phase' = "Frame"
    /\ UNCHANGED <<world, curCam, bindVars, textVars, gl, at, shown, frames, meshVars>>

(* Engine::ChangeState; curCam_ is kept.                                   *)
ChangeState ==
    /\ phase = "Frame"
    /\ frames
    /\ world' \in Worlds
    /\ shown' = <<>>
    /\ at' = <<1, 1>>
    /\ frames' = FALSE
    /\ UNCHANGED <<phase, curCam, bindVars, textVars, gl, meshVars>>

-----------------------------------------------------------------------------
(* A frame                                                                 *)

Camera == IF curCam = Null THEN world.camera ELSE curCam

HasCamera == Camera # Null /\ Camera = world.camera

(* Without a camera the frame is cleared and Update returns.               *)
BeginWithoutCamera ==
    /\ phase = "Frame"
    /\ ~ HasCamera
    /\ curCam' = Camera
    /\ shown' = <<>>
    /\ frames' = TRUE
    /\ UNCHANGED <<phase, world, bindVars, textVars, gl, at, meshVars>>

(* Mutant: what the last frame has bound is taken to be bound still.       *)
BeginFrameBound ==
    /\ phase = "Frame"
    /\ HasCamera
    /\ curCam' = Camera
    /\ phase' = "Entities"
    /\ at' = <<1, 1>>
    /\ shown' = <<>>
    /\ frames' = TRUE
    /\ gl' = IF gl.vao = "None"
             THEN [gl EXCEPT !.vao = curMesh, !.program = curShader, !.texture = Texture(curTexture)]
             ELSE gl
    /\ UNCHANGED <<world, bindVars, textVars, meshVars>>

BeginFrame ==
    /\ phase = "Frame"
    /\ HasCamera
    /\ curCam' = Camera
    /\ phase' = "Entities"
    /\ at' = <<1, 1>>
    /\ shown' = <<>>
    /\ frames' = TRUE
    /\ gl' = [gl EXCEPT !.vao = curMesh, !.program = curShader, !.texture = Texture(curTexture)]
    /\ UNCHANGED <<world, bindVars, textVars, meshVars>>

(* A draw call with this context, of an entity or (0) of some quads.       *)
Drawn(context, entity, quads) ==
    [gl |-> context, entity |-> entity, quads |-> quads]

(* Each of the three is bound when it differs from the current one.        *)
DrawEntity ==
    LET e == world.entities[at[1]]
    IN  /\ phase = "Entities"
        /\ at[1] <= Len(world.entities)
        /\ gl' = [gl EXCEPT
                     !.program = IF curShader # e.shader THEN e.shader ELSE @,
                     !.texture = IF curTexture # e.texture THEN Texture(e.texture) ELSE @,
                     !.vao     = IF curMesh # e.mesh THEN e.mesh ELSE @]
        /\ curShader' = e.shader
        /\ curTexture' = e.texture
        /\ curMesh' = e.mesh
        /\ shown' = Append(shown, Drawn(gl', at[1], <<>>))
        /\ at' = <<at[1] + 1, 1>>
        /\ UNCHANGED <<phase, world, curCam, textVars, frames, meshVars>>

BeginTexts ==
    /\ phase = "Entities"
    /\ at[1] > Len(world.entities)
    /\ phase' = "Texts"
    /\ at' = <<1, 1>>
    /\ gl' = [gl EXCEPT !.depth = FALSE, !.cull = FALSE, !.program = "Font"]
    /\ UNCHANGED <<world, curCam, bindVars, textVars, shown, frames, meshVars>>

(* TextRenderer::Flush with this context: the context, what is shown and   *)
(* the quads that wait afterwards.                                         *)
(* Mutant: the quads are kept.                                             *)
FlushKept(context) ==
    IF batch = <<>> THEN [gl |-> context, shown |-> shown, batch |-> batch]
    ELSE LET bound == [context EXCEPT !.texture = Atlas(currentAtlas), !.vao = "Text"]
         IN  [gl |-> bound, shown |-> Append(shown, Drawn(bound, 0, batch)), batch |-> batch]

Flush(context) ==
    IF batch = <<>> THEN [gl |-> context, shown |-> shown, batch |-> batch]
    ELSE LET bound == [context EXCEPT !.texture = Atlas(currentAtlas), !.vao = "Text"]
         IN  [gl |-> bound, shown |-> Append(shown, Drawn(bound, 0, batch)), batch |-> <<>>]

(* DrawString, for the next character: the quads that wait are drawn first *)
(* when the glyph is in another atlas than theirs.                         *)
(* A new glyph's upload leaves its atlas bound.                            *)
QueueChar(c) ==
    /\ LET context == IF c \in DOMAIN glyphs THEN gl
                      ELSE [gl EXCEPT !.texture = Atlas(glyphs'[c].index)]
           flushed == IF currentAtlas # -1 /\ currentAtlas # glyphs'[c].index
                      THEN Flush(context)
                      ELSE [gl |-> context, shown |-> shown, batch |-> batch]
       IN  /\ gl' = flushed.gl
           /\ shown' = flushed.shown
           /\ batch' = Append(flushed.batch, c)
    /\ currentAtlas' = glyphs'[c].index

DrawChar(c) == GetGlyph(c) /\ QueueChar(c)

DrawString ==
    /\ phase = "Texts"
    /\ at[1] <= Len(world.texts)
    /\ LET text == world.texts[at[1]]
       IN  IF at[2] <= Len(text)
           THEN DrawChar(text[at[2]]) /\ at' = <<at[1], at[2] + 1>>
           ELSE at' = <<at[1] + 1, 1>> /\ UNCHANGED <<textVars, gl, shown>>
    /\ UNCHANGED <<phase, world, curCam, bindVars, frames, meshVars>>

(* The last Flush; the culling is not switched on again.                   *)
EndTexts ==
    /\ phase = "Texts"
    /\ at[1] > Len(world.texts)
    /\ LET flushed == Flush(gl)
       IN  /\ gl' = [flushed.gl EXCEPT !.depth = TRUE]
           /\ shown' = flushed.shown
           /\ batch' = flushed.batch
    /\ phase' = "Frame"
    /\ UNCHANGED <<world, curCam, bindVars, currentAtlas, atlasVars, at, frames, meshVars>>

Next ==
    \/ BuildMesh \/ EndConstruction
    \/ ChangeState
    \/ BeginWithoutCamera \/ BeginFrame
    \/ DrawEntity \/ BeginTexts \/ DrawString \/ EndTexts

Spec == Init /\ [][Next]_vars

-----------------------------------------------------------------------------
(* Properties                                                              *)

TypeOK ==
    /\ phase \in {"Build", "Frame", "Entities", "Texts"}
    /\ world \in Worlds
    /\ curShader \in Programs /\ curTexture \in Textures
    /\ batch \in Seq(DOMAIN glyphs)
    /\ batch # <<>> => currentAtlas \in 0 .. Len(atlases) - 1
    /\ phase = "Frame" => batch = <<>>
    /\ \A i \in 1 .. Len(shown) : shown[i].entity \in 0 .. Len(world.entities)

(* Every entity is drawn with its own mesh, shader and texture bound and   *)
(* with the depth test, whatever the entity before it, the texts of the    *)
(* last frame and the uploads of glyphs have left bound: curMesh_,         *)
(* curShader_ and curTexture_ are what the context has when they are       *)
(* compared (RenderSystem::Update).  And quads that are drawn together     *)
(* have their glyphs in the one atlas that is bound, also when a glyph     *)
(* between them was loaded into a new atlas, which binds that              *)
(* (TextRenderer::DrawString and Flush).                                   *)
DrawnWithTheirOwn ==
    \A i \in 1 .. Len(shown) :
        LET bound == shown[i].gl
            e   == world.entities[shown[i].entity]
        IN  IF shown[i].entity # 0
            THEN /\ bound.vao = e.mesh
                 /\ bound.program = e.shader
                 /\ bound.texture = Texture(e.texture)
                 /\ bound.depth
            ELSE /\ bound.vao = "Text" /\ bound.program = "Font"
                 /\ ~ bound.depth
                 /\ \A k \in 1 .. Len(shown[i].quads) :
                       Atlas(glyphs[shown[i].quads[k]].index) = bound.texture

(* A frame that has a camera shows every entity once and in order, before  *)
(* the texts, and every character of every text once and in order, however *)
(* the characters are spread over the atlases and with the quads of no     *)
(* other frame (vertices_ is cleared by each Flush and the last one draws  *)
(* the rest).                                                              *)
FrameIsComplete ==
    (phase = "Frame" /\ frames /\ HasCamera) =>
        LET entity == [i \in 1 .. Len(shown) |-> shown[i].entity]
            quads  == [i \in 1 .. Len(shown) |-> shown[i].quads]
        IN  /\ \A e \in 1 .. Len(world.entities) : \E i \in 1 .. Len(shown) : entity[i] = e
            /\ \A i, j \in 1 .. Len(shown) :
                  (i < j /\ entity[j] # 0) => (entity[i] # 0 /\ entity[i] < entity[j])
            /\ FlattenSeq(quads) = FlattenSeq(world.texts)

(* The glyphs are loaded as Atlas describes it.                            *)
ImplementsAtlas == AtlasSpec

(* Every entity is drawn with the culling that the constructor enables.    *)
EntitiesAreCulled ==
    \A i \in 1 .. Len(shown) : shown[i].entity # 0 => shown[i].gl.cull

=============================================================================
