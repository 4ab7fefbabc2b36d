---------------------------- MODULE RenderingProofs ----------------------------
(***************************************************************************)
(* Of every frame of every world: what is drawn, is drawn with its own     *)
(* mesh, shader and texture or atlas; the glyphs are loaded as Atlas says, *)
(* so that they never overlap; and all entities and all characters are     *)
(* drawn, once and in order.                                               *)
(*                                                                         *)
(* First the atlases alone, whatever asks for the glyphs; then Rendering.  *)
(***************************************************************************)
EXTENDS Rendering, SequenceLemmas

-----------------------------------------------------------------------------
(* Glyphs of any sizes that fit an empty atlas never overlap, and never    *)
(* leave their atlas, in whatever order they are asked for: GlyphsApart is *)
(* an invariant of AtlasSpec.                                              *)
(*                                                                         *)
(* It is not inductive: where the next glyph goes depends on the cursor of *)
(* the last atlas.  The strengthening says that every glyph lies behind    *)
(* the cursor of its own atlas: above the shelf, or on it and to the left. *)

Cursor == [x : Nat, y : Nat, row : Nat]

AtlasTypeOK ==
    /\ atlases \in Seq(Cursor)
    /\ DOMAIN glyphs \subseteq Codepoints
    /\ glyphs \in [DOMAIN glyphs -> [index : Nat, x : Nat, y : Nat]]

(* A rectangle that ends at right and bottom lies behind the cursor.       *)
Behind(right, bottom, atlas) ==
    /\ bottom <= atlas.y + atlas.row
    /\ bottom <= atlas.y \/ right <= atlas.x

Inside(c) == Right(c) <= AtlasWidth /\ Bottom(c) <= AtlasHeight

Settled(c) ==
    /\ glyphs[c].index \in 0 .. Len(atlases) - 1
    /\ Behind(Right(c), Bottom(c), atlases[glyphs[c].index + 1])

Apart(c, d) == glyphs[c].index = glyphs[d].index => Beside(c, d)

GlyphsInv ==
    /\ AtlasTypeOK
    /\ \A c \in DOMAIN glyphs : Inside(c) /\ Settled(c)
    /\ \A c \in DOMAIN glyphs : \A d \in DOMAIN glyphs \ {c} : Apart(c, d)

(* The size of a bitmap that fits an empty atlas.                          *)
Fitting(size) ==
    /\ size \in [w : Nat, h : Nat]
    /\ size.w + 1 <= AtlasWidth
    /\ size.h + 1 <= AtlasHeight

-----------------------------------------------------------------------------
(* TextureAtlas::Allocate: the shelf has room for the width of the bitmap, *)
(* and what lies behind the cursor stays behind it, whether the bitmap     *)
(* fits or not.                                                            *)
LEMMA AllocateKeepsBehind ==
    ASSUME NEW atlas \in Cursor, NEW size, Fitting(size)
    PROVE  /\ Shelf(atlas, size) \in Cursor
           /\ Allocate(atlas, size) \in Cursor
           /\ Shelf(atlas, size).x + size.w + 1 <= AtlasWidth
           /\ \A right, bottom \in Nat :
                 Behind(right, bottom, atlas) =>
                     /\ Behind(right, bottom, Shelf(atlas, size))
                     /\ Behind(right, bottom, Allocate(atlas, size))
<1> DEFINE shelf == Shelf(atlas, size)
<1>1. /\ shelf \in Cursor
      /\ shelf.x + size.w + 1 <= AtlasWidth
      /\ \A right, bottom \in Nat :
            Behind(right, bottom, atlas) => Behind(right, bottom, shelf)
  <2>1. CASE atlas.x + size.w + 1 > AtlasWidth
    BY <2>1, GlyphsFit DEF Shelf, Cursor, Behind, Fitting
  <2>2. CASE ~ (atlas.x + size.w + 1 > AtlasWidth)
    BY <2>2, GlyphsFit DEF Shelf, Cursor, Behind, Fitting
  <2> QED BY <2>1, <2>2
<1>2. /\ Taken(shelf, size) \in Cursor
      /\ \A right, bottom \in Nat :
            Behind(right, bottom, shelf) => Behind(right, bottom, Taken(shelf, size))
  <2> DEFINE x   == shelf.x + size.w + 1
             row == MaxOf(shelf.row, size.h + 1)
  <2> HIDE DEF shelf
  <2>1. /\ x \in Nat /\ row \in Nat
        /\ shelf.x <= x /\ shelf.row <= row
        /\ shelf.y \in Nat
    BY <1>1 DEF MaxOf, Cursor, Fitting
  <2>2. Taken(shelf, size) = [x |-> x, y |-> shelf.y, row |-> row]
    BY DEF Taken
  <2>3. shelf.x \in Nat /\ shelf.row \in Nat
    BY <1>1 DEF Cursor
  <2> HIDE DEF x, row
  <2>4. Taken(shelf, size) \in Cursor
    BY <2>1, <2>2 DEF Cursor
  <2> QED BY <2>1, <2>2, <2>3, <2>4 DEF Behind
<1> HIDE DEF shelf
<1>3. Allocate(atlas, size) = IF Fits(atlas, size) THEN Taken(shelf, size) ELSE shelf
  BY DEF Allocate, shelf
<1> QED BY <1>1, <1>2, <1>3 DEF shelf

(* The bitmap that fits lies behind the cursor it leaves, inside the       *)
(* atlas, and beside everything that was behind the cursor before.         *)
LEMMA AllocatePlaces ==
    ASSUME NEW atlas \in Cursor, NEW size, Fitting(size), Fits(atlas, size),
           NEW x, NEW y, x = Shelf(atlas, size).x, y = Shelf(atlas, size).y
    PROVE  /\ x \in Nat /\ y \in Nat
           /\ x + size.w + 1 <= AtlasWidth
           /\ y + size.h + 1 <= AtlasHeight
           /\ Behind(x + size.w + 1, y + size.h + 1, Allocate(atlas, size))
           /\ \A right, bottom \in Nat :
                 Behind(right, bottom, atlas) => right <= x \/ bottom <= y
<1> DEFINE shelf == Shelf(atlas, size)
<1>1. /\ shelf \in Cursor
      /\ shelf.x + size.w + 1 <= AtlasWidth
      /\ \A right, bottom \in Nat :
            Behind(right, bottom, atlas) => Behind(right, bottom, shelf)
  BY AllocateKeepsBehind
<1>2. Allocate(atlas, size) = Taken(shelf, size) /\ shelf.y + size.h + 1 <= AtlasHeight
  BY DEF Allocate, Fits
<1>3. x = shelf.x /\ y = shelf.y
  OBVIOUS
<1> HIDE DEF shelf
<1> QED BY <1>1, <1>2, <1>3 DEF Taken, MaxOf, Cursor, Behind, Fitting

(* An empty atlas is never too small.                                      *)
LEMMA EmptyAtlasFits ==
    ASSUME NEW size, Fitting(size)
    PROVE  EmptyAtlas \in Cursor /\ Fits(EmptyAtlas, size)
BY GlyphsFit DEF EmptyAtlas, Cursor, Fits, Shelf, Fitting

-----------------------------------------------------------------------------
(* AtlasManager::RequestAllocate: the bitmap gets its place in an atlas    *)
(* that is there, inside it and behind its cursor; every rectangle that    *)
(* was behind the cursor of its atlas still is; and one of the same atlas  *)
(* lies left of the place or above it.                                     *)
LEMMA RequestAllocate ==
    ASSUME AtlasTypeOK, NEW size, Fitting(size),
           NEW after, after = AtlasesAfter(size),
           NEW place, place = Allocated(size)
    PROVE  /\ after \in Seq(Cursor)
           /\ place \in [index : Nat, x : Nat, y : Nat]
           /\ place.index \in 0 .. Len(after) - 1
           /\ place.x + size.w + 1 <= AtlasWidth
           /\ place.y + size.h + 1 <= AtlasHeight
           /\ Behind(place.x + size.w + 1, place.y + size.h + 1, after[place.index + 1])
           /\ \A i \in 0 .. Len(atlases) - 1 : \A right, bottom \in Nat :
                 Behind(right, bottom, atlases[i + 1]) =>
                     /\ i \in 0 .. Len(after) - 1
                     /\ Behind(right, bottom, after[i + 1])
                     /\ i = place.index => right <= place.x \/ bottom <= place.y
<1> DEFINE n     == Len(Existing)
           last  == LastAtlas
           tried == [Existing EXCEPT ![n] = Allocate(last, size)]
<1>1. /\ Existing \in Seq(Cursor)
      /\ n \in Nat \ {0}
      /\ last \in Cursor /\ last = Existing[n]
      /\ Len(atlases) <= n
      /\ \A i \in 1 .. Len(atlases) : Existing[i] = atlases[i]
  <2>1. CASE atlases = <<>>
    <3>1. Existing = <<EmptyAtlas>> /\ EmptyAtlas \in Cursor
      BY <2>1, EmptyAtlasFits DEF Existing
    <3> QED BY <2>1, <3>1 DEF LastAtlas
  <2>2. CASE atlases # <<>>
    BY <2>2 DEF AtlasTypeOK, Existing, LastAtlas
  <2> QED BY <2>1, <2>2
<1>2. Allocate(last, size) \in Cursor
  BY <1>1, AllocateKeepsBehind
<1> HIDE DEF n, last
<1>3. /\ tried \in Seq(Cursor) /\ Len(tried) = n
      /\ tried[n] = Allocate(last, size)
      /\ \A i \in 1 .. n : i # n => tried[i] = Existing[i]
  BY <1>1, <1>2 DEF n
<1>4. \A i \in 1 .. Len(atlases) : \A right, bottom \in Nat :
          Behind(right, bottom, atlases[i]) => Behind(right, bottom, tried[i])
  <2> SUFFICES ASSUME NEW i \in 1 .. Len(atlases), NEW right \in Nat, NEW bottom \in Nat,
                      Behind(right, bottom, atlases[i])
               PROVE  Behind(right, bottom, tried[i])
    OBVIOUS
  <2>1. i \in 1 .. n /\ Existing[i] = atlases[i]
    BY <1>1 DEF AtlasTypeOK
  <2>2. CASE i # n
    BY <1>3, <2>1, <2>2
  <2>3. CASE i = n
    <3>1. Behind(right, bottom, last)
      BY <1>1, <2>1, <2>3
    <3>2. Behind(right, bottom, Allocate(last, size))
      BY <1>1, <3>1, AllocateKeepsBehind
    <3> QED BY <1>3, <2>3, <3>2
  <2> QED BY <2>2, <2>3
<1> HIDE DEF tried
<1>5. CASE Fits(last, size)
  <2> DEFINE x == Shelf(last, size).x
             y == Shelf(last, size).y
  <2>1. after = tried /\ place = [index |-> n - 1, x |-> x, y |-> y]
    BY <1>5 DEF AtlasesAfter, Allocated, Place, n, last, tried
  <2>2. /\ x \in Nat /\ y \in Nat
        /\ x + size.w + 1 <= AtlasWidth
        /\ y + size.h + 1 <= AtlasHeight
        /\ Behind(x + size.w + 1, y + size.h + 1, Allocate(last, size))
        /\ \A right, bottom \in Nat : Behind(right, bottom, last) => right <= x \/ bottom <= y
    BY <1>1, <1>5, AllocatePlaces
  <2> HIDE DEF x, y
  <2>3. /\ place \in [index : Nat, x : Nat, y : Nat]
        /\ place.index \in 0 .. Len(after) - 1
        /\ after[place.index + 1] = Allocate(last, size)
    BY <1>1, <1>3, <2>1, <2>2
  <2>4. ASSUME NEW i \in 0 .. Len(atlases) - 1, NEW right \in Nat, NEW bottom \in Nat,
               Behind(right, bottom, atlases[i + 1])
        PROVE  /\ i \in 0 .. Len(after) - 1
               /\ Behind(right, bottom, after[i + 1])
               /\ i = place.index => right <= place.x \/ bottom <= place.y
    <3>1. i + 1 \in 1 .. Len(atlases) /\ i \in 0 .. n - 1
      BY <1>1 DEF AtlasTypeOK
    <3>2. Behind(right, bottom, tried[i + 1])
      BY <1>4, <2>4, <3>1
    <3>3. ASSUME i = place.index PROVE right <= place.x \/ bottom <= place.y
      <4>1. i + 1 = n
        BY <1>1, <2>1, <3>3
      <4>2. Behind(right, bottom, last)
        BY <1>1, <2>4, <3>1, <4>1
      <4> QED BY <2>1, <2>2, <4>2
    <3> QED BY <1>3, <2>1, <3>1, <3>2, <3>3
  <2> QED BY <1>3, <2>1, <2>2, <2>3, <2>4
<1>6. CASE ~ Fits(last, size)
  <2> DEFINE x == Shelf(EmptyAtlas, size).x
             y == Shelf(EmptyAtlas, size).y
             fresh == Allocate(EmptyAtlas, size)
  <2>1. after = Append(tried, fresh) /\ place = [index |-> n, x |-> x, y |-> y]
    BY <1>6 DEF AtlasesAfter, Allocated, Place, n, last, tried
  <2>2. /\ x \in Nat /\ y \in Nat
        /\ x + size.w + 1 <= AtlasWidth
        /\ y + size.h + 1 <= AtlasHeight
        /\ Behind(x + size.w + 1, y + size.h + 1, fresh)
        /\ fresh \in Cursor
    BY EmptyAtlasFits, AllocatePlaces, AllocateKeepsBehind
  <2> HIDE DEF x, y, fresh
  <2>3. /\ after \in Seq(Cursor) /\ Len(after) = n + 1
        /\ after[n + 1] = fresh
        /\ \A i \in 1 .. n : after[i] = tried[i]
    BY <1>1, <1>3, <2>1, <2>2
  <2>4. ASSUME NEW i \in 0 .. Len(atlases) - 1, NEW right \in Nat, NEW bottom \in Nat,
               Behind(right, bottom, atlases[i + 1])
        PROVE  /\ i \in 0 .. Len(after) - 1
               /\ Behind(right, bottom, after[i + 1])
               /\ i = place.index => right <= place.x \/ bottom <= place.y
    <3>1. i + 1 \in 1 .. Len(atlases) /\ i + 1 \in 1 .. n
      BY <1>1 DEF AtlasTypeOK
    <3>2. Behind(right, bottom, tried[i + 1])
      BY <1>4, <2>4, <3>1
    <3> QED BY <1>1, <2>1, <2>3, <3>1, <3>2
  <2> QED BY <1>1, <2>1, <2>2, <2>3, <2>4
<1> QED BY <1>5, <1>6

-----------------------------------------------------------------------------
LEMMA InitGlyphs == AtlasInit => GlyphsInv
BY DEF AtlasInit, GlyphsInv, AtlasTypeOK, Cursor

LEMMA LoadGlyphKeepsInv ==
    ASSUME GlyphsInv, NEW c \in Codepoints, LoadGlyph(c)
    PROVE  GlyphsInv'
<1> DEFINE size == BitmapSize[c]
<1>1. Fitting(size)
  BY GlyphsFit DEF Fitting
<1>2. AtlasTypeOK
  BY DEF GlyphsInv
<1> DEFINE place == Allocated(size)
<1>3. /\ atlases' \in Seq(Cursor)
      /\ place \in [index : Nat, x : Nat, y : Nat]
      /\ place.index \in 0 .. Len(atlases') - 1
      /\ place.x + size.w + 1 <= AtlasWidth
      /\ place.y + size.h + 1 <= AtlasHeight
      /\ Behind(place.x + size.w + 1, place.y + size.h + 1, atlases'[place.index + 1])
      /\ \A i \in 0 .. Len(atlases) - 1 : \A right, bottom \in Nat :
            Behind(right, bottom, atlases[i + 1]) =>
                /\ i \in 0 .. Len(atlases') - 1
                /\ Behind(right, bottom, atlases'[i + 1])
                /\ i = place.index => right <= place.x \/ bottom <= place.y
  BY <1>1, <1>2, RequestAllocate DEF LoadGlyph
<1>4. /\ c \notin DOMAIN glyphs
      /\ DOMAIN glyphs' = DOMAIN glyphs \cup {c}
      /\ glyphs'[c] = place
      /\ \A d \in DOMAIN glyphs : glyphs'[d] = glyphs[d]
      /\ glyphs' = [d \in DOMAIN glyphs \cup {c} |-> glyphs'[d]]
  BY DEF LoadGlyph
<1>5. \A d \in DOMAIN glyphs :
          /\ d \in Codepoints /\ d # c
          /\ Right(d) \in Nat /\ Bottom(d) \in Nat
          /\ Right(d)' = Right(d) /\ Bottom(d)' = Bottom(d)
          /\ glyphs[d] \in [index : Nat, x : Nat, y : Nat]
  <2> SUFFICES ASSUME NEW d \in DOMAIN glyphs
               PROVE  /\ d \in Codepoints /\ d # c
                      /\ Right(d) \in Nat /\ Bottom(d) \in Nat
                      /\ Right(d)' = Right(d) /\ Bottom(d)' = Bottom(d)
                      /\ glyphs[d] \in [index : Nat, x : Nat, y : Nat]
    OBVIOUS
  <2>1. d \in Codepoints /\ glyphs[d] \in [index : Nat, x : Nat, y : Nat]
    BY <1>2 DEF AtlasTypeOK
  <2>2. d # c /\ glyphs'[d] = glyphs[d]
    BY <1>4
  <2>3. BitmapSize[d] \in [w : Nat, h : Nat]
    BY <2>1, GlyphsFit
  <2>4. Right(d) \in Nat /\ Bottom(d) \in Nat
    BY <2>1, <2>3 DEF Right, Bottom
  <2>5. Right(d)' = Right(d) /\ Bottom(d)' = Bottom(d)
    BY <2>2 DEF Right, Bottom
  <2> QED BY <2>1, <2>2, <2>4, <2>5
<1>6. /\ Right(c)' = place.x + size.w + 1
      /\ Bottom(c)' = place.y + size.h + 1
  BY <1>4 DEF Right, Bottom
<1> HIDE DEF size, place
<1>7. AtlasTypeOK'
  BY <1>2, <1>3, <1>4 DEF AtlasTypeOK
<1>8. ASSUME NEW d \in DOMAIN glyphs'
      PROVE  (Inside(d) /\ Settled(d))'
  <2>1. CASE d = c
    BY <1>3, <1>4, <1>6, <2>1 DEF Inside, Settled
  <2>2. CASE d # c
    <3>1. d \in DOMAIN glyphs /\ glyphs'[d] = glyphs[d]
      BY <1>4, <2>2
    <3>2. Inside(d) /\ Settled(d)
      BY <3>1 DEF GlyphsInv
    <3>3. Inside(d)'
      BY <1>5, <3>1, <3>2 DEF Inside
    <3>4. glyphs[d].index \in 0 .. Len(atlases) - 1
          /\ Behind(Right(d), Bottom(d), atlases[glyphs[d].index + 1])
      BY <3>2 DEF Settled
    <3>5. glyphs[d].index \in 0 .. Len(atlases') - 1
          /\ Behind(Right(d), Bottom(d), atlases'[glyphs[d].index + 1])
      BY <1>3, <1>5, <3>1, <3>4
    <3>6. Settled(d)'
      BY <1>5, <3>1, <3>5 DEF Settled
    <3> QED BY <3>3, <3>6
  <2> QED BY <2>1, <2>2
<1>9. ASSUME NEW d \in DOMAIN glyphs
      PROVE  Apart(c, d)' /\ Apart(d, c)'
  <2>1. /\ glyphs[d].index \in 0 .. Len(atlases) - 1
        /\ Behind(Right(d), Bottom(d), atlases[glyphs[d].index + 1])
    BY DEF GlyphsInv, Settled
  <2>2. glyphs[d].index = place.index => Right(d) <= place.x \/ Bottom(d) <= place.y
    BY <1>3, <1>5, <2>1
  <2> QED BY <1>4, <1>5, <2>2 DEF Apart, Beside
<1>10. ASSUME NEW d \in DOMAIN glyphs, NEW e \in DOMAIN glyphs \ {d}
       PROVE  Apart(d, e)'
  BY <1>4, <1>5 DEF GlyphsInv, Apart, Beside
<1>11. ASSUME NEW d \in DOMAIN glyphs', NEW e \in DOMAIN glyphs' \ {d}
       PROVE  Apart(d, e)'
  BY <1>4, <1>9, <1>10
<1> QED BY <1>7, <1>8, <1>11 DEF GlyphsInv

LEMMA StepKeepsGlyphs ==
    ASSUME GlyphsInv, [\E c \in Codepoints : GetGlyph(c)]_atlasVars
    PROVE  GlyphsInv'
<1>1. CASE UNCHANGED atlasVars
  BY <1>1 DEF atlasVars, GlyphsInv, AtlasTypeOK, Inside, Settled, Apart, Beside, Right, Bottom
<1>2. ASSUME NEW c \in Codepoints, LoadGlyph(c)
      PROVE  GlyphsInv'
  BY <1>2, LoadGlyphKeepsInv
<1> QED BY <1>1, <1>2 DEF GetGlyph

(* However many atlases it takes and in whatever order glyphs of whatever  *)
(* sizes are loaded, their rectangles are inside their atlases and none    *)
(* overlaps another: for every size of an atlas and every font.            *)
THEOREM GlyphsNeverOverlap == AtlasSpec => []GlyphsApart
<1>1. GlyphsInv => GlyphsApart
  BY DEF GlyphsInv, GlyphsApart, Inside, Settled, Apart
<1> QED BY <1>1, InitGlyphs, StepKeepsGlyphs, PTL DEF AtlasSpec

-----------------------------------------------------------------------------
(* Rendering.  The invariant says which part of the context the three      *)
(* current values tell, and when, and that all quads that wait are of the  *)
(* current atlas.                                                          *)

Meshes == {"PLAIN", "CUBE", "SPHERE", "CYLINDER"}

Unbound == <<"None">>

Bindings == {Unbound} \cup {Texture(t) : t \in Textures} \cup {Atlas(i) : i \in Int}

Context == [vao : Meshes \cup {"None", "Text"}, program : Programs \cup {"None"},
            texture : Bindings, depth : BOOLEAN, cull : BOOLEAN]

Piece == [gl : Context, entity : Nat, quads : Seq(Codepoints)]

Position == [1 .. 2 -> Nat \ {0}]

WorldInv ==
    /\ world \in Worlds
    /\ at \in Position
    /\ phase \in {"Build", "Frame", "Entities", "Texts"}

(* What the context has bound in each part of a frame.                     *)
BoundInv ==
    /\ gl \in Context
    /\ curMesh \in Meshes /\ curShader \in Programs /\ curTexture \in Textures
    /\ phase = "Entities" => /\ gl.vao = curMesh
                             /\ gl.program = curShader
                             /\ gl.texture = Texture(curTexture)
    /\ phase = "Texts" => gl.program = "Font"
    /\ phase = "Texts" => ~ gl.depth
    /\ phase # "Texts" => gl.depth

(* The quads that wait have their glyphs in the current atlas.             *)
Cached(quads, g) == \A k \in 1 .. Len(quads) : quads[k] \in DOMAIN g

BatchInv ==
    /\ batch \in Seq(Codepoints)
    /\ Cached(batch, glyphs)
    /\ currentAtlas \in Int
    /\ \A k \in 1 .. Len(batch) : glyphs[batch[k]].index = currentAtlas

(* A draw call of the world w, with the glyphs g.                          *)
PieceOK(d, w, g) ==
    IF d.entity # 0
    THEN /\ d.gl.vao = w.entities[d.entity].mesh
         /\ d.gl.program = w.entities[d.entity].shader
         /\ d.gl.texture = Texture(w.entities[d.entity].texture)
         /\ d.gl.depth
    ELSE /\ d.gl.vao = "Text" /\ d.gl.program = "Font"
         /\ ~ d.gl.depth
         /\ Cached(d.quads, g)
         /\ \A k \in 1 .. Len(d.quads) : Atlas(g[d.quads[k]].index) = d.gl.texture

ShownInv ==
    /\ shown \in Seq(Piece)
    /\ \A i \in 1 .. Len(shown) : PieceOK(shown[i], world, glyphs)

IInv == WorldInv /\ GlyphsInv /\ BoundInv /\ BatchInv /\ ShownInv

-----------------------------------------------------------------------------
LEMMA InitInvariant == Init => IInv
<1> SUFFICES ASSUME Init PROVE IInv
  OBVIOUS
<1>1. WorldInv
  BY DEF Init, WorldInv, Position
<1>2. GlyphsInv
  BY InitGlyphs DEF Init
<1>3. BoundInv
  <2> DEFINE first == [vao |-> "None", program |-> "None", texture |-> Unbound,
                       depth |-> TRUE, cull |-> TRUE]
  <2>1. gl = first /\ phase = "Build"
    BY DEF Init, Unbound
  <2>2. first \in Context
    <3>1. Unbound \in Bindings
      BY DEF Bindings
    <3> QED BY <3>1 DEF Context
  <2>3. first.depth
    OBVIOUS
  <2>4. /\ curMesh \in Meshes /\ curShader \in Programs /\ curTexture \in Textures
    BY DEF Init, Meshes, Programs, Textures
  <2> HIDE DEF first
  <2> QED BY <2>1, <2>2, <2>3, <2>4 DEF BoundInv
<1>4. BatchInv /\ ShownInv
  BY DEF Init, BatchInv, ShownInv, Cached
<1> QED BY <1>1, <1>2, <1>3, <1>4 DEF IInv

-----------------------------------------------------------------------------
(* The glyphs: of the steps, only DrawString's load one, and each loads    *)
(* one that Atlas would.                                                   *)
LEMMA StepLoadsAsAtlas ==
    ASSUME WorldInv, [Next]_vars
    PROVE  [\E c \in Codepoints : GetGlyph(c)]_atlasVars
<1>1. CASE DrawString
  <2> DEFINE text == world.texts[at[1]]
  <2>1. CASE at[1] <= Len(world.texts) /\ at[2] <= Len(text)
    <3>1. at[1] \in Nat \ {0} /\ at[2] \in Nat \ {0}
      BY DEF WorldInv, Position
    <3>2. world.texts \in Seq(Seq(Codepoints))
      BY WorldsAssumption DEF WorldInv
    <3>3. text \in Seq(Codepoints)
      BY <2>1, <3>1, <3>2
    <3>4. text[at[2]] \in Codepoints
      BY <2>1, <3>1, <3>3
    <3>5. GetGlyph(text[at[2]])
      BY <1>1, <2>1 DEF DrawString, DrawChar
    <3> QED BY <3>4, <3>5
  <2>2. CASE ~ (at[1] <= Len(world.texts) /\ at[2] <= Len(text))
    BY <1>1, <2>2 DEF DrawString, textVars
  <2> QED BY <2>1, <2>2
<1>2. CASE ~ DrawString
  <2>1. UNCHANGED atlasVars
    BY <1>2 DEF Next, vars, renderVars, textVars, BuildMesh, EndConstruction, ChangeState,
                BeginWithoutCamera, BeginFrame, DrawEntity, BeginTexts, EndTexts
  <2> QED BY <2>1
<1> QED BY <1>1, <1>2

(* A glyph that is cached stays where it is.                               *)
LEMMA GlyphsStay ==
    ASSUME [\E c \in Codepoints : GetGlyph(c)]_atlasVars
    PROVE  /\ DOMAIN glyphs \subseteq DOMAIN glyphs'
           /\ \A d \in DOMAIN glyphs : glyphs'[d] = glyphs[d]
BY DEF GetGlyph, LoadGlyph, atlasVars

LEMMA StepKeepsGlyphsInv ==
    ASSUME IInv, [Next]_vars
    PROVE  GlyphsInv'
BY StepLoadsAsAtlas, StepKeepsGlyphs DEF IInv

-----------------------------------------------------------------------------
(* The world and the place in it.                                          *)
LEMMA StepKeepsWorld ==
    ASSUME IInv, [Next]_vars
    PROVE  WorldInv'
<1>1. \A i, j \in Nat \ {0} : <<i, j>> \in Position
  BY DEF Position
<1>2. at[1] \in Nat \ {0} /\ at[2] \in Nat \ {0} /\ WorldInv
  BY DEF IInv, WorldInv, Position
<1>3. at[1] + 1 \in Nat \ {0} /\ at[2] + 1 \in Nat \ {0} /\ 1 \in Nat \ {0}
  BY <1>2
<1> USE DEF WorldInv
<1>4. CASE ChangeState
  BY <1>1, <1>2, <1>3, <1>4 DEF ChangeState
<1>5. CASE BuildMesh \/ EndConstruction \/ BeginWithoutCamera \/ EndTexts \/ UNCHANGED vars
  BY <1>2, <1>5 DEF BuildMesh, EndConstruction, BeginWithoutCamera, EndTexts, vars, renderVars
<1>6. CASE BeginFrame
  BY <1>1, <1>2, <1>3, <1>6 DEF BeginFrame
<1>7. CASE DrawEntity
  BY <1>1, <1>2, <1>3, <1>7 DEF DrawEntity
<1>8. CASE BeginTexts
  BY <1>1, <1>2, <1>3, <1>8 DEF BeginTexts
<1>9. CASE DrawString
  BY <1>1, <1>2, <1>3, <1>9 DEF DrawString
<1> QED BY <1>4, <1>5, <1>6, <1>7, <1>8, <1>9 DEF Next

-----------------------------------------------------------------------------
(* What is shown.                                                          *)
Stay ==
    /\ world' = world
    /\ DOMAIN glyphs \subseteq DOMAIN glyphs'
    /\ \A d \in DOMAIN glyphs : glyphs'[d] = glyphs[d]

LEMMA PieceStays ==
    ASSUME Stay, NEW d \in Piece, PieceOK(d, world, glyphs)
    PROVE  PieceOK(d, world', glyphs')
BY DEF Stay, PieceOK, Cached

LEMMA ShownStays ==
    ASSUME ShownInv, Stay, shown' = shown
    PROVE  ShownInv'
<1>1. \A i \in 1 .. Len(shown) : shown[i] \in Piece /\ PieceOK(shown[i], world, glyphs)
  BY DEF ShownInv
<1>2. \A i \in 1 .. Len(shown) : PieceOK(shown[i], world', glyphs')
  BY <1>1, PieceStays
<1> QED BY <1>2 DEF ShownInv

LEMMA ShownGrows ==
    ASSUME ShownInv, Stay, NEW d \in Piece, PieceOK(d, world', glyphs'),
           shown' = Append(shown, d)
    PROVE  ShownInv'
<1>1. shown' \in Seq(Piece) /\ Len(shown') = Len(shown) + 1 /\ Len(shown) \in Nat
  BY DEF ShownInv
<1>2. ASSUME NEW i \in 1 .. Len(shown')
      PROVE  PieceOK(shown'[i], world', glyphs')
  <2>1. CASE i <= Len(shown)
    <3>1. shown'[i] = shown[i] /\ shown[i] \in Piece /\ PieceOK(shown[i], world, glyphs)
      BY <1>1, <2>1 DEF ShownInv
    <3> QED BY <3>1, PieceStays
  <2>2. CASE ~ (i <= Len(shown))
    <3>1. shown'[i] = d
      BY <1>1, <2>2 DEF ShownInv
    <3> QED BY <3>1
  <2> QED BY <2>1, <2>2
<1> QED BY <1>1, <1>2 DEF ShownInv

(* TextRenderer::Flush: what waits is drawn with the atlas it is of.       *)
LEMMA FlushDraws ==
    ASSUME ShownInv, BatchInv, Stay, NEW context \in Context,
           context.program = "Font", ~ context.depth
    PROVE  /\ Flush(context).batch = <<>>
           /\ Flush(context).gl \in Context
           /\ Flush(context).gl.program = "Font"
           /\ ~ Flush(context).gl.depth
           /\ shown' = Flush(context).shown => ShownInv'
<1>1. CASE batch = <<>>
  <2>1. Flush(context) = [gl |-> context, shown |-> shown, batch |-> batch]
    BY <1>1 DEF Flush
  <2> QED BY <1>1, <2>1, ShownStays
<1>2. CASE batch # <<>>
  <2> DEFINE bound == [context EXCEPT !.texture = Atlas(currentAtlas), !.vao = "Text"]
             d     == [gl |-> bound, entity |-> 0, quads |-> batch]
  <2>1. Flush(context) = [gl |-> bound, shown |-> Append(shown, d), batch |-> <<>>]
    BY <1>2 DEF Flush, Drawn
  <2>2. /\ bound \in Context
        /\ bound.program = "Font" /\ ~ bound.depth
        /\ bound.vao = "Text" /\ bound.texture = Atlas(currentAtlas)
    <3>1. Atlas(currentAtlas) \in Bindings
      BY DEF Bindings, BatchInv
    <3> QED BY <3>1 DEF Context
  <2> HIDE DEF bound
  <2>3. d \in Piece /\ d.entity = 0 /\ d.quads = batch /\ d.gl = bound
    BY <2>2 DEF Piece, BatchInv
  <2>4. Cached(batch, glyphs') /\ \A k \in 1 .. Len(batch) : glyphs'[batch[k]].index = currentAtlas
    BY DEF BatchInv, Stay, Cached
  <2> HIDE DEF d
  <2>5. PieceOK(d, world', glyphs')
    BY <2>2, <2>3, <2>4 DEF PieceOK
  <2>6. shown' = Append(shown, d) => ShownInv'
    BY <2>3, <2>5, ShownGrows
  <2> QED BY <2>1, <2>2, <2>6
<1> QED BY <1>1, <1>2

-----------------------------------------------------------------------------
(* The steps.                                                              *)
Rest == BoundInv /\ BatchInv /\ ShownInv

(* Steps that draw and load nothing.                                       *)
LEMMA BetweenFrames ==
    ASSUME IInv, BuildMesh \/ EndConstruction \/ UNCHANGED vars
    PROVE  Rest'
<1>1. /\ UNCHANGED <<world, bindVars, textVars, gl, shown>>
      /\ phase' = phase \/ (phase = "Build" /\ phase' = "Frame")
  <2>1. CASE EndConstruction
    BY <2>1 DEF EndConstruction
  <2>2. CASE BuildMesh \/ UNCHANGED vars
    <3>1. UNCHANGED renderVars
      BY <2>2 DEF BuildMesh, vars
    <3> QED BY <3>1 DEF renderVars
  <2> QED BY <2>1, <2>2
<1>2. gl' = gl /\ curMesh' = curMesh /\ curShader' = curShader /\ curTexture' = curTexture
  BY <1>1 DEF bindVars
<1>3. BoundInv'
  <2>1. CASE phase' = phase
    BY <1>2, <2>1 DEF IInv, BoundInv
  <2>2. CASE phase = "Build" /\ phase' = "Frame"
    BY <1>2, <2>2 DEF IInv, BoundInv
  <2> QED BY <1>1, <2>1, <2>2
<1>4. BatchInv' /\ ShownInv'
  BY <1>1 DEF IInv, BatchInv, ShownInv, textVars, atlasVars
<1> QED BY <1>3, <1>4 DEF Rest

(* The first step of a frame, and ChangeState, clear what is shown.        *)
LEMMA NothingShown ==
    ASSUME IInv, ChangeState \/ BeginWithoutCamera \/ BeginFrame
    PROVE  Rest'
<1>1. shown' = <<>> /\ UNCHANGED <<bindVars, textVars>> /\ phase = "Frame"
  BY DEF ChangeState, BeginWithoutCamera, BeginFrame
<1>2. ShownInv' /\ BatchInv'
  BY <1>1 DEF IInv, ShownInv, BatchInv, textVars, atlasVars
<1>3. BoundInv'
  <2>1. CASE BeginFrame
    <3>1. gl' = [gl EXCEPT !.vao = curMesh, !.program = curShader, !.texture = Texture(curTexture)]
          /\ phase' = "Entities"
      BY <2>1 DEF BeginFrame
    <3>2. /\ gl \in Context /\ gl.depth
          /\ curMesh \in Meshes /\ curShader \in Programs /\ curTexture \in Textures
      BY <1>1 DEF IInv, BoundInv
    <3>3. Texture(curTexture) \in Bindings
      BY <3>2 DEF Bindings
    <3>4. /\ gl' \in Context /\ gl'.depth
          /\ gl'.vao = curMesh /\ gl'.program = curShader /\ gl'.texture = Texture(curTexture)
      BY <3>1, <3>2, <3>3 DEF Context
    <3> QED BY <1>1, <3>1, <3>2, <3>4 DEF BoundInv, bindVars
  <2>2. CASE ChangeState \/ BeginWithoutCamera
    BY <1>1, <2>2 DEF IInv, BoundInv, ChangeState, BeginWithoutCamera, bindVars
  <2> QED BY <2>1, <2>2
<1> QED BY <1>2, <1>3 DEF Rest

(* The three comparisons bind what the entity has.                         *)
LEMMA DrawEntityKeeps ==
    ASSUME IInv, DrawEntity
    PROVE  Rest'
<1> DEFINE e == world.entities[at[1]]
           d == [gl |-> gl', entity |-> at[1], quads |-> <<>>]
<1>1. /\ phase = "Entities" /\ phase' = "Entities"
      /\ curShader' = e.shader /\ curTexture' = e.texture /\ curMesh' = e.mesh
      /\ shown' = Append(shown, d)
      /\ UNCHANGED <<world, textVars>>
      /\ gl' = [gl EXCEPT
                   !.program = IF curShader # e.shader THEN e.shader ELSE gl.program,
                   !.texture = IF curTexture # e.texture THEN Texture(e.texture) ELSE gl.texture,
                   !.vao     = IF curMesh # e.mesh THEN e.mesh ELSE gl.vao]
  BY DEF DrawEntity, Drawn
<1>2. at[1] \in Nat \ {0} /\ e \in Drawable
  <2>1. world.entities \in Seq(Drawable) /\ at[1] \in Nat \ {0}
    BY WorldsAssumption DEF IInv, WorldInv, Position
  <2> QED BY <2>1 DEF DrawEntity
<1>3. e.mesh \in Meshes /\ e.shader \in Programs /\ e.texture \in Textures
  BY <1>2 DEF Drawable, Meshes
<1>4. /\ gl \in Context /\ gl.depth
      /\ gl.vao = curMesh /\ gl.program = curShader /\ gl.texture = Texture(curTexture)
  BY <1>1 DEF IInv, BoundInv
<1> HIDE DEF e
<1>5. /\ gl' \in Context /\ gl'.depth
      /\ gl'.vao = e.mesh /\ gl'.program = e.shader /\ gl'.texture = Texture(e.texture)
  <2>1. Texture(e.texture) \in Bindings
    BY <1>3 DEF Bindings
  <2>2. gl' = [gl EXCEPT !.program = e.shader, !.texture = Texture(e.texture), !.vao = e.mesh]
    BY <1>1, <1>4 DEF Context
  <2> QED BY <1>3, <1>4, <2>1, <2>2 DEF Context
<1>6. BoundInv'
  BY <1>1, <1>3, <1>5 DEF BoundInv
<1>7. BatchInv' /\ Stay
  BY <1>1 DEF IInv, BatchInv, Stay, textVars, atlasVars
<1>8. ShownInv'
  <2>0. gl' \in Context /\ at[1] \in Nat /\ <<>> \in Seq(Codepoints)
    BY <1>2, <1>5
  <2>1. d \in Piece
    BY <2>0 DEF Piece
  <2>2. PieceOK(d, world', glyphs')
    <3>1. d.gl = gl' /\ d.entity = at[1] /\ at[1] # 0 /\ e = world'.entities[at[1]]
      BY <1>1, <1>2 DEF e
    <3> HIDE DEF d
    <3> QED BY <1>5, <3>1 DEF PieceOK
  <2> HIDE DEF d
  <2> QED BY <1>1, <1>7, <2>1, <2>2, ShownGrows DEF IInv
<1> QED BY <1>6, <1>7, <1>8 DEF Rest

LEMMA BeginTextsKeeps ==
    ASSUME IInv, BeginTexts
    PROVE  Rest'
<1>1. /\ phase' = "Texts" /\ UNCHANGED <<world, bindVars, textVars, shown>>
      /\ gl' = [gl EXCEPT !.depth = FALSE, !.cull = FALSE, !.program = "Font"]
  BY DEF BeginTexts
<1>2. BatchInv' /\ ShownInv'
  BY <1>1 DEF IInv, BatchInv, ShownInv, textVars, atlasVars
<1>3. gl' \in Context /\ gl'.program = "Font" /\ ~ gl'.depth
  BY <1>1 DEF IInv, BoundInv, Context, Programs
<1>4. BoundInv'
  BY <1>1, <1>3 DEF IInv, BoundInv, bindVars
<1> QED BY <1>2, <1>4 DEF Rest

(* The last Flush.                                                         *)
LEMMA EndTextsKeeps ==
    ASSUME IInv, EndTexts
    PROVE  Rest'
<1> DEFINE flushed == Flush(gl)
<1>1. /\ phase = "Texts" /\ phase' = "Frame"
      /\ UNCHANGED <<world, bindVars, currentAtlas, atlasVars>>
      /\ gl' = [flushed.gl EXCEPT !.depth = TRUE]
      /\ shown' = flushed.shown
      /\ batch' = flushed.batch
  BY DEF EndTexts
<1>2. Stay
  BY <1>1 DEF Stay, atlasVars
<1>3. gl \in Context /\ gl.program = "Font" /\ ~ gl.depth
  BY <1>1 DEF IInv, BoundInv
<1>4. flushed.batch = <<>> /\ flushed.gl \in Context /\ ShownInv'
  BY <1>1, <1>2, <1>3, FlushDraws DEF IInv
<1> HIDE DEF flushed
<1>5. BatchInv'
  BY <1>1, <1>4 DEF IInv, BatchInv, Cached, atlasVars
<1>6. gl' \in Context /\ gl'.depth
  BY <1>1, <1>4 DEF Context
<1>7. BoundInv'
  BY <1>1, <1>6 DEF IInv, BoundInv, bindVars
<1> QED BY <1>4, <1>5, <1>7 DEF Rest

(* DrawString's next character: the quads that wait are drawn before one   *)
(* of another atlas joins them, with their own atlas bound although the    *)
(* new glyph's upload has bound that of the new one.                       *)
LEMMA DrawCharKeeps ==
    ASSUME IInv, GlyphsInv', Stay, phase = "Texts",
           NEW c \in Codepoints, DrawChar(c), UNCHANGED <<phase, bindVars>>
    PROVE  Rest'
<1> DEFINE index   == glyphs'[c].index
           context == IF c \in DOMAIN glyphs THEN gl ELSE [gl EXCEPT !.texture = Atlas(index)]
           flushed == IF currentAtlas # -1 /\ currentAtlas # index
                      THEN Flush(context)
                      ELSE [gl |-> context, shown |-> shown, batch |-> batch]
<1>1. /\ gl' = flushed.gl /\ shown' = flushed.shown /\ batch' = Append(flushed.batch, c)
      /\ currentAtlas' = index
  BY DEF DrawChar, QueueChar
<1>2. c \in DOMAIN glyphs'
  BY DEF DrawChar, GetGlyph, LoadGlyph, atlasVars
<1>3. index \in Nat
  BY <1>2 DEF GlyphsInv, AtlasTypeOK
<1> HIDE DEF index
<1>4. context \in Context /\ context.program = "Font" /\ ~ context.depth
  <2>1. gl \in Context /\ gl.program = "Font" /\ ~ gl.depth
    BY DEF IInv, BoundInv
  <2>2. Atlas(index) \in Bindings
    BY <1>3 DEF Bindings
  <2> QED BY <2>1, <2>2 DEF Context
<1> HIDE DEF context
<1>5. /\ flushed.gl \in Context /\ flushed.gl.program = "Font" /\ ~ flushed.gl.depth
      /\ ShownInv'
      /\ flushed.batch \in Seq(Codepoints)
      /\ Cached(flushed.batch, glyphs')
      /\ \A k \in 1 .. Len(flushed.batch) : glyphs'[flushed.batch[k]].index = index
  <2>1. CASE currentAtlas # -1 /\ currentAtlas # index
    <3>1. flushed = Flush(context)
      BY <2>1
    <3>2. /\ Flush(context).batch = <<>>
          /\ Flush(context).gl \in Context
          /\ Flush(context).gl.program = "Font" /\ ~ Flush(context).gl.depth
          /\ shown' = Flush(context).shown => ShownInv'
      BY <1>4, FlushDraws DEF IInv
    <3> HIDE DEF flushed
    <3> QED BY <1>1, <3>1, <3>2 DEF Cached
  <2>2. CASE ~ (currentAtlas # -1 /\ currentAtlas # index)
    <3>1. flushed = [gl |-> context, shown |-> shown, batch |-> batch]
      BY <2>2
    <3>2. flushed.gl = context /\ flushed.shown = shown /\ flushed.batch = batch
      BY <3>1
    <3> HIDE DEF flushed
    <3>3. ShownInv'
      BY <1>1, <3>2, ShownStays DEF IInv
    <3>4. /\ batch \in Seq(Codepoints) /\ Cached(batch, glyphs)
          /\ \A k \in 1 .. Len(batch) : glyphs[batch[k]].index = currentAtlas
      BY DEF IInv, BatchInv
    <3>5. \A k \in 1 .. Len(batch) : batch[k] \in DOMAIN glyphs' /\ glyphs'[batch[k]] = glyphs[batch[k]]
      BY <3>4 DEF Cached, Stay
    <3>6. \A k \in 1 .. Len(batch) : glyphs[batch[k]].index \in Nat
      BY <3>4 DEF Cached, IInv, GlyphsInv, AtlasTypeOK
    <3>7. \A k \in 1 .. Len(batch) : glyphs'[batch[k]].index = index
      BY <2>2, <3>4, <3>5, <3>6
    <3> QED BY <1>4, <3>2, <3>3, <3>4, <3>5, <3>7 DEF Cached
  <2> QED BY <2>1, <2>2
<1> DEFINE waiting == flushed.batch
<1> HIDE DEF flushed
<1>6. BoundInv'
  BY <1>1, <1>5 DEF IInv, BoundInv, bindVars
<1>7. BatchInv'
  <2>1. waiting \in Seq(Codepoints) /\ Len(waiting) \in Nat /\ batch' = Append(waiting, c)
    BY <1>1, <1>5
  <2>2. \A k \in 1 .. Len(waiting) :
            waiting[k] \in DOMAIN glyphs' /\ glyphs'[waiting[k]].index = index
    BY <1>5 DEF Cached
  <2> HIDE DEF waiting
  <2>3. batch' \in Seq(Codepoints) /\ Len(batch') = Len(waiting) + 1
    BY <2>1
  <2>4. ASSUME NEW k \in 1 .. Len(batch')
        PROVE  batch'[k] \in DOMAIN glyphs' /\ glyphs'[batch'[k]].index = index
    <3>1. CASE k <= Len(waiting)
      BY <2>1, <2>2, <3>1
    <3>2. CASE ~ (k <= Len(waiting))
      <4>1. batch'[k] = c
        BY <2>1, <2>3, <3>2
      <4> QED BY <1>2, <4>1 DEF index
    <3> QED BY <3>1, <3>2
  <2> QED BY <1>1, <1>3, <2>3, <2>4 DEF BatchInv, Cached
<1> QED BY <1>5, <1>6, <1>7 DEF Rest

LEMMA DrawStringKeeps ==
    ASSUME IInv, GlyphsInv', DrawString, [Next]_vars
    PROVE  Rest'
<1> DEFINE text == world.texts[at[1]]
<1>1. phase = "Texts" /\ at[1] <= Len(world.texts) /\ UNCHANGED <<phase, world, bindVars>>
  BY DEF DrawString
<1>2. Stay
  BY <1>1, StepLoadsAsAtlas, GlyphsStay DEF Stay, IInv
<1>3. CASE at[2] <= Len(text)
  <2>1. at[1] \in Nat \ {0} /\ at[2] \in Nat \ {0} /\ world.texts \in Seq(Seq(Codepoints))
    BY WorldsAssumption DEF IInv, WorldInv, Position
  <2>2. text \in Seq(Codepoints)
    BY <1>1, <2>1
  <2>3. text[at[2]] \in Codepoints
    BY <1>3, <2>1, <2>2
  <2>4. DrawChar(text[at[2]])
    BY <1>3 DEF DrawString
  <2> QED BY <1>1, <1>2, <2>3, <2>4, DrawCharKeeps
<1>4. CASE ~ (at[2] <= Len(text))
  <2>1. UNCHANGED <<textVars, gl, shown>>
    BY <1>4 DEF DrawString
  <2>2. BoundInv'
    BY <1>1, <2>1 DEF IInv, BoundInv, bindVars
  <2>3. BatchInv' /\ ShownInv'
    BY <1>1, <2>1 DEF IInv, BatchInv, ShownInv, textVars, atlasVars
  <2> QED BY <2>2, <2>3 DEF Rest
<1> QED BY <1>3, <1>4

-----------------------------------------------------------------------------
LEMMA StepKeepsInvariant ==
    ASSUME IInv, [Next]_vars
    PROVE  IInv'
<1>1. WorldInv' /\ GlyphsInv'
  BY StepKeepsWorld, StepKeepsGlyphsInv
<1>2. CASE BuildMesh \/ EndConstruction \/ UNCHANGED vars
  BY <1>1, <1>2, BetweenFrames DEF Rest, IInv
<1>3. CASE ChangeState \/ BeginWithoutCamera \/ BeginFrame
  BY <1>1, <1>3, NothingShown DEF Rest, IInv
<1>4. CASE DrawEntity
  BY <1>1, <1>4, DrawEntityKeeps DEF Rest, IInv
<1>5. CASE BeginTexts
  BY <1>1, <1>5, BeginTextsKeeps DEF Rest, IInv
<1>6. CASE DrawString
  <2>1. Rest'
    BY <1>1, <1>6, DrawStringKeeps
  <2> QED BY <1>1, <2>1 DEF Rest, IInv
<1>7. CASE EndTexts
  BY <1>1, <1>7, EndTextsKeeps DEF Rest, IInv
<1> QED BY <1>2, <1>3, <1>4, <1>5, <1>6, <1>7 DEF Next

THEOREM InvariantHolds == Spec => []IInv
<1>1. Init => IInv
  BY InitInvariant
<1>2. IInv /\ [Next]_vars => IInv'
  BY StepKeepsInvariant
<1> QED BY <1>1, <1>2, PTL DEF Spec

(* Whatever the frames and the texts are, the glyph cache and the atlases  *)
(* behave as Atlas says (Font::GetGlyph, AtlasManager::RequestAllocate).   *)
THEOREM RenderingImplementsAtlas == Spec => ImplementsAtlas
<1>1. Init => AtlasInit
  BY DEF Init
<1>2. IInv /\ [Next]_vars => [\E c \in Codepoints : GetGlyph(c)]_atlasVars
  BY StepLoadsAsAtlas DEF IInv
<1> QED BY <1>1, <1>2, InvariantHolds, PTL DEF Spec, ImplementsAtlas, AtlasSpec

(* So no upload of a glyph paints over another, in a running program.      *)
THEOREM RenderedGlyphsApart == Spec => []GlyphsApart
BY RenderingImplementsAtlas, GlyphsNeverOverlap, PTL DEF ImplementsAtlas

(* Entities are drawn with their own mesh, shader and texture bound, quads *)
(* with the atlas their glyphs are in (RenderSystem::Update and            *)
(* TextRenderer), for all worlds and fonts.                                *)
THEOREM EverythingDrawnWithItsOwn == Spec => []DrawnWithTheirOwn
<1>1. IInv => DrawnWithTheirOwn
  BY DEF IInv, ShownInv, PieceOK, DrawnWithTheirOwn
<1> QED BY <1>1, InvariantHolds, PTL

-----------------------------------------------------------------------------
(* What a frame shows.  While it is drawn, the entities up to the one that *)
(* comes next are shown, and what is shown of the texts, with the quads    *)
(* that wait, is what they say up to the character that comes next.        *)

Quads(s) == [i \in 1 .. Len(s) |-> s[i].quads]

(* The characters that these draw calls show.                              *)
Painted(s) == FlattenSeq(Quads(s))

(* These draw calls are those of the first n entities, and then of quads.  *)
EntitiesFirst(s, n) ==
    /\ n <= Len(s)
    /\ \A i \in 1 .. Len(s) : s[i].entity = IF i <= n THEN i ELSE 0

(* The texts as far as the character that comes next.                      *)
Begun == IF at[1] <= Len(world.texts) THEN SubSeq(world.texts[at[1]], 1, at[2] - 1) ELSE <<>>

Read == FlattenSeq(SubSeq(world.texts, 1, at[1] - 1)) \o Begun

EntitiesInv ==
    /\ at[1] <= Len(world.entities) + 1
    /\ Len(shown) = at[1] - 1
    /\ EntitiesFirst(shown, at[1] - 1)
    /\ Painted(shown) = <<>>

TextsInv ==
    /\ at[1] <= Len(world.texts) + 1
    /\ at[1] <= Len(world.texts) => at[2] <= Len(world.texts[at[1]]) + 1
    /\ EntitiesFirst(shown, Len(world.entities))
    /\ Painted(shown) \o batch = Read

Complete ==
    /\ EntitiesFirst(shown, Len(world.entities))
    /\ Painted(shown) = FlattenSeq(world.texts)

FrameInv ==
    /\ phase # "Texts" => batch = <<>>
    /\ phase = "Build" => ~ frames
    /\ phase = "Entities" => EntitiesInv
    /\ phase = "Texts" => TextsInv
    /\ (phase = "Frame" /\ frames /\ HasCamera) => Complete

-----------------------------------------------------------------------------
(* What they are made of.                                                  *)
LEMMA QuadsAppend ==
    ASSUME NEW s \in Seq(Piece), NEW d \in Piece
    PROVE  /\ Quads(s) \in Seq(Seq(Codepoints))
           /\ Quads(Append(s, d)) = Append(Quads(s), d.quads)
<1>1. \A p \in Piece : p.quads \in Seq(Codepoints)
  BY DEF Piece
<1>2. ASSUME NEW t \in Seq(Piece)
      PROVE  /\ Quads(t) \in Seq(Seq(Codepoints))
             /\ Len(Quads(t)) = Len(t)
             /\ \A i \in 1 .. Len(t) : Quads(t)[i] = t[i].quads
  <2>1. \A i \in 1 .. Len(t) : t[i].quads \in Seq(Codepoints)
    BY <1>1
  <2>2. Len(t) \in Nat
    OBVIOUS
  <2> QED BY <2>1, <2>2 DEF Quads
<1>3. /\ Append(s, d) \in Seq(Piece) /\ Len(Append(s, d)) = Len(s) + 1 /\ Len(s) \in Nat
      /\ \A i \in 1 .. Len(s) + 1 : Append(s, d)[i] = IF i <= Len(s) THEN s[i] ELSE d
  OBVIOUS
<1>4. d.quads \in Seq(Codepoints)
  BY <1>1
<1> DEFINE q == Quads(Append(s, d))
           r == Append(Quads(s), d.quads)
<1>5. q \in Seq(Seq(Codepoints)) /\ Len(q) = Len(s) + 1
  BY <1>2, <1>3
<1>6. r \in Seq(Seq(Codepoints)) /\ Len(r) = Len(s) + 1
  BY <1>2, <1>3, <1>4
<1>7. ASSUME NEW i \in 1 .. Len(s) + 1 PROVE q[i] = r[i]
  <2>1. q[i] = Append(s, d)[i].quads
    BY <1>2, <1>3
  <2>2. CASE i <= Len(s)
    <3>1. Append(s, d)[i] = s[i] /\ i \in 1 .. Len(s)
      BY <1>3, <2>2
    <3>2. r[i] = Quads(s)[i] /\ Quads(s)[i] = s[i].quads
      BY <1>2, <1>3, <1>4, <3>1
    <3> QED BY <2>1, <3>1, <3>2
  <2>3. CASE ~ (i <= Len(s))
    <3>1. Append(s, d)[i] = d /\ i = Len(s) + 1
      BY <1>3, <2>3
    <3>2. r[Len(s) + 1] = d.quads
      BY <1>2, <1>3, <1>4
    <3> QED BY <2>1, <3>1, <3>2
  <2> QED BY <2>2, <2>3
<1> HIDE DEF q, r
<1>8. q = r
  BY <1>3, <1>5, <1>6, <1>7
<1> QED BY <1>2, <1>8 DEF q, r

LEMMA PaintedAppend ==
    ASSUME NEW s \in Seq(Piece), NEW d \in Piece
    PROVE  /\ Painted(s) \in Seq(Codepoints)
           /\ Painted(Append(s, d)) = Painted(s) \o d.quads
<1>1. Quads(s) \in Seq(Seq(Codepoints)) /\ Quads(Append(s, d)) = Append(Quads(s), d.quads)
  BY QuadsAppend
<1>2. d.quads \in Seq(Codepoints)
  BY DEF Piece
<1> QED BY <1>1, <1>2, FlattenIsSeq, FlattenAppend DEF Painted

LEMMA NothingPainted == Painted(<<>>) = <<>>
<1>1. Quads(<<>>) = <<>>
  BY DEF Quads
<1> QED BY <1>1, FlattenNothing DEF Painted

LEMMA PaintedIsSeq ==
    ASSUME NEW s \in Seq(Piece)
    PROVE  Painted(s) \in Seq(Codepoints)
<1>1. CASE s = <<>>
  <2>1. <<>> \in Seq(Codepoints)
    OBVIOUS
  <2> QED BY <1>1, <2>1, NothingPainted
<1>2. CASE s # <<>>
  <2>1. s[1] \in Piece
    BY <1>2
  <2> QED BY <2>1, PaintedAppend
<1> QED BY <1>1, <1>2

LEMMA EntitiesAppend ==
    ASSUME NEW s \in Seq(Piece), NEW d \in Piece, NEW n \in Nat, NEW m \in Nat,
           EntitiesFirst(s, n),
           (d.entity = 0 /\ m = n) \/ (Len(s) = n /\ d.entity = n + 1 /\ m = n + 1)
    PROVE  EntitiesFirst(Append(s, d), m)
<1>1. /\ Len(Append(s, d)) = Len(s) + 1 /\ Len(s) \in Nat
      /\ \A i \in 1 .. Len(s) + 1 : Append(s, d)[i] = IF i <= Len(s) THEN s[i] ELSE d
  OBVIOUS
<1>2. n <= Len(s) /\ \A i \in 1 .. Len(s) : s[i].entity = IF i <= n THEN i ELSE 0
  BY DEF EntitiesFirst
<1>3. m <= Len(s) + 1
  BY <1>1, <1>2
<1>4. ASSUME NEW i \in 1 .. Len(s) + 1
      PROVE  Append(s, d)[i].entity = IF i <= m THEN i ELSE 0
  <2>1. CASE i <= Len(s)
    <3>1. Append(s, d)[i] = s[i] /\ i \in 1 .. Len(s)
      BY <1>1, <2>1
    <3>2. s[i].entity = IF i <= n THEN i ELSE 0
      BY <1>2, <3>1
    <3> QED BY <1>1, <2>1, <3>1, <3>2
  <2>2. CASE ~ (i <= Len(s))
    <3>1. Append(s, d)[i] = d /\ i = Len(s) + 1
      BY <1>1, <2>2
    <3> QED BY <1>1, <1>2, <3>1
  <2> QED BY <2>1, <2>2
<1> QED BY <1>1, <1>3, <1>4 DEF EntitiesFirst

(* Flush: the quads pass from those that wait to those that are shown.     *)
LEMMA FlushPaints ==
    ASSUME ShownInv, BatchInv, NEW context \in Context, NEW n \in Nat, EntitiesFirst(shown, n)
    PROVE  /\ Flush(context).batch = <<>>
           /\ Flush(context).shown \in Seq(Piece)
           /\ EntitiesFirst(Flush(context).shown, n)
           /\ Painted(Flush(context).shown) = Painted(shown) \o batch
<1>0. shown \in Seq(Piece) /\ batch \in Seq(Codepoints)
  BY DEF ShownInv, BatchInv
<1>1. CASE batch = <<>>
  <2>1. Flush(context) = [gl |-> context, shown |-> shown, batch |-> batch]
    BY <1>1 DEF Flush
  <2>2. Painted(shown) \o batch = Painted(shown)
    BY <1>0, <1>1, PaintedIsSeq, ConcatEmptySeq
  <2> QED BY <1>0, <1>1, <2>1, <2>2
<1>2. CASE batch # <<>>
  <2> DEFINE bound == [context EXCEPT !.texture = Atlas(currentAtlas), !.vao = "Text"]
             d     == [gl |-> bound, entity |-> 0, quads |-> batch]
  <2>1. Flush(context) = [gl |-> bound, shown |-> Append(shown, d), batch |-> <<>>]
    BY <1>2 DEF Flush, Drawn
  <2>2. bound \in Context
    <3>1. Atlas(currentAtlas) \in Bindings
      BY DEF Bindings, BatchInv
    <3> QED BY <3>1 DEF Context
  <2> HIDE DEF bound
  <2>3. d \in Piece /\ d.entity = 0 /\ d.quads = batch
    BY <1>0, <2>2 DEF Piece
  <2> HIDE DEF d
  <2>4. /\ Flush(context).batch = <<>>
        /\ Flush(context).shown = Append(shown, d)
    BY <2>1
  <2>5. Append(shown, d) \in Seq(Piece) /\ EntitiesFirst(Append(shown, d), n)
    BY <1>0, <2>3, EntitiesAppend
  <2>6. Painted(Append(shown, d)) = Painted(shown) \o batch
    BY <1>0, <2>3, PaintedAppend
  <2> QED BY <2>4, <2>5, <2>6
<1> QED BY <1>1, <1>2

-----------------------------------------------------------------------------
(* How far the texts are read.                                             *)
LEMMA TextsTyped ==
    ASSUME WorldInv
    PROVE  /\ world.texts \in Seq(Seq(Codepoints)) /\ Len(world.texts) \in Nat
           /\ world.entities \in Seq(Drawable) /\ Len(world.entities) \in Nat
           /\ at[1] \in Nat \ {0} /\ at[2] \in Nat \ {0}
           /\ at[1] <= Len(world.texts) =>
                 world.texts[at[1]] \in Seq(Codepoints) /\ Len(world.texts[at[1]]) \in Nat
<1>1. world.texts \in Seq(Seq(Codepoints)) /\ world.entities \in Seq(Drawable)
  BY WorldsAssumption DEF WorldInv
<1>2. at[1] \in Nat \ {0} /\ at[2] \in Nat \ {0}
  BY DEF WorldInv, Position
<1>3. at[1] <= Len(world.texts) => world.texts[at[1]] \in Seq(Codepoints)
  BY <1>1, <1>2
<1> QED BY <1>1, <1>2, <1>3

(* The texts before the one that comes next.                               *)
LEMMA BeforeTyped ==
    ASSUME WorldInv, at[1] <= Len(world.texts) + 1
    PROVE  /\ SubSeq(world.texts, 1, at[1] - 1) \in Seq(Seq(Codepoints))
           /\ FlattenSeq(SubSeq(world.texts, 1, at[1] - 1)) \in Seq(Codepoints)
<1>1. SubSeq(world.texts, 1, at[1] - 1) \in Seq(Seq(Codepoints))
  BY TextsTyped
<1> QED BY <1>1, FlattenIsSeq

LEMMA ReadAtFirst ==
    ASSUME WorldInv, world' = world, at' = <<1, 1>>
    PROVE  Read' = <<>>
<1>1. at'[1] = 1 /\ at'[2] = 1 /\ at'[1] - 1 = 0 /\ at'[2] - 1 = 0
  OBVIOUS
<1>2. SubSeq(world.texts, 1, 0) = <<>>
  BY TextsTyped
<1>3. ASSUME 1 <= Len(world.texts) PROVE SubSeq(world.texts[1], 1, 0) = <<>>
  <2>1. world.texts[1] \in Seq(Codepoints)
    BY <1>3, TextsTyped
  <2> QED BY <2>1
<1>4. Begun' = <<>>
  BY <1>1, <1>3 DEF Begun
<1>5. SubSeq(world'.texts, 1, at'[1] - 1) = <<>>
  BY <1>1, <1>2
<1>6. <<>> \in Seq(Codepoints)
  OBVIOUS
<1> QED BY <1>4, <1>5, <1>6, FlattenNothing, ConcatEmptySeq DEF Read

(* A character further.                                                    *)
LEMMA ReadChar ==
    ASSUME WorldInv, at[1] <= Len(world.texts), at[2] <= Len(world.texts[at[1]]),
           world' = world, at' = <<at[1], at[2] + 1>>
    PROVE  Read' = Append(Read, world.texts[at[1]][at[2]])
<1> DEFINE text == world.texts[at[1]]
           before == FlattenSeq(SubSeq(world.texts, 1, at[1] - 1))
           begun == SubSeq(text, 1, at[2] - 1)
           c == text[at[2]]
<1>1. text \in Seq(Codepoints) /\ Len(text) \in Nat /\ at[2] \in 1 .. Len(text)
  BY TextsTyped
<1>2. before \in Seq(Codepoints)
  BY TextsTyped, BeforeTyped
<1>3. Read = before \o begun
  BY DEF Read, Begun
<1>4. Read' = before \o SubSeq(text, 1, at[2])
  <2>1. at'[1] = at[1] /\ at'[2] - 1 = at[2]
    BY TextsTyped
  <2>2. Begun' = SubSeq(text, 1, at[2])
    <3>1. Begun' = SubSeq(text, 1, at'[2] - 1)
      BY <2>1 DEF Begun
    <3> QED BY <2>1, <3>1
  <2> QED BY <2>1, <2>2 DEF Read
<1> HIDE DEF before, text
<1>5. SubSeq(text, 1, at[2]) = Append(begun, c)
  BY <1>1, Longer
<1>6. begun \in Seq(Codepoints) /\ c \in Codepoints
  BY <1>1
<1> HIDE DEF begun, c
<1>7. before \o Append(begun, c) = Append(before \o begun, c)
  BY <1>2, <1>6, ConcatAppend
<1> QED BY <1>3, <1>4, <1>5, <1>7 DEF c, text

(* A text further.                                                         *)
LEMMA ReadText ==
    ASSUME WorldInv, at[1] <= Len(world.texts), at[2] = Len(world.texts[at[1]]) + 1,
           world' = world, at' = <<at[1] + 1, 1>>
    PROVE  Read' = Read
<1> DEFINE text == world.texts[at[1]]
           texts == SubSeq(world.texts, 1, at[1] - 1)
<1>1. text \in Seq(Codepoints) /\ texts \in Seq(Seq(Codepoints)) /\ Len(text) \in Nat
  BY TextsTyped, BeforeTyped
<1>2. Read = FlattenSeq(texts) \o text
  <2>1. SubSeq(text, 1, Len(text)) = text
    BY <1>1
  <2>2. Begun = text
    <3>1. at[2] - 1 = Len(text)
      BY <1>1
    <3> QED BY <2>1, <3>1 DEF Begun
  <2> QED BY <2>2 DEF Read
<1>3. Read' = FlattenSeq(SubSeq(world.texts, 1, at[1])) \o <<>>
  <2>1. at'[1] = at[1] + 1 /\ at'[2] = 1 /\ at'[1] - 1 = at[1]
    BY TextsTyped
  <2>2. Begun' = <<>>
    <3>1. CASE at[1] + 1 <= Len(world.texts)
      <4>1. world.texts[at[1] + 1] \in Seq(Codepoints)
        BY <3>1, TextsTyped
      <4>2. SubSeq(world.texts[at[1] + 1], 1, 1 - 1) = <<>>
        BY <4>1
      <4> QED BY <2>1, <4>2 DEF Begun
    <3>2. CASE ~ (at[1] + 1 <= Len(world.texts))
      BY <2>1, <3>2 DEF Begun
    <3> QED BY <3>1, <3>2
  <2>3. SubSeq(world'.texts, 1, at'[1] - 1) = SubSeq(world.texts, 1, at[1])
    BY <2>1
  <2> QED BY <2>2, <2>3 DEF Read
<1>4. SubSeq(world.texts, 1, at[1]) = Append(texts, text)
  <2>1. at[1] \in 1 .. Len(world.texts) /\ world.texts \in Seq(Seq(Codepoints))
    BY TextsTyped
  <2> QED BY <2>1, Longer
<1> HIDE DEF text, texts
<1>5. FlattenSeq(Append(texts, text)) = FlattenSeq(texts) \o text
  BY <1>1, FlattenAppend
<1>6. FlattenSeq(texts) \o text \in Seq(Codepoints)
  BY <1>1, FlattenIsSeq, ConcatProperties
<1> QED BY <1>2, <1>3, <1>4, <1>5, <1>6, ConcatEmptySeq

LEMMA ReadAtLast ==
    ASSUME WorldInv, at[1] = Len(world.texts) + 1
    PROVE  Read = FlattenSeq(world.texts)
<1>1. SubSeq(world.texts, 1, at[1] - 1) = world.texts
  <2>1. at[1] - 1 = Len(world.texts) /\ world.texts \in Seq(Seq(Codepoints))
    BY TextsTyped
  <2> QED BY <2>1
<1>2. Begun = <<>>
  BY TextsTyped DEF Begun
<1>3. FlattenSeq(world.texts) \in Seq(Codepoints)
  BY TextsTyped, FlattenIsSeq
<1> QED BY <1>1, <1>2, <1>3, ConcatEmptySeq DEF Read

-----------------------------------------------------------------------------
(* The frame, step by step.                                                *)
LEMMA FrameStays ==
    ASSUME FrameInv, BuildMesh \/ EndConstruction \/ UNCHANGED vars
    PROVE  FrameInv'
<1>1. /\ UNCHANGED <<world, curCam, at, shown, frames, batch>>
      /\ phase' = phase \/ (phase = "Build" /\ phase' = "Frame")
  <2>1. CASE EndConstruction
    BY <2>1 DEF EndConstruction, textVars
  <2>2. CASE BuildMesh \/ UNCHANGED vars
    <3>1. UNCHANGED renderVars
      BY <2>2 DEF BuildMesh, vars
    <3> QED BY <3>1 DEF renderVars, textVars
  <2> QED BY <2>1, <2>2
<1>2. CASE phase' = phase
  <2>1. /\ EntitiesInv' = EntitiesInv /\ TextsInv' = TextsInv
        /\ Complete' = Complete /\ HasCamera' = HasCamera
    BY <1>1 DEF EntitiesInv, TextsInv, Complete, HasCamera, Camera, Read, Begun
  <2> QED BY <1>1, <1>2, <2>1 DEF FrameInv
<1>3. CASE phase = "Build" /\ phase' = "Frame"
  BY <1>1, <1>3 DEF FrameInv
<1> QED BY <1>1, <1>2, <1>3

LEMMA FrameBegins ==
    ASSUME IInv, FrameInv, ChangeState \/ BeginWithoutCamera \/ BeginFrame
    PROVE  FrameInv'
<1>1. shown' = <<>> /\ batch' = batch /\ batch = <<>> /\ phase = "Frame"
  BY DEF ChangeState, BeginWithoutCamera, BeginFrame, FrameInv, textVars
<1>2. CASE ChangeState
  <2>1. phase' = "Frame" /\ ~ frames'
    BY <1>2 DEF ChangeState
  <2> QED BY <1>1, <2>1 DEF FrameInv
<1>3. CASE BeginWithoutCamera
  <2>1. phase' = "Frame" /\ ~ HasCamera'
    BY <1>3 DEF BeginWithoutCamera, HasCamera, Camera
  <2> QED BY <1>1, <2>1 DEF FrameInv
<1>4. CASE BeginFrame
  <2>1. phase' = "Entities" /\ at' = <<1, 1>> /\ world' = world
    BY <1>4 DEF BeginFrame
  <2>2. at'[1] = 1 /\ Len(shown') = 0
    BY <1>1, <2>1
  <2>3. Painted(shown') = <<>>
    BY <1>1, NothingPainted
  <2>4. EntitiesFirst(shown', 0)
    BY <2>2 DEF EntitiesFirst
  <2>5. EntitiesInv'
    <3>1. 1 <= Len(world.entities) + 1 /\ at'[1] - 1 = 0
      BY <2>2, TextsTyped DEF IInv
    <3> QED BY <2>1, <2>2, <2>3, <2>4, <3>1 DEF EntitiesInv
  <2> QED BY <1>1, <2>1, <2>5 DEF FrameInv
<1> QED BY <1>2, <1>3, <1>4

LEMMA EntityShown ==
    ASSUME IInv, FrameInv, DrawEntity
    PROVE  FrameInv'
<1> DEFINE d == Drawn(gl', at[1], <<>>)
<1>1. /\ phase = "Entities" /\ phase' = "Entities" /\ at[1] <= Len(world.entities)
      /\ shown' = Append(shown, d) /\ at' = <<at[1] + 1, 1>>
      /\ world' = world /\ batch' = batch
  BY DEF DrawEntity, textVars
<1>2. gl' \in Context
  BY DrawEntityKeeps DEF Rest, BoundInv
<1>3. at[1] \in Nat \ {0} /\ Len(world.entities) \in Nat /\ shown \in Seq(Piece)
  BY TextsTyped DEF IInv, ShownInv
<1>4. d \in Piece /\ d.entity = at[1] /\ d.quads = <<>>
  <2>1. d = [gl |-> gl', entity |-> at[1], quads |-> <<>>]
    BY DEF Drawn
  <2>2. <<>> \in Seq(Codepoints)
    OBVIOUS
  <2> HIDE DEF d
  <2> QED BY <1>2, <1>3, <2>1, <2>2 DEF Piece
<1> HIDE DEF d
<1>5. EntitiesInv /\ batch = <<>>
  BY <1>1 DEF FrameInv
<1>6. EntitiesFirst(shown', at[1])
  <2>1. /\ at[1] - 1 \in Nat /\ EntitiesFirst(shown, at[1] - 1) /\ Len(shown) = at[1] - 1
        /\ at[1] = at[1] - 1 + 1
    BY <1>3, <1>5 DEF EntitiesInv
  <2> QED BY <1>1, <1>3, <1>4, <2>1, EntitiesAppend
<1>7. Painted(shown') = <<>>
  <2>1. Painted(shown') = <<>> \o <<>>
    BY <1>1, <1>3, <1>4, <1>5, PaintedAppend DEF EntitiesInv
  <2> QED BY <2>1
<1>8. at'[1] = at[1] + 1 /\ at'[1] - 1 = at[1]
  BY <1>1, <1>3
<1>9. Len(shown') = at[1]
  BY <1>1, <1>3, <1>5 DEF EntitiesInv
<1>10. EntitiesInv'
  BY <1>1, <1>3, <1>6, <1>7, <1>8, <1>9 DEF EntitiesInv
<1> QED BY <1>1, <1>5, <1>10 DEF FrameInv

LEMMA TextsBegin ==
    ASSUME IInv, FrameInv, BeginTexts
    PROVE  FrameInv'
<1>1. /\ phase = "Entities" /\ phase' = "Texts" /\ at[1] > Len(world.entities)
      /\ at' = <<1, 1>> /\ shown' = shown /\ world' = world /\ batch' = batch
  BY DEF BeginTexts, textVars
<1>2. EntitiesInv /\ batch = <<>>
  BY <1>1 DEF FrameInv
<1>3. at[1] \in Nat \ {0} /\ Len(world.entities) \in Nat /\ Len(world.texts) \in Nat
  BY TextsTyped DEF IInv
<1>4. EntitiesFirst(shown, Len(world.entities))
  <2>1. at[1] - 1 = Len(world.entities)
    BY <1>1, <1>2, <1>3 DEF EntitiesInv
  <2> QED BY <1>2, <2>1 DEF EntitiesInv
<1>5. Read' = <<>>
  <2>1. WorldInv
    BY DEF IInv
  <2> QED BY <1>1, <2>1, ReadAtFirst
<1>6. Painted(shown') \o batch' = <<>>
  <2>1. Painted(shown') = <<>> /\ batch' = <<>>
    BY <1>1, <1>2 DEF EntitiesInv
  <2> QED BY <2>1
<1>7. at'[1] = 1 /\ at'[2] = 1
  BY <1>1
<1>8. at'[1] <= Len(world.texts) => at'[2] <= Len(world.texts[at'[1]]) + 1
  <2>1. ASSUME 1 <= Len(world.texts) PROVE 1 <= Len(world.texts[1]) + 1
    BY <2>1, TextsTyped DEF IInv
  <2> QED BY <1>7, <2>1
<1>9. TextsInv'
  BY <1>1, <1>3, <1>4, <1>5, <1>6, <1>7, <1>8 DEF TextsInv
<1> QED BY <1>1, <1>9 DEF FrameInv

(* The last Flush: nothing waits any more, and all texts are read.         *)
LEMMA TextsEnd ==
    ASSUME IInv, FrameInv, EndTexts
    PROVE  FrameInv'
<1>1. /\ phase = "Texts" /\ phase' = "Frame" /\ at[1] > Len(world.texts)
      /\ shown' = Flush(gl).shown /\ batch' = Flush(gl).batch /\ world' = world
  BY DEF EndTexts
<1>2. TextsInv
  BY <1>1 DEF FrameInv
<1>3. /\ at[1] \in Nat \ {0} /\ Len(world.entities) \in Nat /\ Len(world.texts) \in Nat
      /\ WorldInv /\ ShownInv /\ BatchInv /\ gl \in Context
  BY TextsTyped DEF IInv, BoundInv
<1>4. /\ batch' = <<>>
      /\ EntitiesFirst(shown', Len(world.entities))
      /\ Painted(shown') = Painted(shown) \o batch
  BY <1>1, <1>2, <1>3, FlushPaints DEF TextsInv
<1>5. Read = FlattenSeq(world.texts)
  <2>1. at[1] = Len(world.texts) + 1
    BY <1>1, <1>2, <1>3 DEF TextsInv
  <2> QED BY <1>3, <2>1, ReadAtLast
<1>6. Complete'
  BY <1>1, <1>2, <1>4, <1>5 DEF TextsInv, Complete
<1> QED BY <1>1, <1>4, <1>6 DEF FrameInv

(* DrawString: what is shown and what waits together grow by the next      *)
(* character, whether the quads before it are drawn now or not.            *)
LEMMA CharQueued ==
    ASSUME IInv, FrameInv, phase = "Texts", NEW c \in Codepoints, DrawChar(c), GlyphsInv'
    PROVE  /\ EntitiesFirst(shown', Len(world.entities))
           /\ Painted(shown') \o batch' = Append(Painted(shown) \o batch, c)
<1> DEFINE index   == glyphs'[c].index
           context == IF c \in DOMAIN glyphs THEN gl ELSE [gl EXCEPT !.texture = Atlas(index)]
           flushed == IF currentAtlas # -1 /\ currentAtlas # index
                      THEN Flush(context)
                      ELSE [gl |-> context, shown |-> shown, batch |-> batch]
<1>1. shown' = flushed.shown /\ batch' = Append(flushed.batch, c)
  BY DEF DrawChar, QueueChar
<1>2. c \in DOMAIN glyphs'
  BY DEF DrawChar, GetGlyph, LoadGlyph, atlasVars
<1>3. index \in Nat
  BY <1>2 DEF GlyphsInv, AtlasTypeOK
<1> HIDE DEF index
<1>4. context \in Context
  <2>1. gl \in Context
    BY DEF IInv, BoundInv
  <2>2. Atlas(index) \in Bindings
    BY <1>3 DEF Bindings
  <2> QED BY <2>1, <2>2 DEF Context
<1> HIDE DEF context
<1>5. /\ EntitiesFirst(shown, Len(world.entities)) /\ Len(world.entities) \in Nat
      /\ ShownInv /\ BatchInv /\ shown \in Seq(Piece) /\ batch \in Seq(Codepoints)
  BY TextsTyped DEF FrameInv, TextsInv, IInv, ShownInv, BatchInv
<1>6. /\ flushed.shown \in Seq(Piece) /\ flushed.batch \in Seq(Codepoints)
      /\ EntitiesFirst(flushed.shown, Len(world.entities))
      /\ Painted(flushed.shown) \o flushed.batch = Painted(shown) \o batch
  <2>1. CASE currentAtlas # -1 /\ currentAtlas # index
    <3>1. flushed = Flush(context)
      BY <2>1
    <3>2. /\ Flush(context).batch = <<>>
          /\ Flush(context).shown \in Seq(Piece)
          /\ EntitiesFirst(Flush(context).shown, Len(world.entities))
          /\ Painted(Flush(context).shown) = Painted(shown) \o batch
      BY <1>4, <1>5, FlushPaints
    <3>3. Painted(Flush(context).shown) \o <<>> = Painted(Flush(context).shown)
      BY <3>2, PaintedIsSeq, ConcatEmptySeq
    <3>4. <<>> \in Seq(Codepoints)
      OBVIOUS
    <3> HIDE DEF flushed
    <3> QED BY <3>1, <3>2, <3>3, <3>4
  <2>2. CASE ~ (currentAtlas # -1 /\ currentAtlas # index)
    <3>1. flushed = [gl |-> context, shown |-> shown, batch |-> batch]
      BY <2>2
    <3>2. flushed.shown = shown /\ flushed.batch = batch
      BY <3>1
    <3> HIDE DEF flushed
    <3> QED BY <1>5, <3>2
  <2> QED BY <2>1, <2>2
<1> DEFINE waiting == flushed.batch
           painted == Painted(flushed.shown)
<1>7. painted \o Append(waiting, c) = Append(painted \o waiting, c)
  <2>1. painted \in Seq(Codepoints) /\ waiting \in Seq(Codepoints)
    BY <1>6, PaintedIsSeq
  <2> HIDE DEF painted, waiting
  <2> QED BY <2>1, ConcatAppend
<1> HIDE DEF flushed
<1> QED BY <1>1, <1>6, <1>7

LEMMA TextRead ==
    ASSUME IInv, FrameInv, DrawString, GlyphsInv'
    PROVE  FrameInv'
<1> DEFINE text == world.texts[at[1]]
<1>1. /\ phase = "Texts" /\ phase' = "Texts" /\ at[1] <= Len(world.texts)
      /\ world' = world
  BY DEF DrawString
<1>2. TextsInv
  BY <1>1 DEF FrameInv
<1>3. /\ WorldInv /\ Len(world.entities) \in Nat /\ Len(world.texts) \in Nat
      /\ at[1] \in Nat \ {0} /\ at[2] \in Nat \ {0}
      /\ text \in Seq(Codepoints) /\ Len(text) \in Nat
  BY <1>1, TextsTyped DEF IInv
<1>4. at[2] <= Len(text) + 1
  BY <1>1, <1>2 DEF TextsInv
<1>5. CASE at[2] <= Len(text)
  <2>1. DrawChar(text[at[2]]) /\ at' = <<at[1], at[2] + 1>>
    BY <1>5 DEF DrawString
  <2>2. text[at[2]] \in Codepoints
    BY <1>3, <1>5
  <2>3. /\ EntitiesFirst(shown', Len(world.entities))
        /\ Painted(shown') \o batch' = Append(Painted(shown) \o batch, text[at[2]])
    BY <1>1, <2>1, <2>2, CharQueued
  <2>4. Read' = Append(Read, text[at[2]])
    BY <1>1, <1>3, <1>5, <2>1, ReadChar
  <2>5. Painted(shown') \o batch' = Read'
    BY <1>2, <2>3, <2>4 DEF TextsInv
  <2>6. at'[1] = at[1] /\ at'[2] <= Len(text) + 1
    BY <1>3, <1>5, <2>1
  <2>7. TextsInv'
    BY <1>1, <1>3, <2>3, <2>5, <2>6 DEF TextsInv
  <2> QED BY <1>1, <2>7 DEF FrameInv
<1>6. CASE ~ (at[2] <= Len(text))
  <2>1. at' = <<at[1] + 1, 1>> /\ shown' = shown /\ batch' = batch
    BY <1>6 DEF DrawString, textVars
  <2>2. at[2] = Len(text) + 1
    BY <1>3, <1>4, <1>6
  <2>3. Read' = Read
    BY <1>1, <1>3, <2>1, <2>2, ReadText
  <2>4. at'[1] = at[1] + 1 /\ at'[2] = 1
    BY <2>1
  <2>5. at'[1] <= Len(world.texts) => at'[2] <= Len(world.texts[at'[1]]) + 1
    <3>1. ASSUME at[1] + 1 <= Len(world.texts)
          PROVE  Len(world.texts[at[1] + 1]) \in Nat
      <4>1. world.texts[at[1] + 1] \in Seq(Codepoints)
        BY <1>3, <3>1, TextsTyped
      <4> QED BY <4>1
    <3> QED BY <2>4, <3>1
  <2>6. TextsInv'
    <3>1. at'[1] <= Len(world.texts) + 1
      BY <1>1, <1>3, <2>4
    <3>2. EntitiesFirst(shown', Len(world.entities)) /\ Painted(shown') \o batch' = Read'
      BY <1>2, <2>1, <2>3 DEF TextsInv
    <3> QED BY <1>1, <2>5, <3>1, <3>2 DEF TextsInv
  <2> QED BY <1>1, <2>6 DEF FrameInv
<1> QED BY <1>5, <1>6

LEMMA StepKeepsFrame ==
    ASSUME IInv, FrameInv, [Next]_vars
    PROVE  FrameInv'
<1>1. GlyphsInv'
  BY StepKeepsGlyphsInv
<1>2. CASE BuildMesh \/ EndConstruction \/ UNCHANGED vars
  BY <1>2, FrameStays
<1>3. CASE ChangeState \/ BeginWithoutCamera \/ BeginFrame
  BY <1>3, FrameBegins
<1>4. CASE DrawEntity
  BY <1>4, EntityShown
<1>5. CASE BeginTexts
  BY <1>5, TextsBegin
<1>6. CASE DrawString
  BY <1>1, <1>6, TextRead
<1>7. CASE EndTexts
  BY <1>7, TextsEnd
<1> QED BY <1>2, <1>3, <1>4, <1>5, <1>6, <1>7 DEF Next

LEMMA CompleteIsComplete ==
    ASSUME IInv, Complete
    PROVE  FrameIsComplete
<1> DEFINE n == Len(world.entities)
           entity == [i \in 1 .. Len(shown) |-> shown[i].entity]
<1>1. n \in Nat /\ Len(shown) \in Nat
  BY TextsTyped DEF IInv, ShownInv
<1>2. n <= Len(shown) /\ \A i \in 1 .. Len(shown) : entity[i] = IF i <= n THEN i ELSE 0
  BY DEF Complete, EntitiesFirst
<1> HIDE DEF entity
<1>3. \A e \in 1 .. n : \E i \in 1 .. Len(shown) : entity[i] = e
  <2> SUFFICES ASSUME NEW e \in 1 .. n PROVE \E i \in 1 .. Len(shown) : entity[i] = e
    OBVIOUS
  <2>1. e \in 1 .. Len(shown) /\ entity[e] = e
    BY <1>1, <1>2
  <2> QED BY <2>1
<1>4. \A i, j \in 1 .. Len(shown) :
         (i < j /\ entity[j] # 0) => (entity[i] # 0 /\ entity[i] < entity[j])
  <2> SUFFICES ASSUME NEW i \in 1 .. Len(shown), NEW j \in 1 .. Len(shown),
                      i < j, entity[j] # 0
               PROVE  entity[i] # 0 /\ entity[i] < entity[j]
    OBVIOUS
  <2>1. j <= n /\ entity[j] = j
    BY <1>2
  <2>2. i <= n /\ entity[i] = i /\ i # 0
    BY <1>1, <1>2, <2>1
  <2> QED BY <2>1, <2>2
<1>5. FlattenSeq([i \in 1 .. Len(shown) |-> shown[i].quads]) = FlattenSeq(world.texts)
  BY DEF Complete, Painted, Quads
<1> QED BY <1>3, <1>4, <1>5 DEF FrameIsComplete, entity

(* A frame shows every entity once and every character of its texts once,  *)
(* in order (RenderSystem::Update, TextRenderer::DrawString and Flush),    *)
(* for all worlds and fonts.                                               *)
THEOREM FramesAreComplete == Spec => []FrameIsComplete
<1>1. Init => FrameInv
  BY DEF Init, FrameInv
<1>2. IInv /\ FrameInv /\ [Next]_vars => FrameInv'
  BY StepKeepsFrame
<1>3. IInv /\ FrameInv => FrameIsComplete
  <2> SUFFICES ASSUME IInv, FrameInv PROVE FrameIsComplete
    OBVIOUS
  <2>1. CASE phase = "Frame" /\ frames /\ HasCamera
    BY <2>1, CompleteIsComplete DEF FrameInv
  <2>2. CASE ~ (phase = "Frame" /\ frames /\ HasCamera)
    BY <2>2 DEF FrameIsComplete
  <2> QED BY <2>1, <2>2
<1> QED BY <1>1, <1>2, <1>3, InvariantHolds, PTL DEF Spec
=============================================================================
