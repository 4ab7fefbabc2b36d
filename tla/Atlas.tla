--------------------------------- MODULE Atlas ---------------------------------
(***************************************************************************)
(* The texture atlases of AtlasManager (src/engine/src/resource/           *)
(* AtlasManager.cpp and render/TextureAtlas.cpp) and the glyph cache of a  *)
(* Font, which asks for room when a character is used for the first time.  *)
(*                                                                         *)
(* An atlas is filled shelf by shelf: x is where the next bitmap goes on   *)
(* the current shelf, y the top of the shelf and row its height so far.    *)
(* Glyphs have a padding of one pixel to the right and below.  Pixels are  *)
(* left out: a glyph is the rectangle its bitmap is uploaded to.           *)
(***************************************************************************)
EXTENDS Integers, Sequences

CONSTANTS
    Codepoints,  \* the characters of the texts
    BitmapSize,  \* width and rows of a character's bitmap, in pixels
    AtlasWidth, AtlasHeight

(* Every glyph fits an empty atlas: they have 48 pixels and it has 2048.   *)
ASSUME GlyphsFit ==
    /\ AtlasWidth \in Nat /\ AtlasHeight \in Nat
    /\ BitmapSize \in [Codepoints -> [w : Nat, h : Nat]]
    /\ \A c \in Codepoints : /\ BitmapSize[c].w + 1 <= AtlasWidth
                             /\ BitmapSize[c].h + 1 <= AtlasHeight

VARIABLES
    atlases,  \* atlases of AtlasManager
    glyphs    \* glyphs of the font: the atlas and the place of each cached character

atlasVars == <<atlases, glyphs>>

-----------------------------------------------------------------------------
(* TextureAtlas::Allocate                                                  *)

MaxOf(a, b) == IF a < b THEN b ELSE a

EmptyAtlas == [x |-> 0, y |-> 0, row |-> 0]

(* The shelf on which a bitmap of this size is tried.                      *)
Shelf(atlas, size) ==
    IF atlas.x + size.w + 1 > AtlasWidth
    THEN [x |-> 0, y |-> atlas.y + atlas.row, row |-> 0]
    ELSE atlas

Fits(atlas, size) == Shelf(atlas, size).y + size.h + 1 <= AtlasHeight

(* Mutant: the height of a shelf is that of its last glyph.                *)
TakenLastHeight(shelf, size) ==
    [shelf EXCEPT !.x = @ + size.w + 1, !.row = size.h + 1]

Taken(shelf, size) ==
    [x |-> shelf.x + size.w + 1, y |-> shelf.y, row |-> MaxOf(shelf.row, size.h + 1)]

(* What Allocate leaves in the atlas: on failure, the new shelf.           *)
Allocate(atlas, size) ==
    LET shelf == Shelf(atlas, size)
    IN  IF Fits(atlas, size) THEN Taken(shelf, size) ELSE shelf

-----------------------------------------------------------------------------
(* AtlasManager::RequestAllocate: only the last atlas is tried, then a new *)
(* one is added.                                                           *)

Existing == IF atlases = <<>> THEN <<EmptyAtlas>> ELSE atlases

LastAtlas == Existing[Len(Existing)]

Place(index, shelf) == [index |-> index, x |-> shelf.x, y |-> shelf.y]

(* The AllocationResult.                                                   *)
Allocated(size) ==
    IF Fits(LastAtlas, size)
    THEN Place(Len(Existing) - 1, Shelf(LastAtlas, size))
    ELSE Place(Len(Existing), Shelf(EmptyAtlas, size))

AtlasesAfter(size) ==
    LET tried == [Existing EXCEPT ![Len(Existing)] = Allocate(LastAtlas, size)]
    IN  IF Fits(LastAtlas, size) THEN tried
        ELSE Append(tried, Allocate(EmptyAtlas, size))

(* Font::LoadGlyph: the character is cached with its place.                *)
LoadGlyph(c) ==
    /\ c \notin DOMAIN glyphs
    /\ glyphs' = [d \in DOMAIN glyphs \cup {c} |->
                     IF d = c THEN Allocated(BitmapSize[c]) ELSE glyphs[d]]
    /\ atlases' = AtlasesAfter(BitmapSize[c])

(* Font::GetGlyph                                                          *)
GetGlyph(c) ==
    \/ LoadGlyph(c)
    \/ c \in DOMAIN glyphs /\ UNCHANGED atlasVars

AtlasInit ==
    /\ atlases = <<>>
    /\ glyphs = [c \in {} |-> {}]

AtlasSpec == AtlasInit /\ [][\E c \in Codepoints : GetGlyph(c)]_atlasVars

-----------------------------------------------------------------------------
(* Properties                                                              *)

Right(c) == glyphs[c].x + BitmapSize[c].w + 1

Bottom(c) == glyphs[c].y + BitmapSize[c].h + 1

(* No upload paints over another glyph or its padding, and none goes past  *)
(* the edge of its atlas, in whatever order characters of whatever sizes   *)
(* are used first: Allocate's shelves and RequestAllocate's second try.    *)
Beside(c, d) ==
    \/ Right(c) <= glyphs[d].x \/ Right(d) <= glyphs[c].x
    \/ Bottom(c) <= glyphs[d].y \/ Bottom(d) <= glyphs[c].y

GlyphsApart ==
    \A c \in DOMAIN glyphs :
        /\ glyphs[c].index \in 0 .. Len(atlases) - 1
        /\ Right(c) <= AtlasWidth /\ Bottom(c) <= AtlasHeight
        /\ \A d \in DOMAIN glyphs \ {c} : glyphs[c].index = glyphs[d].index => Beside(c, d)

=============================================================================
