SPECIFICATION Spec
CONSTANTS
    Null = Null
    Worlds <- MCWorlds
    Codepoints = {"a", "b", "c", "d"}
    BitmapSize <- MCSize
    AtlasWidth = 5
    AtlasHeight = 5
INVARIANT VerticesAreOfFaces
