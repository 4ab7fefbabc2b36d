--------------------------------- MODULE Mesh ---------------------------------
(***************************************************************************)
(* The primitive meshes (src/engine/src/resource/render/Mesh.cpp): for     *)
(* each type, Mesh::Create gives the faces to FillMeshData one by one,     *)
(* which appends a face's vertices and the indices of its triangles, and   *)
(* SetMesh hands both buffers to the graphics card.                        *)
(*                                                                         *)
(* A point is a triple of integers: sines and cosines are tables with one  *)
(* digit, which is enough to tell which side of a triangle is outside.     *)
(* Texture coordinates are left out.  A normal is not normalised.          *)
(***************************************************************************)
EXTENDS Integers, Sequences

PrimitiveTypes == <<"PLAIN", "CUBE", "SPHERE", "CYLINDER">>

VARIABLES
    building,  \* index of the type that Create is at, past the last when done
    face,      \* index of its next face
    vertices, indices,  \* the two vectors
    meshes     \* what SetMesh has uploaded, by type

meshVars == <<building, face, vertices, indices, meshes>>

-----------------------------------------------------------------------------
(* Points                                                                  *)

Minus(p, q) == <<p[1] - q[1], p[2] - q[2], p[3] - q[3]>>

Cross(p, q) == <<p[2] * q[3] - p[3] * q[2], p[3] * q[1] - p[1] * q[3], p[1] * q[2] - p[2] * q[1]>>

Dot(p, q) == p[1] * q[1] + p[2] * q[2] + p[3] * q[3]

Normal(v0, v1, v2) == Cross(Minus(v1, v0), Minus(v2, v0))

(* The value-initialised vertex that resize puts into a vector.            *)
Blank == [position |-> <<0, 0, 0>>, normal |-> <<0, 0, 0>>]

-----------------------------------------------------------------------------
(* The faces of the types, in the order in which they are filled           *)

SphereSectors   == 8
SphereStacks    == 6
CylinderSectors == 10

(* Ten times the sine and cosine of the j-th of 8 or 10 sectors, and of    *)
(* the latitudes of the rows between the poles.                            *)
Sin8  == <<0, 7, 10, 7, 0, -7, -10, -7>>
Cos8  == <<10, 7, 0, -7, -10, -7, 0, 7>>
Sin10 == <<0, 6, 10, 10, 6, 0, -6, -10, -10, -6>>
Cos10 == <<10, 8, 3, -3, -8, -10, -8, -3, 3, 8>>
SinLat == <<9, 5, 0, -5, -9>>
CosLat == <<5, 9, 10, 9, 5>>

(* Every loop over a ring ends with the face from its last point to its    *)
(* first.                                                                  *)
(* Mutant: it ends at its last point.                                      *)
AfterUnwrapped(j, sectors) == IF j = sectors THEN j ELSE j + 1

After(j, sectors) == IF j = sectors THEN 1 ELSE j + 1

Plain == << << <<-5, 5, 0>>, <<-5, -5, 0>>, <<5, -5, 0>>, <<5, 5, 0>> >> >>

Cube ==
    LET v0 == <<-5, 5, -5>>   v4 == <<-5, -5, -5>>
        v1 == <<-5, 5, 5>>    v5 == <<-5, -5, 5>>
        v2 == <<5, 5, 5>>     v6 == <<5, -5, 5>>
        v3 == <<5, 5, -5>>    v7 == <<5, -5, -5>>
    IN  << <<v0, v1, v2, v3>>, <<v1, v5, v6, v2>>, <<v2, v6, v7, v3>>,
           <<v3, v7, v4, v0>>, <<v0, v4, v5, v1>>, <<v5, v4, v7, v6>> >>

SpherePoint(i, j) == <<CosLat[i] * Sin8[j], 10 * SinLat[i], CosLat[i] * Cos8[j]>>

Sphere ==
    LET north == <<0, 100, 0>>
        south == <<0, -100, 0>>
        rows  == SphereStacks - 1
        next(j) == After(j, SphereSectors)
        \* row i to i + 1, all sectors, then the next row
        quad(i, j) == <<SpherePoint(i, j), SpherePoint(i + 1, j),
                        SpherePoint(i + 1, next(j)), SpherePoint(i, next(j))>>
    IN  [j \in 1 .. SphereSectors |-> <<north, SpherePoint(1, j), SpherePoint(1, next(j))>>]
        \o [k \in 1 .. (rows - 1) * SphereSectors |->
               quad(((k - 1) \div SphereSectors) + 1, ((k - 1) % SphereSectors) + 1)]
        \o [j \in 1 .. SphereSectors |-> <<south, SpherePoint(rows, next(j)), SpherePoint(rows, j)>>]

CylinderPoint(y, j) == <<Cos10[j], y, - Sin10[j]>>

Cylinder ==
    LET next(j) == After(j, CylinderSectors)
        top(j)    == << <<0, 10, 0>>, CylinderPoint(10, j), CylinderPoint(10, next(j))>>
        bottom(j) == << <<0, -10, 0>>, CylinderPoint(-10, next(j)), CylinderPoint(-10, j)>>
    IN  [k \in 1 .. 2 * CylinderSectors |->
            IF k % 2 = 1 THEN top((k + 1) \div 2) ELSE bottom(k \div 2)]
        \o [j \in 1 .. CylinderSectors |->
               <<CylinderPoint(10, j), CylinderPoint(-10, j),
                 CylinderPoint(-10, next(j)), CylinderPoint(10, next(j))>>]

Faces(type) ==
    CASE type = "PLAIN"    -> Plain
      [] type = "CUBE"     -> Cube
      [] type = "SPHERE"   -> Sphere
      [] type = "CYLINDER" -> Cylinder

(* Plain and Cube reserve room for their vertices; Sphere and Cylinder     *)
(* resize the vectors, which fills them with as many blank elements as the *)
(* faces are going to append.                                              *)
Resized(type) ==
    CASE type = "SPHERE" ->
            [vertices |-> 4 * SphereSectors * (SphereStacks - 2) + 3 * SphereSectors * 2,
             indices  |-> 6 * SphereSectors * (SphereStacks - 2) + 3 * SphereSectors * 2]
      [] type = "CYLINDER" ->
            [vertices |-> 4 * CylinderSectors + 3 * CylinderSectors * 2,
             indices  |-> 6 * CylinderSectors + 3 * CylinderSectors * 2]
      [] OTHER -> [vertices |-> 0, indices |-> 0]

-----------------------------------------------------------------------------
(* Building                                                                *)

Building == building <= Len(PrimitiveTypes)

Type == PrimitiveTypes[building]

MeshInit ==
    /\ building = 1
    /\ face = 1
    /\ vertices = <<>>
    /\ indices = <<>>
    /\ meshes = [t \in {} |-> {}]

(* Where a face's vertices go, all with the normal of its first three.     *)
Positions(points) ==
    [k \in 1 .. Len(points) |->
        [position |-> points[k], normal |-> Normal(points[1], points[2], points[3])]]

(* The two triangles of a quad, or the one of a triangle.                  *)
Triangles(points) == IF Len(points) = 4 THEN <<1, 3, 0, 1, 2, 3>> ELSE <<0, 1, 2>>

FillMeshData ==
    /\ Building
    /\ face <= Len(Faces(Type))
    /\ LET points == Faces(Type)[face]
           first  == IF face = 1
                     THEN [vertices |-> [k \in 1 .. Resized(Type).vertices |-> Blank],
                           indices  |-> [k \in 1 .. Resized(Type).indices |-> 0]]
                     ELSE [vertices |-> vertices, indices |-> indices]
           offset == Len(first.vertices)
       IN  /\ vertices' = first.vertices \o Positions(points)
           /\ indices' = first.indices \o
                 [k \in 1 .. Len(Triangles(points)) |-> offset + Triangles(points)[k]]
    /\ face' = face + 1
    /\ UNCHANGED <<building, meshes>>

SetMesh ==
    /\ Building
    /\ face > Len(Faces(Type))
    /\ meshes' = [t \in DOMAIN meshes \cup {Type} |->
                     IF t = Type THEN [vertices |-> vertices, indices |-> indices] ELSE meshes[t]]
    /\ building' = building + 1
    /\ face' = 1
    /\ vertices' = <<>>
    /\ indices' = <<>>

MeshNext == FillMeshData \/ SetMesh

-----------------------------------------------------------------------------
(* Properties                                                              *)

(* The corners of the triangles that glDrawElements makes of a mesh.       *)
DrawnTriangles(mesh) ==
    [k \in 1 .. Len(mesh.indices) \div 3 |->
        [c \in 1 .. 3 |-> mesh.vertices[mesh.indices[3 * (k - 1) + c] + 1]]]

Flat(t) == Normal(t[1].position, t[2].position, t[3].position) = <<0, 0, 0>>

Solids == {"CUBE", "SPHERE", "CYLINDER"}

(* The mesh that was finished last, while the next is not begun.           *)
Finished ==
    IF building > 1 /\ face = 1 THEN {PrimitiveTypes[building - 1]} ELSE {}

(* Every index of a mesh is that of a vertex of it.                        *)
IndicesAreVertices ==
    \A type \in Finished : \A k \in 1 .. Len(meshes[type].indices) :
        meshes[type].indices[k] \in 0 .. Len(meshes[type].vertices) - 1

(* A solid has no hole and no face twice: over all its triangles, each     *)
(* edge is walked once in each direction, the seams between the last and   *)
(* the first sector and between a row and a pole included.                 *)
Watertight ==
    \A type \in Finished \cap Solids :
        LET drawn == SelectSeq(DrawnTriangles(meshes[type]), LAMBDA t : ~ Flat(t))
            edges == {<<k, c>> : k \in 1 .. Len(drawn), c \in 1 .. 3}
            edge(e) == <<drawn[e[1]][e[2]].position, drawn[e[1]][(e[2] % 3) + 1].position>>
            walked == {edge(e) : e \in edges}
        IN  /\ IndicesAreVertices
            /\ \A w \in walked : <<w[2], w[1]>> \in walked
            /\ \A e, f \in edges : edge(e) = edge(f) => e = f

(* Seen from outside, every triangle of a solid runs counter-clockwise and *)
(* every normal points outwards: the face culling that RenderSystem turns  *)
(* on drops none of them, and the light falls on the right side.           *)
FacesOutward ==
    \A type \in Finished \cap Solids :
        LET drawn == DrawnTriangles(meshes[type])
        IN  \A k \in 1 .. Len(drawn) :
               LET t == drawn[k]
                   n == Normal(t[1].position, t[2].position, t[3].position)
               IN  ~ Flat(t) => /\ Dot(n, t[1].position) > 0
                                /\ \A c \in 1 .. 3 : Dot(t[c].normal, n) > 0

(* What a player sees of a solid is a closed surface, from every side.     *)
SolidsAreClosed == Watertight /\ FacesOutward

(* A mesh has the vertices of its faces and no others.                     *)
VerticesAreOfFaces ==
    \A type \in Finished : \A k \in 1 .. Len(meshes[type].vertices) :
        meshes[type].vertices[k] # Blank

=============================================================================
