----------------------------- MODULE MeshTiling -----------------------------
(***************************************************************************)
(* How a mesh becomes a tree of tiles: GroupTiler of                       *)
(* tiletopia-core/src/mesh_tiler.rs.                                       *)
(*                                                                         *)
(* The triangles of each material are tiled on their own.  A part is a set *)
(* of triangles that travel together: a whole element at first, a piece of *)
(* one once it had to be cut; its bounds are those of its triangles.  Each *)
(* call of tile or tile_additive is a node of `todo`, and its recursive    *)
(* calls are the nodes it adds: sibling calls share nothing, so they are   *)
(* taken in any order.  Where the code sorts parts, ones that compare      *)
(* equal may come in any order.                                            *)
(*                                                                         *)
(* Lengths are whole numbers on two axes; a centre is kept doubled, and a  *)
(* geometric error as the square of the doubled half diagonal.             *)
(***************************************************************************)
EXTENDS Integers, Sequences, FiniteSets, FiniteSetsExt, Functions

CONSTANTS
    Triangles,
    Elements,
    Shapes,         \* of a triangle: records of lo, hi and at (its centroid)
    Meshes,         \* inputs: the shape and element of each triangle, and the
                    \* material group of each element
    Budget,         \* max_triangles_per_tile
    MaxDepth,       \* max_depth
    MaxGroups,      \* materials in a mesh
    PathWidth       \* values a path segment takes, 256 for a u8

Axes == {1, 2}

ASSUME FiniteTriangles == IsFiniteSet(Triangles)

\* Both come from MeshTilingConfig::default wherever the program tiles a mesh.
ASSUME ConfigAssumption == Budget \in Nat \ {0} /\ MaxDepth \in Nat

\* Group indices are cast to u8 unchecked: there may be more groups than segments.
ASSUME PathAssumption == MaxGroups \in Nat /\ PathWidth \in Nat \ {0}

Groups == 0 .. MaxGroups - 1

ASSUME MeshesAssumption ==
    Meshes \subseteq [shape : [Triangles -> Shapes],
                      element : [Triangles -> Elements],
                      material : [Elements -> Groups]]

\* A triangle's bounds are those of its corners, so none is inside out.
ASSUME ShapesAssumption ==
    \A s \in Shapes : \A a \in Axes :
        s.lo[a] \in Int /\ s.hi[a] \in Int /\ s.lo[a] <= s.hi[a]

VARIABLES
    shape,      \* the input: the shape of each triangle,
    element,    \* the element it belongs to,
    material,   \* and the material group of each element
    assetIds,   \* groups whose every element has an asset id
    todo,       \* calls of tile and tile_additive not yet run
    tiles       \* what was written

input == <<shape, element, material, assetIds>>
vars == <<input, todo, tiles>>

GroupOf(t) == material[element[t]]

UsedGroups == {GroupOf(t) : t \in Triangles}

-----------------------------------------------------------------------------
\* aabb_from_indices, and parts_bounds for the union of some parts.
BoxOf(S) == [lo |-> [a \in Axes |-> Min({shape[t].lo[a] : t \in S})],
             hi |-> [a \in Axes |-> Max({shape[t].hi[a] : t \in S})]]

Centre2(box, a) == box.lo[a] + box.hi[a]

Extent(box, a) == box.hi[a] - box.lo[a]

\* geometric_error_for, squared and doubled.
Error(box) == FoldFunction(+, 0, [a \in Axes |-> Extent(box, a) * Extent(box, a)])

PartError(p) == Error(BoxOf(p))

\* longest_axis: the first of the longest.
LongestAxis(box) ==
    Min({a \in Axes : \A b \in Axes : Extent(box, a) >= Extent(box, b)})

Inside(inner, outer) ==
    \A a \in Axes : outer.lo[a] <= inner.lo[a] /\ inner.hi[a] <= outer.hi[a]

\* total_triangles of parts that share none.
Count(parts) == Cardinality(UNION parts)

\* split_triangles: those whose centroid is short of the split.
NearTriangles(p, a, split2) == {t \in p : 2 * shape[t].at[a] < split2}

-----------------------------------------------------------------------------
CutsAtMiddle(p) ==
    LET box == BoxOf(p)
        a == LongestAxis(box)
    IN  {NearTriangles(p, a, Centre2(box, a))}

\* parts_within_budget cuts an oversized part at the middle of its box, or by
\* number when the cut would leave one side empty.
CutsOf(p) ==
    LET box == BoxOf(p)
        a == LongestAxis(box)
        near == NearTriangles(p, a, Centre2(box, a))
    IN  IF near \in {{}, p}
        THEN {half \in SUBSET p : Cardinality(half) = Cardinality(p) \div 2}
        ELSE {near}

\* split_parts: a part within the budget goes whole to the side of its centre,
\* an oversized one is cut.
NearOf(p, a, split2) ==
    IF Cardinality(p) > Budget THEN NearTriangles(p, a, split2)
    ELSE IF Centre2(BoxOf(p), a) < split2 THEN p
    ELSE {}

NearPartsKept(parts, a, split2) == {NearOf(p, a, split2) : p \in parts}
NearParts(parts, a, split2) == {NearOf(p, a, split2) : p \in parts} \ {{}}

FarUncut(parts, a, split2) == {p \in parts : NearOf(p, a, split2) = {}}
FarWhole(parts, a, split2) == {p \in parts : NearOf(p, a, split2) # p}
FarParts(parts, a, split2) == {p \ NearOf(p, a, split2) : p \in parts} \ {{}}

\* split_parts_by_triangle_count: by centre, until half of the triangles are
\* near; the last part is far unless it is the only one.
CountedNears(parts, a) ==
    {near \in SUBSET parts : \E last \in near :
        /\ \A p \in near : Centre2(BoxOf(p), a) <= Centre2(BoxOf(last), a)
        /\ \A p \in parts \ near : Centre2(BoxOf(last), a) <= Centre2(BoxOf(p), a)
        /\ near = {last} \/ Count(near \ {last}) < Count(parts) \div 2
        /\ near = parts => Cardinality(parts) = 1
        /\ \/ Count(near) >= Count(parts) \div 2
           \/ Cardinality(parts \ near) <= 1}

\* split_parts on the longest axis of the parts' bounds, as <<near, far>>.
SplitsOf(parts) ==
    LET box == BoxOf(UNION parts)
        a == LongestAxis(box)
        near == NearParts(parts, a, Centre2(box, a))
        far == FarParts(parts, a, Centre2(box, a))
    IN  IF near = {} \/ far = {}
        THEN {<<counted, parts \ counted>> : counted \in CountedNears(parts, a)}
        ELSE {<<near, far>>}

\* The parts that come first when sorted by error, largest first.
LargestFirst(kept, parts) ==
    \A k \in kept, r \in parts \ kept : PartError(k) >= PartError(r)

\* tile_additive's content: as many of the largest as fit the budget.
AdditiveContents(parts) ==
    {content \in SUBSET parts :
        /\ LargestFirst(content, parts)
        /\ Count(content) <= Budget
        /\ \E first \in parts \ content :
              /\ \A r \in parts \ content : PartError(first) >= PartError(r)
              /\ Count(content \cup {first}) > Budget}

\* parent_content: simplified parts, largest first, until they fill the budget.
\* How far simplify_mesh gets with a part is left open: at worst one triangle
\* remains, at best none is removed.
SimplifiedContents(parts) ==
    {kept \in (SUBSET parts) \ {{}} :
        /\ LargestFirst(kept, parts)
        /\ Cardinality(kept) - 1 < Budget
        /\ kept = parts \/ Count(kept) >= Budget}

-----------------------------------------------------------------------------
Node(g, path, parts, fitted) ==
    [group |-> g, path |-> path, parts |-> parts, fitted |-> fitted]

\* whole_element_parts of a group.
ElementParts(g) ==
    {{t \in Triangles : element[t] = e} :
        e \in {element[t] : t \in {u \in Triangles : GroupOf(u) = g}}}

\* write_mesh_tiles: one group is the root, several are its children.
GroupAtRoot(g) == <<>>
GroupPath(g) == IF Cardinality(UsedGroups) = 1 THEN <<>> ELSE <<g % PathWidth>>

GroupNode(g) == Node(g, GroupPath(g), ElementParts(g), g \notin assetIds)

Init ==
    /\ \E mesh \in Meshes :
          /\ shape = mesh.shape
          /\ element = mesh.element
          /\ material = mesh.material
    /\ \A g \in UsedGroups, h \in Groups : h < g => h \in UsedGroups
    /\ assetIds \in SUBSET UsedGroups
    /\ todo = {GroupNode(g) : g \in UsedGroups}
    /\ tiles = {}

Additive(n) == n.group \in assetIds

\* The tile a node writes: what it draws, and its error for the refinement.
TileOf(n, drawn, leaf, error) ==
    [group |-> n.group, path |-> n.path, drawn |-> UNION drawn, leaf |-> leaf,
     error |-> error, box |-> BoxOf(UNION n.parts)]

Child(n, side, half) == Node(n.group, Append(n.path, side), half, TRUE)

Children(n, near, far) ==
    {child \in {Child(n, 0, near), Child(n, 1, far)} : child.parts # {}}

Finish(n, tile, children) ==
    /\ todo' = (todo \ {n}) \cup children
    /\ tiles' = tiles \cup {tile}
    /\ UNCHANGED input

Oversized(n) == {p \in n.parts : Cardinality(p) > Budget}

IsLeafOneOver(n) == Count(n.parts) <= Budget + 1 \/ Len(n.path) >= MaxDepth
IsLeaf(n) == Count(n.parts) <= Budget \/ Len(n.path) >= MaxDepth

\* One turn of parts_within_budget's loop that cuts a part.
CutPart(n) ==
    /\ ~n.fitted
    /\ \E p \in Oversized(n) : \E near \in CutsOf(p) :
          todo' = (todo \ {n}) \cup
              {[n EXCEPT !.parts = (@ \ {p}) \cup {near, p \ near}]}
    /\ UNCHANGED <<input, tiles>>

\* The loop ends with every part within the budget.
AllFit(n) ==
    /\ ~n.fitted
    /\ Oversized(n) = {}
    /\ todo' = (todo \ {n}) \cup {[n EXCEPT !.fitted = TRUE]}
    /\ UNCHANGED <<input, tiles>>

\* tile and tile_additive: a leaf draws all its triangles.
Leaf(n) ==
    /\ n.fitted
    /\ IsLeaf(n)
    /\ Finish(n, TileOf(n, n.parts, TRUE, 0), {})

\* The error of what an additive tile leaves out is that of its largest part.
LeastError(rest) == Min({PartError(p) : p \in rest})
LeftOutError(rest) == Max({PartError(p) : p \in rest})

\* tile_additive: draws the largest, leaves the rest to its children.
Add(n) ==
    /\ n.fitted /\ Additive(n) /\ ~IsLeaf(n)
    /\ \E content \in AdditiveContents(n.parts) :
          LET rest == n.parts \ content IN
          \E s \in SplitsOf(rest) :
              Finish(n, TileOf(n, content, FALSE, LeftOutError(rest)),
                     Children(n, s[1], s[2]))

\* tile: draws a simplified whole that its children replace.  Its error is the
\* largest of theirs by construction and is not kept.
Replace(n) ==
    /\ n.fitted /\ ~Additive(n) /\ ~IsLeaf(n)
    /\ \E s \in SplitsOf(n.parts) :
          /\ s[1] # {} /\ s[2] # {}
          /\ \E kept \in SimplifiedContents(n.parts) :
                Finish(n, TileOf(n, kept, FALSE, 0), Children(n, s[1], s[2]))

\* tile: the one part there is does not come apart, so it stays one leaf.
Indivisible(n) ==
    /\ n.fitted /\ ~Additive(n) /\ ~IsLeaf(n)
    /\ \E s \in SplitsOf(n.parts) : s[1] = {} \/ s[2] = {}
    /\ Finish(n, TileOf(n, n.parts, TRUE, 0), {})

Next == \E n \in todo :
    \/ CutPart(n)
    \/ AllFit(n)
    \/ Leaf(n)
    \/ Add(n)
    \/ Replace(n)
    \/ Indivisible(n)

Spec == Init /\ [][Next]_vars

\* The recursion runs on: nothing in it waits.
FairSpec == Spec /\ WF_vars(Next)

-----------------------------------------------------------------------------
\* Every variable has its type; a call has parts to place, and a part triangles.
TypeOK ==
    /\ shape \in [Triangles -> Shapes]
    /\ element \in [Triangles -> Elements]
    /\ material \in [Elements -> Groups]
    /\ assetIds \subseteq Groups
    /\ todo \subseteq [group : Groups, path : Seq(Nat),
                       parts : SUBSET SUBSET Triangles, fitted : BOOLEAN]
    /\ \A n \in todo : n.parts # {} /\ {} \notin n.parts
    /\ \A x \in tiles : x.group \in Groups /\ x.path \in Seq(Nat)
                        /\ x.drawn \subseteq Triangles /\ x.leaf \in BOOLEAN

\* Tiles whose triangles collect_stats counts: leaves, and all of an additive
\* tree; the others are stand-ins for their children.
Counted == {x \in tiles : x.leaf \/ x.group \in assetIds}

\* What a call has still to place.
Load(n) == UNION n.parts

\* No triangle is lost by a cut, a split or an early leaf.
NoneLost ==
    \A t \in Triangles :
        \/ \E n \in todo : t \in Load(n)
        \/ \E x \in Counted : t \in x.drawn

\* No triangle is drawn twice at full detail, and none is both drawn and left
\* to a child: the parts of a call, the calls and the counted tiles are disjoint.
NoneTwice ==
    /\ \A n \in todo : \A p, q \in n.parts : p # q => p \cap q = {}
    /\ \A n, m \in todo : n # m => Load(n) \cap Load(m) = {}
    /\ \A n \in todo, x \in Counted : Load(n) \cap x.drawn = {}
    /\ \A x, y \in Counted : x # y => x.drawn \cap y.drawn = {}

\* Every triangle is in exactly one place, at every moment.
EachPlacedOnce == NoneLost /\ NoneTwice

\* A leaf is over the budget only at the depth limit, or when it is one part
\* of a replaced tree with all its triangles on one side of its middle.
LeavesWithinBudget ==
    \A x \in tiles : x.leaf /\ Cardinality(x.drawn) > Budget =>
        \/ Len(x.path) >= MaxDepth
        \/ /\ x.group \notin assetIds
           /\ LET a == LongestAxis(x.box) IN
              NearTriangles(x.drawn, a, Centre2(x.box, a)) \in {{}, x.drawn}

\* Going down an additive tree, boxes nest and errors never grow, although a
\* parent's error is that of one part and not of its box
\* (errors_never_grow_toward_the_leaves).
IsParent(x, y) == x.group = y.group /\ Len(y.path) = Len(x.path) + 1
                  /\ SubSeq(y.path, 1, Len(x.path)) = x.path

ErrorsShrink ==
    \A x, y \in tiles : IsParent(x, y) =>
        /\ Inside(y.box, x.box)
        /\ x.group \in assetIds => y.error <= x.error

\* to_filename names tiles by path: one tile overwrites another's file only
\* where the cast of the group's index gives two groups the same segment.
SameSegment(g, h) == g # h /\ g % PathWidth = h % PathWidth

FilesDistinct ==
    \A x, y \in tiles : x # y /\ x.path = y.path => SameSegment(x.group, y.group)

\* The loops and the recursion end, degenerate shapes and all.
TilingEnds == <>(todo = {})
=============================================================================
