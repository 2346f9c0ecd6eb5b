-------------------------- MODULE MeshTilingProofs --------------------------
(***************************************************************************)
(* For every mesh, budget and depth limit, the tiler places every triangle *)
(* exactly once, leaves fit the budget, errors shrink down a tree and      *)
(* files do not collide.  The first induction keeps a typing of the calls  *)
(* and tiles next to the two statements of placement; what it uses of the  *)
(* geometry is only that a cut takes a subset of the part it cuts.  The    *)
(* second follows a call below the tiles above it: its parts are pieces of *)
(* what they left out, and a piece has no larger box or error than the     *)
(* whole.                                                                  *)
(***************************************************************************)
EXTENDS MeshTiling, FiniteSetTheorems, TLAPS

\* The typing the placement argument rests on: parts hold triangles, and a
\* triangle has a group to start in.
Typed ==
    /\ element \in [Triangles -> Elements]
    /\ material \in [Elements -> Groups]
    /\ todo \subseteq [group : Groups, path : Seq(Nat),
                       parts : SUBSET SUBSET Triangles, fitted : BOOLEAN]

PlacedInv == Typed /\ NoneLost /\ NoneTwice

Disjoint(parts) == \A p, q \in parts : p # q => p \cap q = {}

\* What every split of parts does: the two sides share nothing and together
\* hold what the parts held, each still in disjoint parts.
SplitsApart(parts, near, far) ==
    /\ near \in SUBSET SUBSET Triangles
    /\ far \in SUBSET SUBSET Triangles
    /\ (UNION near) \cup (UNION far) = UNION parts
    /\ (UNION near) \cap (UNION far) = {}
    /\ Disjoint(near)
    /\ Disjoint(far)

\* Two unions, told by their elements.
LEMMA UnionsApart ==
    ASSUME NEW P, NEW A, NEW B,
           \A t : (\E p \in P : t \in p) <=> (\E p \in A : t \in p) \/ (\E p \in B : t \in p),
           \A t : ~((\E p \in A : t \in p) /\ (\E p \in B : t \in p))
    PROVE  (UNION A) \cup (UNION B) = UNION P /\ (UNION A) \cap (UNION B) = {}
<1> DEFINE UA == UNION A
           UB == UNION B
           UP == UNION P
<1>1. /\ \A t : t \in UA <=> \E p \in A : t \in p
      /\ \A t : t \in UB <=> \E p \in B : t \in p
      /\ \A t : t \in UP <=> \E p \in P : t \in p
  OBVIOUS
<1> HIDE DEF UA, UB, UP
<1>2. UA \cup UB = UP
  BY <1>1
<1>3. UA \cap UB = {}
  BY <1>1
<1>4. QED
  BY <1>2, <1>3 DEF UA, UB, UP

\* A cut takes near triangles out of the part.
LEMMA NearIsPart ==
    ASSUME NEW p, NEW a, NEW split2
    PROVE  NearOf(p, a, split2) \subseteq p
BY DEF NearOf, NearTriangles

\* Choosing among whole parts splits them apart.
LEMMA WholeApart ==
    ASSUME NEW parts \in SUBSET SUBSET Triangles, Disjoint(parts),
           NEW near \in SUBSET parts
    PROVE  SplitsApart(parts, near, parts \ near)
<1>1. \A t : (\E p \in parts : t \in p) <=>
             (\E p \in near : t \in p) \/ (\E p \in parts \ near : t \in p)
  OBVIOUS
<1>2. \A t : ~((\E p \in near : t \in p) /\ (\E p \in parts \ near : t \in p))
  BY DEF Disjoint
<1>3. (UNION near) \cup (UNION (parts \ near)) = UNION parts
      /\ (UNION near) \cap (UNION (parts \ near)) = {}
  BY <1>1, <1>2, UnionsApart
<1>4. QED
  BY <1>3 DEF SplitsApart, Disjoint

\* Cutting each part in two splits them apart.
LEMMA CutApart ==
    ASSUME NEW parts \in SUBSET SUBSET Triangles, Disjoint(parts), NEW a, NEW split2
    PROVE  SplitsApart(parts, NearParts(parts, a, split2), FarParts(parts, a, split2))
<1> DEFINE N(p) == NearOf(p, a, split2)
           near == {N(p) : p \in parts} \ {{}}
           far == {p \ N(p) : p \in parts} \ {{}}
<1>1. \A p : N(p) \subseteq p
  BY NearIsPart
<1> HIDE DEF N
<1>2. \A t : (\E m \in near : t \in m) <=> \E p \in parts : t \in N(p)
  OBVIOUS
<1>3. \A t : (\E m \in far : t \in m) <=> \E p \in parts : t \in p \ N(p)
  <2>1. ASSUME NEW t, NEW p \in parts, t \in p \ N(p)
        PROVE  \E m \in far : t \in m
    <3>1. p \ N(p) \in far
      BY <2>1
    <3>2. QED
      BY <2>1, <3>1
  <2>2. ASSUME NEW t, NEW m \in far, t \in m
        PROVE  \E p \in parts : t \in p \ N(p)
    <3>1. PICK p \in parts : m = p \ N(p)
      OBVIOUS
    <3>2. QED
      BY <2>2, <3>1
  <2>3. QED
    BY <2>1, <2>2
<1> HIDE DEF near, far
<1>4. \A t : (\E p \in parts : t \in p) <=>
             (\E m \in near : t \in m) \/ (\E m \in far : t \in m)
  BY <1>1, <1>2, <1>3
<1>5. \A t : ~((\E m \in near : t \in m) /\ (\E m \in far : t \in m))
  <2> SUFFICES ASSUME NEW t, \E m \in near : t \in m, \E m \in far : t \in m
               PROVE  FALSE
    OBVIOUS
  <2>1. PICK p \in parts : t \in N(p)
    BY <1>2
  <2>2. PICK q \in parts : t \in q \ N(q)
    BY <1>3
  <2>3. QED
    BY <1>1, <2>1, <2>2 DEF Disjoint
<1>10. (UNION near) \cup (UNION far) = UNION parts /\ (UNION near) \cap (UNION far) = {}
  BY <1>4, <1>5, UnionsApart
<1>6. near \in SUBSET SUBSET Triangles /\ far \in SUBSET SUBSET Triangles
  BY <1>1 DEF near, far
<1>7. Disjoint(near)
  <2> SUFFICES ASSUME NEW m \in near, NEW k \in near, m # k PROVE m \cap k = {}
    BY DEF Disjoint
  <2>1. PICK p \in parts, q \in parts : m = N(p) /\ k = N(q)
    BY DEF near
  <2>2. QED
    BY <1>1, <2>1 DEF Disjoint
<1>9. Disjoint(far)
  <2> SUFFICES ASSUME NEW m \in far, NEW k \in far, m # k PROVE m \cap k = {}
    BY DEF Disjoint
  <2>1. PICK p \in parts, q \in parts : m = p \ N(p) /\ k = q \ N(q)
    BY DEF far
  <2>2. QED
    BY <1>1, <2>1 DEF Disjoint
<1>8. QED
  BY <1>6, <1>7, <1>9, <1>10 DEF SplitsApart, near, far, N, NearParts, FarParts

\* split_parts splits apart, whichever way it goes.
LEMMA SplitsOfApart ==
    ASSUME NEW parts \in SUBSET SUBSET Triangles, Disjoint(parts),
           NEW s \in SplitsOf(parts)
    PROVE  SplitsApart(parts, s[1], s[2])
<1> DEFINE box == BoxOf(UNION parts)
           a == LongestAxis(box)
           near == NearParts(parts, a, Centre2(box, a))
           far == FarParts(parts, a, Centre2(box, a))
<1>1. s \in {<<counted, parts \ counted>> : counted \in CountedNears(parts, a)}
         \/ s = <<near, far>>
  BY DEF SplitsOf
<1>2. CASE s = <<near, far>>
  <2>1. SplitsApart(parts, near, far)
    BY CutApart
  <2>2. QED
    BY <1>2, <2>1
<1>3. CASE s \in {<<counted, parts \ counted>> : counted \in CountedNears(parts, a)}
  <2>1. PICK counted \in CountedNears(parts, a) : s = <<counted, parts \ counted>>
    BY <1>3
  <2>2. counted \in SUBSET parts
    BY DEF CountedNears
  <2>3. SplitsApart(parts, counted, parts \ counted)
    BY <2>2, WholeApart
  <2>4. QED
    BY <2>1, <2>3
<1>4. QED
  BY <1>1, <1>2, <1>3

-----------------------------------------------------------------------------
CountedTile(x) == x.leaf \/ x.group \in assetIds

\* A step that replaces a call by calls and tiles which hold its triangles,
\* each of them once, keeps every triangle placed once.
LEMMA Replaced ==
    ASSUME NoneLost, NoneTwice,
           NEW n \in todo, NEW C, NEW X,
           todo' = (todo \ {n}) \cup C,
           tiles' = tiles \cup X,
           UNCHANGED assetIds,
           \A t \in Load(n) : \/ \E c \in C : t \in Load(c)
                              \/ \E x \in X : CountedTile(x) /\ t \in x.drawn,
           \A c \in C : Load(c) \subseteq Load(n) /\ Disjoint(c.parts),
           \A c, d \in C : c # d => Load(c) \cap Load(d) = {},
           \A x \in X : CountedTile(x) =>
               x.drawn \subseteq Load(n) /\ \A c \in C : Load(c) \cap x.drawn = {},
           \A x, y \in X : x = y
    PROVE  NoneLost' /\ NoneTwice'
<1>1. \A x : x \in Counted <=> x \in tiles /\ CountedTile(x)
  BY DEF Counted, CountedTile
<1>2. \A x : x \in Counted' <=> (x \in tiles \/ x \in X) /\ CountedTile(x)
  BY DEF Counted, CountedTile
<1>3. \A m : m \in todo' <=> (m \in todo /\ m # n) \/ m \in C
  OBVIOUS
<1>4. \A m : Load(m)' = Load(m)
  BY DEF Load
<1> DEFINE L(m) == Load(m)
<1>5. \A m \in todo, k \in todo : m # k => L(m) \cap L(k) = {}
  BY DEF NoneTwice
<1>6. \A m \in todo, x \in Counted : L(m) \cap x.drawn = {}
  BY DEF NoneTwice
<1>7. \A x \in Counted, y \in Counted : x # y => x.drawn \cap y.drawn = {}
  BY DEF NoneTwice
<1>8. \A t \in Triangles : \/ \E m \in todo : t \in L(m)
                           \/ \E x \in Counted : t \in x.drawn
  BY DEF NoneLost
<1>9. /\ \A t \in L(n) : \/ \E c \in C : t \in L(c)
                         \/ \E x \in X : CountedTile(x) /\ t \in x.drawn
      /\ \A c \in C : L(c) \subseteq L(n)
      /\ \A c, d \in C : c # d => L(c) \cap L(d) = {}
      /\ \A x \in X : CountedTile(x) =>
             x.drawn \subseteq L(n) /\ \A c \in C : L(c) \cap x.drawn = {}
  OBVIOUS
<1> HIDE DEF L
<1>10. \A t \in Triangles : \/ \E m \in todo' : t \in L(m)
                            \/ \E x \in Counted' : t \in x.drawn
  <2> SUFFICES ASSUME NEW t \in Triangles
               PROVE  (\E m \in todo' : t \in L(m)) \/ (\E x \in Counted' : t \in x.drawn)
    OBVIOUS
  <2>1. CASE t \in L(n)
    BY <1>2, <1>3, <1>9, <2>1
  <2>2. CASE t \notin L(n)
    BY <1>1, <1>2, <1>3, <1>8, <2>2
  <2>3. QED
    BY <2>1, <2>2
<1>11. \A m, k \in todo' : m # k => L(m) \cap L(k) = {}
  <2> SUFFICES ASSUME NEW m \in todo', NEW k \in todo', m # k
               PROVE  L(m) \cap L(k) = {}
    OBVIOUS
  <2>1. CASE m \in C /\ k \in C
    BY <1>9, <2>1
  <2>2. CASE m \in C /\ k \notin C
    BY <1>3, <1>5, <1>9, <2>2
  <2>3. CASE m \notin C /\ k \in C
    BY <1>3, <1>5, <1>9, <2>3
  <2>4. CASE m \notin C /\ k \notin C
    BY <1>3, <1>5, <2>4
  <2>5. QED
    BY <2>1, <2>2, <2>3, <2>4
<1>12. \A m \in todo', x \in Counted' : L(m) \cap x.drawn = {}
  <2> SUFFICES ASSUME NEW m \in todo', NEW x \in Counted'
               PROVE  L(m) \cap x.drawn = {}
    OBVIOUS
  <2>1. CASE x \in Counted /\ m \in C
    BY <1>6, <1>9, <2>1
  <2>2. CASE x \in Counted /\ m \notin C
    BY <1>3, <1>6, <2>2
  <2>3. CASE x \notin Counted /\ m \in C
    BY <1>1, <1>2, <1>9, <2>3
  <2>4. CASE x \notin Counted /\ m \notin C
    BY <1>1, <1>2, <1>3, <1>5, <1>9, <2>4
  <2>5. QED
    BY <2>1, <2>2, <2>3, <2>4
<1>13. \A x, y \in Counted' : x # y => x.drawn \cap y.drawn = {}
  <2> SUFFICES ASSUME NEW x \in Counted', NEW y \in Counted', x # y
               PROVE  x.drawn \cap y.drawn = {}
    OBVIOUS
  <2>1. CASE x \in Counted /\ y \in Counted
    BY <1>7, <2>1
  <2>2. CASE x \in Counted /\ y \notin Counted
    BY <1>1, <1>2, <1>6, <1>9, <2>2
  <2>3. CASE x \notin Counted /\ y \in Counted
    BY <1>1, <1>2, <1>6, <1>9, <2>3
  <2>4. CASE x \notin Counted /\ y \notin Counted
    BY <1>1, <1>2, <2>4
  <2>5. QED
    BY <2>1, <2>2, <2>3, <2>4
<1>14. \A m \in todo' : Disjoint(m.parts)
  BY <1>3 DEF NoneTwice, Disjoint
<1>15. NoneLost'
  BY <1>10, <1>4 DEF NoneLost, L
<1>16. NoneTwice'
  BY <1>4, <1>11, <1>12, <1>13, <1>14 DEF NoneTwice, Disjoint, L
<1>17. QED
  BY <1>15, <1>16

-----------------------------------------------------------------------------
\* At the start every triangle is in the call for its group.
LEMMA InitPlaced == Init => PlacedInv
<1> SUFFICES ASSUME Init PROVE PlacedInv
  OBVIOUS
<1>1. element \in [Triangles -> Elements] /\ material \in [Elements -> Groups]
  BY MeshesAssumption DEF Init
<1>2. UsedGroups \subseteq Groups
  BY <1>1 DEF UsedGroups, GroupOf
<1>3. \A g \in UsedGroups : ElementParts(g) \in SUBSET SUBSET Triangles
  BY DEF ElementParts
<1>4. \A g \in UsedGroups : GroupPath(g) \in Seq(Nat)
  BY <1>2, PathAssumption DEF GroupPath, Groups
<1>5. Typed
  <2>1. ASSUME NEW g \in UsedGroups
        PROVE  GroupNode(g) \in [group : Groups, path : Seq(Nat),
                                 parts : SUBSET SUBSET Triangles, fitted : BOOLEAN]
    BY <1>2, <1>3, <1>4 DEF GroupNode, Node
  <2>2. QED
    BY <1>1, <2>1 DEF Typed, Init
<1>6. \A g \in UsedGroups, t \in Triangles :
          t \in Load(GroupNode(g)) <=> GroupOf(t) = g
  <2> SUFFICES ASSUME NEW g \in UsedGroups, NEW t \in Triangles
               PROVE  (\E p \in ElementParts(g) : t \in p) <=> GroupOf(t) = g
    BY DEF Load, GroupNode, Node
  <2>1. ASSUME GroupOf(t) = g PROVE \E p \in ElementParts(g) : t \in p
    <3>1. {u \in Triangles : element[u] = element[t]} \in ElementParts(g)
      BY <2>1 DEF ElementParts
    <3>2. QED
      BY <3>1
  <2>2. ASSUME NEW p \in ElementParts(g), t \in p PROVE GroupOf(t) = g
    BY <2>2 DEF ElementParts, GroupOf
  <2>3. QED
    BY <2>1, <2>2
<1>7. \A g \in UsedGroups : Load(GroupNode(g)) \subseteq Triangles
  BY <1>3 DEF Load, GroupNode, Node
<1>8. NoneLost
  BY <1>6 DEF NoneLost, Init, UsedGroups
<1>9. NoneTwice
  <2>1. ASSUME NEW g \in UsedGroups, NEW p \in ElementParts(g),
               NEW q \in ElementParts(g), p # q
        PROVE  p \cap q = {}
    BY <2>1 DEF ElementParts
  <2>2. \A n \in todo : \A p, q \in n.parts : p # q => p \cap q = {}
    BY <2>1 DEF Init, GroupNode, Node
  <2>3. \A n, m \in todo : n # m => Load(n) \cap Load(m) = {}
    BY <1>6, <1>7 DEF Init
  <2>4. QED
    BY <2>2, <2>3 DEF NoneTwice, Counted, Init
<1>10. QED
  BY <1>5, <1>8, <1>9 DEF PlacedInv

\* What a child holds of its parent's split.
LEMMA ChildrenApart ==
    ASSUME NEW n \in [group : Groups, path : Seq(Nat),
                      parts : SUBSET SUBSET Triangles, fitted : BOOLEAN],
           NEW parts \in SUBSET SUBSET Triangles, NEW near, NEW far,
           SplitsApart(parts, near, far)
    PROVE  /\ Children(n, near, far) \subseteq
                  [group : Groups, path : Seq(Nat),
                   parts : SUBSET SUBSET Triangles, fitted : BOOLEAN]
           /\ \A t : t \in UNION parts <=>
                  \E c \in Children(n, near, far) : t \in Load(c)
           /\ \A c \in Children(n, near, far) : Disjoint(c.parts)
           /\ \A c, d \in Children(n, near, far) :
                  c # d => Load(c) \cap Load(d) = {}
<1> DEFINE a == Child(n, 0, near)
           b == Child(n, 1, far)
<1>1. /\ a.group = n.group /\ a.path = Append(n.path, 0) /\ a.parts = near
      /\ b.group = n.group /\ b.path = Append(n.path, 1) /\ b.parts = far
  BY DEF Child, Node
<1>2. /\ a \in [group : Groups, path : Seq(Nat),
                parts : SUBSET SUBSET Triangles, fitted : BOOLEAN]
      /\ b \in [group : Groups, path : Seq(Nat),
                parts : SUBSET SUBSET Triangles, fitted : BOOLEAN]
  BY DEF Child, Node, SplitsApart
<1>3. \A c : c \in Children(n, near, far) <=> (c = a \/ c = b) /\ c.parts # {}
  BY DEF Children
<1>4. Load(a) = UNION near /\ Load(b) = UNION far
  BY <1>1 DEF Load
<1> HIDE DEF a, b
<1>5. near = {} => UNION near = {}
  OBVIOUS
<1>6. far = {} => UNION far = {}
  OBVIOUS
<1>7. \A t : t \in UNION parts <=> \E c \in Children(n, near, far) : t \in Load(c)
  BY <1>1, <1>3, <1>4, <1>5, <1>6 DEF SplitsApart
<1>8. \A c \in Children(n, near, far) : Disjoint(c.parts)
  BY <1>1, <1>3 DEF SplitsApart
<1>9. \A c, d \in Children(n, near, far) : c # d => Load(c) \cap Load(d) = {}
  BY <1>3, <1>4 DEF SplitsApart
<1>10. QED
  BY <1>2, <1>3, <1>7, <1>8, <1>9

\* Cutting a part in two leaves the call with the same triangles, in parts that
\* are still disjoint.
LEMMA CutKeepsLoad ==
    ASSUME NEW parts \in SUBSET SUBSET Triangles, Disjoint(parts),
           NEW p \in parts, NEW near \in SUBSET p
    PROVE  LET cut == (parts \ {p}) \cup {near, p \ near}
           IN  /\ cut \in SUBSET SUBSET Triangles
               /\ UNION cut = UNION parts
               /\ Disjoint(cut)
<1> DEFINE cut == (parts \ {p}) \cup {near, p \ near}
<1>1. \A q : q \in cut <=> (q \in parts /\ q # p) \/ q = near \/ q = p \ near
  OBVIOUS
<1> HIDE DEF cut
<1>2. cut \in SUBSET SUBSET Triangles
  BY <1>1
<1>3. \A t : (\E q \in cut : t \in q) <=> (\E q \in parts : t \in q)
  <2>1. ASSUME NEW t, NEW q \in cut, t \in q PROVE \E r \in parts : t \in r
    BY <1>1, <2>1
  <2>2. ASSUME NEW t, NEW q \in parts, t \in q PROVE \E r \in cut : t \in r
    <3>1. q = p => t \in near \/ t \in p \ near
      BY <2>2
    <3>2. near \in cut /\ p \ near \in cut /\ (q # p => q \in cut)
      BY <1>1
    <3>3. QED
      BY <2>2, <3>1, <3>2
  <2>3. QED
    BY <2>1, <2>2
<1>4. UNION cut = UNION parts
  BY <1>3
<1>5. Disjoint(cut)
  BY <1>1 DEF Disjoint
<1>6. QED
  BY <1>2, <1>4, <1>5 DEF cut

\* A step of a call that writes a tile and makes calls for the rest.
LEMMA FinishPlaced ==
    ASSUME PlacedInv, NEW n \in todo, NEW tile, NEW near, NEW far,
           NEW rest \in SUBSET SUBSET Triangles,
           SplitsApart(rest, near, far),
           tile.group = n.group,
           UNION rest \subseteq Load(n),
           ~CountedTile(tile) => UNION rest = Load(n),
           CountedTile(tile) => /\ tile.drawn \subseteq Load(n)
                                /\ tile.drawn \cap (UNION rest) = {}
                                /\ Load(n) \subseteq tile.drawn \cup (UNION rest),
           Finish(n, tile, Children(n, near, far))
    PROVE  PlacedInv'
<1>1. n \in [group : Groups, path : Seq(Nat),
             parts : SUBSET SUBSET Triangles, fitted : BOOLEAN]
  BY DEF PlacedInv, Typed
<1> DEFINE C == Children(n, near, far)
           X == {tile}
<1>2. /\ C \subseteq [group : Groups, path : Seq(Nat),
                      parts : SUBSET SUBSET Triangles, fitted : BOOLEAN]
      /\ \A t : t \in UNION rest <=> \E c \in C : t \in Load(c)
      /\ \A c \in C : Disjoint(c.parts)
      /\ \A c, d \in C : c # d => Load(c) \cap Load(d) = {}
  BY <1>1, ChildrenApart
<1>3. /\ todo' = (todo \ {n}) \cup C
      /\ tiles' = tiles \cup X
      /\ UNCHANGED input
  BY DEF Finish
<1>12. \A x : x \in X <=> x = tile
  OBVIOUS
<1> HIDE DEF C, X
<1>4. Typed'
  BY <1>2, <1>3 DEF PlacedInv, Typed, input
<1>5. \A t \in Load(n) : \/ \E c \in C : t \in Load(c)
                         \/ \E x \in X : CountedTile(x) /\ t \in x.drawn
  BY <1>2, <1>12
<1>6. \A c \in C : Load(c) \subseteq Load(n) /\ Disjoint(c.parts)
  BY <1>2
<1>7. \A x \in X : CountedTile(x) =>
          x.drawn \subseteq Load(n) /\ \A c \in C : Load(c) \cap x.drawn = {}
  BY <1>2, <1>12
<1>8. UNCHANGED assetIds /\ \A x, y \in X : x = y
  BY <1>3, <1>12 DEF input
<1>9. NoneLost /\ NoneTwice
  BY DEF PlacedInv
<1>10. NoneLost' /\ NoneTwice'
  BY <1>2, <1>3, <1>5, <1>6, <1>7, <1>8, <1>9, Replaced
<1>11. QED
  BY <1>4, <1>10 DEF PlacedInv

\* A leaf draws all its call has, and makes no call.
LEMMA LeafPlaced ==
    ASSUME PlacedInv, NEW n \in todo,
           Finish(n, TileOf(n, n.parts, TRUE, 0), {})
    PROVE  PlacedInv'
<1> DEFINE tile == TileOf(n, n.parts, TRUE, 0)
<1>1. tile.group = n.group /\ tile.leaf /\ tile.drawn = Load(n)
  BY DEF TileOf, Load
<1>2. SplitsApart({}, {}, {}) /\ UNION {} = {} /\ {} \in SUBSET SUBSET Triangles
  BY DEF SplitsApart, Disjoint
<1>3. Children(n, {}, {}) = {}
  BY DEF Children, Child, Node
<1>4. CountedTile(tile)
  BY <1>1 DEF CountedTile
<1> HIDE DEF tile
<1>5. Finish(n, tile, Children(n, {}, {}))
  BY <1>3 DEF tile
<1>6. QED
  BY <1>1, <1>2, <1>4, <1>5, FinishPlaced

\* An additive tile draws some of its parts and leaves the others.
LEMMA AddPlaced ==
    ASSUME PlacedInv, NEW n \in todo, Add(n)
    PROVE  PlacedInv'
<1>1. PICK content \in AdditiveContents(n.parts) :
          \E s \in SplitsOf(n.parts \ content) :
              Finish(n,
                     TileOf(n, content, FALSE,
                            LeftOutError(n.parts \ content)),
                     Children(n, s[1], s[2]))
  BY DEF Add
<1> DEFINE rest == n.parts \ content
           tile == TileOf(n, content, FALSE, LeftOutError(rest))
<1>2. PICK s \in SplitsOf(rest) : Finish(n, tile, Children(n, s[1], s[2]))
  BY <1>1
<1>3. n.parts \in SUBSET SUBSET Triangles /\ Disjoint(n.parts)
  BY DEF PlacedInv, Typed, NoneTwice, Disjoint
<1>4. content \in SUBSET n.parts
  BY DEF AdditiveContents
<1>5. SplitsApart(n.parts, content, rest)
  BY <1>3, <1>4, WholeApart
<1>6. rest \in SUBSET SUBSET Triangles /\ Disjoint(rest)
  BY <1>3 DEF Disjoint
<1>7. SplitsApart(rest, s[1], s[2])
  BY <1>6, SplitsOfApart
<1>8. tile.group = n.group /\ tile.drawn = UNION content /\ CountedTile(tile)
  BY DEF TileOf, CountedTile, Add, Additive
<1> HIDE DEF tile, rest
<1>9. /\ tile.drawn \subseteq Load(n)
      /\ UNION rest \subseteq Load(n)
      /\ tile.drawn \cap (UNION rest) = {}
      /\ Load(n) \subseteq tile.drawn \cup (UNION rest)
  BY <1>5, <1>8 DEF SplitsApart, Load
<1>10. QED
  BY <1>2, <1>6, <1>7, <1>8, <1>9, FinishPlaced

\* A replaced tile counts for nothing and leaves all its parts.
LEMMA ReplacePlaced ==
    ASSUME PlacedInv, NEW n \in todo, Replace(n)
    PROVE  PlacedInv'
<1>1. PICK s \in SplitsOf(n.parts), kept \in SimplifiedContents(n.parts) :
          Finish(n, TileOf(n, kept, FALSE, 0), Children(n, s[1], s[2]))
  BY DEF Replace
<1> DEFINE tile == TileOf(n, kept, FALSE, 0)
<1>2. n.parts \in SUBSET SUBSET Triangles /\ Disjoint(n.parts)
  BY DEF PlacedInv, Typed, NoneTwice, Disjoint
<1>3. SplitsApart(n.parts, s[1], s[2])
  BY <1>2, SplitsOfApart
<1>4. tile.group = n.group /\ ~CountedTile(tile)
  BY DEF TileOf, CountedTile, Replace, Additive
<1> HIDE DEF tile
<1>5. Finish(n, tile, Children(n, s[1], s[2]))
  BY <1>1 DEF tile
<1>6. UNION n.parts = Load(n)
  BY DEF Load
<1>7. QED
  BY <1>2, <1>3, <1>4, <1>5, <1>6, FinishPlaced

\* A call that becomes another one with the same triangles.
LEMMA Moved ==
    ASSUME NoneLost, NoneTwice, NEW n \in todo, NEW m,
           Load(m) = Load(n), Disjoint(m.parts),
           todo' = (todo \ {n}) \cup {m}, tiles' = tiles, UNCHANGED assetIds
    PROVE  NoneLost' /\ NoneTwice'
<1> DEFINE L(k) == Load(k)
<1>1. Counted' = Counted /\ \A k : Load(k)' = L(k)
  BY DEF Counted, Load
<1>2. \A k : k \in todo' <=> (k \in todo /\ k # n) \/ k = m
  OBVIOUS
<1>3. /\ \A t \in Triangles : \/ \E k \in todo : t \in L(k)
                              \/ \E x \in Counted : t \in x.drawn
      /\ \A k, l \in todo : k # l => L(k) \cap L(l) = {}
      /\ \A k \in todo, x \in Counted : L(k) \cap x.drawn = {}
      /\ L(m) = L(n)
  BY DEF NoneLost, NoneTwice
<1> HIDE DEF L
<1>4. \A t \in Triangles : \/ \E k \in todo' : t \in L(k)
                           \/ \E x \in Counted : t \in x.drawn
  BY <1>2, <1>3
<1>5. \A k, l \in todo' : k # l => L(k) \cap L(l) = {}
  BY <1>2, <1>3
<1>6. \A k \in todo', x \in Counted : L(k) \cap x.drawn = {}
  BY <1>2, <1>3
<1>7. \A k \in todo' : Disjoint(k.parts)
  BY <1>2 DEF NoneTwice, Disjoint
<1>8. NoneLost'
  BY <1>1, <1>4 DEF NoneLost
<1>9. NoneTwice'
  BY <1>1, <1>5, <1>6, <1>7 DEF NoneTwice, Disjoint
<1>10. QED
  BY <1>8, <1>9

\* A turn of parts_within_budget moves no triangle to another call.
LEMMA FittingPlaced ==
    ASSUME PlacedInv, NEW n \in todo, CutPart(n) \/ AllFit(n)
    PROVE  PlacedInv'
<1>1. n \in [group : Groups, path : Seq(Nat),
             parts : SUBSET SUBSET Triangles, fitted : BOOLEAN]
  BY DEF PlacedInv, Typed
<1>2. n.parts \in SUBSET SUBSET Triangles /\ Disjoint(n.parts)
  BY <1>1 DEF PlacedInv, NoneTwice, Disjoint
<1>3. ASSUME NEW m \in [group : Groups, path : Seq(Nat),
                        parts : SUBSET SUBSET Triangles, fitted : BOOLEAN],
             Load(m) = Load(n), Disjoint(m.parts),
             todo' = (todo \ {n}) \cup {m}, UNCHANGED <<input, tiles>>
      PROVE  PlacedInv'
  <2>1. UNCHANGED assetIds /\ tiles' = tiles
    BY <1>3 DEF input
  <2>2. Typed'
    BY <1>3 DEF PlacedInv, Typed, input
  <2>4. NoneLost /\ NoneTwice
    BY DEF PlacedInv
  <2>5. NoneLost' /\ NoneTwice'
    BY <1>3, <2>1, <2>4, Moved
  <2>6. QED
    BY <2>2, <2>5 DEF PlacedInv
<1>4. CASE CutPart(n)
  <2>0. PICK p \in Oversized(n) : \E near \in CutsOf(p) :
            todo' = (todo \ {n}) \cup
                {[n EXCEPT !.parts = (@ \ {p}) \cup {near, p \ near}]}
    BY <1>4 DEF CutPart
  <2>1. PICK near \in CutsOf(p) :
            todo' = (todo \ {n}) \cup
                {[n EXCEPT !.parts = (@ \ {p}) \cup {near, p \ near}]}
    BY <2>0
  <2> DEFINE cut == (n.parts \ {p}) \cup {near, p \ near}
             m == [n EXCEPT !.parts = cut]
  <2>2. p \in n.parts
    BY DEF Oversized
  <2>3. near \in SUBSET p
    BY DEF CutsOf, NearTriangles
  <2>4. cut \in SUBSET SUBSET Triangles /\ UNION cut = UNION n.parts /\ Disjoint(cut)
    BY <1>2, <2>2, <2>3, CutKeepsLoad
  <2>5. todo' = (todo \ {n}) \cup {m}
    BY <2>1
  <2> HIDE DEF cut
  <2>6. m \in [group : Groups, path : Seq(Nat),
               parts : SUBSET SUBSET Triangles, fitted : BOOLEAN]
        /\ m.parts = cut
    BY <1>1, <2>4
  <2> HIDE DEF m
  <2>7. Load(m) = Load(n)
    BY <2>4, <2>6 DEF Load
  <2>8. UNCHANGED <<input, tiles>>
    BY <1>4 DEF CutPart
  <2>9. QED
    BY <1>3, <2>4, <2>5, <2>6, <2>7, <2>8
<1>5. CASE AllFit(n)
  <2> DEFINE m == [n EXCEPT !.fitted = TRUE]
  <2>1. todo' = (todo \ {n}) \cup {m} /\ UNCHANGED <<input, tiles>>
    BY <1>5 DEF AllFit
  <2>2. m \in [group : Groups, path : Seq(Nat),
               parts : SUBSET SUBSET Triangles, fitted : BOOLEAN]
        /\ m.parts = n.parts
    BY <1>1
  <2> HIDE DEF m
  <2>3. Load(m) = Load(n)
    BY <2>2 DEF Load
  <2>4. QED
    BY <1>2, <1>3, <2>1, <2>2, <2>3
<1>6. QED
  BY <1>4, <1>5

-----------------------------------------------------------------------------
\* Every step keeps every triangle placed once.
LEMMA PlacedStep ==
    ASSUME PlacedInv, [Next]_vars
    PROVE  PlacedInv'
<1>1. CASE UNCHANGED vars
  BY <1>1 DEF vars, input, PlacedInv, Typed, NoneLost, NoneTwice, Counted, Load
<1>2. ASSUME NEW n \in todo,
             \/ CutPart(n) \/ AllFit(n) \/ Leaf(n)
             \/ Add(n) \/ Replace(n) \/ Indivisible(n)
      PROVE  PlacedInv'
  <2>1. CASE CutPart(n) \/ AllFit(n)
    BY <2>1, FittingPlaced
  <2>2. CASE Leaf(n) \/ Indivisible(n)
    BY <2>2, LeafPlaced DEF Leaf, Indivisible
  <2>3. CASE Add(n)
    BY <2>3, AddPlaced
  <2>4. CASE Replace(n)
    BY <2>4, ReplacePlaced
  <2>5. QED
    BY <1>2, <2>1, <2>2, <2>3, <2>4
<1>3. QED
  BY <1>1, <1>2 DEF Next

\* Of every mesh, whatever its shapes, elements and materials, each triangle is
\* in a call still to come or in a tile that counts, and in one of them only.
THEOREM PlacedOnce == Spec => []EachPlacedOnce
<1>1. PlacedInv /\ [Next]_vars => PlacedInv'
  BY PlacedStep
<1>2. PlacedInv => EachPlacedOnce
  BY DEF PlacedInv, EachPlacedOnce
<1>3. QED
  BY InitPlaced, <1>1, <1>2, PTL DEF Spec

-----------------------------------------------------------------------------
\* A call that does not come apart has one part, and its triangles are on one
\* side.
LEMMA OnePartLeft ==
    ASSUME NEW parts \in SUBSET SUBSET Triangles, NEW s \in SplitsOf(parts),
           s[1] = {} \/ s[2] = {}
    PROVE  LET box == BoxOf(UNION parts)
               a == LongestAxis(box)
           IN  Cardinality(UNION parts) > Budget =>
                   NearTriangles(UNION parts, a, Centre2(box, a)) \in {{}, UNION parts}
<1> DEFINE box == BoxOf(UNION parts)
           a == LongestAxis(box)
           split2 == Centre2(box, a)
           near == NearParts(parts, a, split2)
           far == FarParts(parts, a, split2)
<1>1. \/ (near = {} \/ far = {}) /\ s \in {<<c, parts \ c>> : c \in CountedNears(parts, a)}
      \/ near # {} /\ far # {} /\ s = <<near, far>>
  BY DEF SplitsOf
<1> HIDE DEF near, far, a, split2
<1>2. near = {} \/ far = {}
  BY <1>1
<1>3. PICK c \in CountedNears(parts, a) : s = <<c, parts \ c>>
  BY <1>1, <1>2
<1>4. c \in SUBSET parts /\ c # {} /\ (c = parts => Cardinality(parts) = 1)
  BY DEF CountedNears
<1>5. Cardinality(parts) = 1
  BY <1>3, <1>4
<1>6. IsFiniteSet(parts)
  BY FiniteTriangles, FS_SUBSET, FS_Subset
<1>7. PICK p : parts = {p}
  BY <1>5, <1>6, FS_Singleton
<1>8. UNION parts = p
  BY <1>7
<1>9. NearOf(p, a, split2) \in {{}, p}
  <2>1. near = {NearOf(p, a, split2)} \ {{}}
    BY <1>7 DEF near, NearParts
  <2>2. far = {p \ NearOf(p, a, split2)} \ {{}}
    BY <1>7 DEF far, FarParts
  <2>3. NearOf(p, a, split2) \subseteq p
    BY NearIsPart
  <2>4. QED
    BY <1>2, <2>1, <2>2, <2>3
<1>10. Cardinality(p) > Budget => NearOf(p, a, split2) = NearTriangles(p, a, split2)
  BY DEF NearOf
<1>11. QED
  BY <1>8, <1>9, <1>10 DEF a, split2

\* In every tileset a leaf over the budget is at the depth limit or does not
\* come apart.
THEOREM LeavesFit == Spec => []LeavesWithinBudget
<1>1. Init => LeavesWithinBudget
  BY DEF Init, LeavesWithinBudget
<1>2. PlacedInv /\ LeavesWithinBudget /\ [Next]_vars => LeavesWithinBudget'
  <2> SUFFICES ASSUME PlacedInv, LeavesWithinBudget, [Next]_vars
               PROVE  LeavesWithinBudget'
    OBVIOUS
  <2> DEFINE Fits(x) == x.leaf /\ Cardinality(x.drawn) > Budget =>
                 \/ Len(x.path) >= MaxDepth
                 \/ /\ x.group \notin assetIds
                    /\ LET a == LongestAxis(x.box) IN
                       NearTriangles(x.drawn, a, Centre2(x.box, a)) \in {{}, x.drawn}
  <2>1. \A x \in tiles : Fits(x)
    BY DEF LeavesWithinBudget
  <2>2. ASSUME UNCHANGED input, \A x \in tiles' : x \in tiles \/ Fits(x)
        PROVE  LeavesWithinBudget'
    <3>1. \A x \in tiles' : Fits(x)
      BY <2>1, <2>2
    <3>2. \A x : Fits(x)' <=> Fits(x)
      BY <2>2 DEF input, NearTriangles
    <3> HIDE DEF Fits
    <3>3. \A x \in tiles' : Fits(x)'
      BY <3>1, <3>2
    <3>4. QED
      BY <3>3 DEF Fits, LeavesWithinBudget
  <2>3. CASE UNCHANGED vars
    BY <2>2, <2>3 DEF vars
  <2>4. ASSUME NEW n \in todo,
               \/ CutPart(n) \/ AllFit(n) \/ Leaf(n)
               \/ Add(n) \/ Replace(n) \/ Indivisible(n)
        PROVE  LeavesWithinBudget'
    <3>1. CASE CutPart(n) \/ AllFit(n)
      BY <2>2, <3>1 DEF CutPart, AllFit
    <3>2. ASSUME NEW drawn, NEW error, NEW c, Finish(n, TileOf(n, drawn, FALSE, error), c)
          PROVE  LeavesWithinBudget'
      <4>1. ~TileOf(n, drawn, FALSE, error).leaf
        BY DEF TileOf
      <4>2. QED
        BY <2>2, <3>2, <4>1 DEF Finish
    <3>3. CASE Add(n)
      BY <3>2, <3>3 DEF Add
    <3>4. CASE Replace(n)
      BY <3>2, <3>4 DEF Replace
    <3> DEFINE tile == TileOf(n, n.parts, TRUE, 0)
    <3>5. /\ tile.drawn = UNION n.parts /\ tile.path = n.path
          /\ tile.group = n.group /\ tile.box = BoxOf(UNION n.parts)
      BY DEF TileOf
    <3>6. n.parts \in SUBSET SUBSET Triangles
      BY DEF PlacedInv, Typed
    <3>7. Cardinality(UNION n.parts) \in Nat
      <4>1. UNION n.parts \subseteq Triangles
        BY <3>6
      <4>2. QED
        BY <4>1, FiniteTriangles, FS_Subset, FS_CardinalityType
    <3> HIDE DEF tile
    <3>8. CASE Leaf(n)
      <4>1. Fits(tile)
        BY <3>5, <3>7, <3>8, ConfigAssumption DEF Leaf, IsLeaf, Count
      <4>2. QED
        BY <2>2, <3>8, <4>1 DEF Leaf, Finish, tile
    <3>9. CASE Indivisible(n)
      <4>1. PICK s \in SplitsOf(n.parts) : s[1] = {} \/ s[2] = {}
        BY <3>9 DEF Indivisible
      <4> DEFINE box == BoxOf(UNION n.parts)
                 a == LongestAxis(box)
      <4>2. Cardinality(UNION n.parts) > Budget =>
                NearTriangles(UNION n.parts, a, Centre2(box, a)) \in {{}, UNION n.parts}
        BY <3>6, <4>1, OnePartLeft
      <4>3. n.group \notin assetIds
        BY <3>9 DEF Indivisible, Additive
      <4>4. Fits(tile)
        BY <3>5, <4>2, <4>3
      <4>5. QED
        BY <2>2, <3>9, <4>4 DEF Indivisible, Finish, tile
    <3>10. QED
      BY <2>4, <3>1, <3>3, <3>4, <3>8, <3>9
  <2>5. QED
    BY <2>3, <2>4 DEF Next
<1>3. PlacedInv /\ [Next]_vars => PlacedInv'
  BY PlacedStep
<1>4. QED
  BY InitPlaced, <1>1, <1>2, <1>3, PTL DEF Spec

-----------------------------------------------------------------------------
\* Boxes and errors

\* Induction over a finite set, as a statement about a set of its subsets.
LEMMA SetInduction ==
  ASSUME NEW S, IsFiniteSet(S), NEW Good,
         \A T \in SUBSET S : (\A x \in T : T \ {x} \in Good) => T \in Good
  PROVE  S \in Good
<1>. DEFINE Bad == (SUBSET S) \ Good
<1>1. SUFFICES ASSUME Bad # {} PROVE FALSE
  OBVIOUS
<1>2. PICK T \in Bad : \A U \in Bad : ~ (<<U, T>> \in StrictSubsetOrdering(S))
  <2>1. IsWellFoundedOn(StrictSubsetOrdering(S), SUBSET S)
    BY FS_StrictSubsetOrderingWellFounded, FS_FiniteSubsetsOfFinite
  <2>2. Bad \subseteq SUBSET S
    OBVIOUS
  <2>. HIDE DEF Bad
  <2>. QED BY <1>1, <2>1, <2>2, WFMin
<1>3. ASSUME NEW x \in T PROVE T \ {x} \in Good
  <2>. DEFINE U == T \ {x}
  <2>1. U \in SUBSET S /\ T \in SUBSET S /\ U \subseteq T /\ U # T
    OBVIOUS
  <2>2. <<U, T>> \in StrictSubsetOrdering(S)
    <3>. HIDE DEF U
    <3>. QED BY <2>1 DEF StrictSubsetOrdering
  <2>. QED BY <1>2, <2>1, <2>2
<1>. QED BY <1>2, <1>3

\* A finite set of integers has a least and a greatest member.
LEMMA Bounded ==
  ASSUME NEW S, IsFiniteSet(S), S \subseteq Int
  PROVE  S = {} \/ /\ \E x \in S : \A y \in S : x =< y
                   /\ \E x \in S : \A y \in S : x >= y
<1>. DEFINE Has(T) == T = {} \/ /\ \E x \in T : \A y \in T : x =< y
                                /\ \E x \in T : \A y \in T : x >= y
            Good == {T \in SUBSET S : Has(T)}
<1>1. ASSUME NEW T \in SUBSET S, \A x \in T : T \ {x} \in Good PROVE T \in Good
  <2>. SUFFICES ASSUME T # {} PROVE Has(T)
    OBVIOUS
  <2>1. PICK z \in T : TRUE
    OBVIOUS
  <2>. DEFINE R == T \ {z}
  <2>2. Has(R)
    BY <1>1
  <2>3. T = R \cup {z} /\ z \in Int /\ R \subseteq Int
    OBVIOUS
  <2>. HIDE DEF R
  <2>4. CASE R = {}
    BY <2>3, <2>4
  <2>5. CASE R # {}
    <3>1. PICK l \in R : \A y \in R : l =< y
      BY <2>2, <2>5
    <3>2. PICK h \in R : \A y \in R : h >= y
      BY <2>2, <2>5
    <3>3. \E x \in T : \A y \in T : x =< y
      <4>1. CASE z =< l
        BY <2>3, <3>1, <4>1
      <4>2. CASE ~(z =< l)
        BY <2>3, <3>1, <4>2
      <4>. QED BY <4>1, <4>2
    <3>4. \E x \in T : \A y \in T : x >= y
      <4>1. CASE z >= h
        BY <2>3, <3>2, <4>1
      <4>2. CASE ~(z >= h)
        BY <2>3, <3>2, <4>2
      <4>. QED BY <4>1, <4>2
    <3>. QED BY <3>3, <3>4
  <2>. QED BY <2>4, <2>5
<1>. HIDE DEF Good
<1>2. S \in Good
  BY <1>1, SetInduction
<1>. QED BY <1>2 DEF Good

\* So Min and Max of one are what their names say.
LEMMA MinMax ==
  ASSUME NEW S, IsFiniteSet(S), S \subseteq Int, S # {}
  PROVE  /\ Min(S) \in S /\ \A y \in S : Min(S) <= y
         /\ Max(S) \in S /\ \A y \in S : y <= Max(S)
<1>1. \E x \in S : \A y \in S : x =< y
  BY Bounded
<1>2. \E x \in S : \A y \in S : x >= y
  BY Bounded
<1>3. Min(S) \in S /\ \A y \in S : Min(S) =< y
  BY <1>1 DEF Min
<1>4. Max(S) \in S /\ \A y \in S : Max(S) >= y
  BY <1>2 DEF Max
<1>. QED BY <1>3, <1>4

\* No axis of a box is inside out.
IsBox(box) ==
    \A a \in Axes : box.lo[a] \in Int /\ box.hi[a] \in Int /\ box.lo[a] <= box.hi[a]

\* The bounds of some triangles are a box with each of them inside.
LEMMA BoxHolds ==
  ASSUME shape \in [Triangles -> Shapes], NEW S \in SUBSET Triangles, S # {}
  PROVE  /\ IsBox(BoxOf(S))
         /\ \A t \in S : Inside(shape[t], BoxOf(S))
         /\ \A a \in Axes : /\ \E t \in S : BoxOf(S).lo[a] = shape[t].lo[a]
                            /\ \E t \in S : BoxOf(S).hi[a] = shape[t].hi[a]
<1>1. IsFiniteSet(S)
  BY FiniteTriangles, FS_Subset
<1>2. ASSUME NEW a \in Axes
      PROVE  /\ BoxOf(S).lo[a] \in {shape[t].lo[a] : t \in S}
             /\ \A t \in S : BoxOf(S).lo[a] <= shape[t].lo[a]
             /\ BoxOf(S).hi[a] \in {shape[t].hi[a] : t \in S}
             /\ \A t \in S : shape[t].hi[a] <= BoxOf(S).hi[a]
  <2>. DEFINE L == {shape[t].lo[a] : t \in S}
              H == {shape[t].hi[a] : t \in S}
  <2>1. IsFiniteSet(L) /\ IsFiniteSet(H)
    <3>. DEFINE f == [t \in S |-> shape[t].lo[a]]
                g == [t \in S |-> shape[t].hi[a]]
    <3>1. L = {f[t] : t \in S} /\ H = {g[t] : t \in S}
      OBVIOUS
    <3>2. f \in Surjection(S, L) /\ g \in Surjection(S, H)
      BY DEF Surjection
    <3>. HIDE DEF f, g, L, H
    <3>. QED BY <1>1, <3>2, FS_Surjection
  <2>2. L \subseteq Int /\ H \subseteq Int /\ L # {} /\ H # {}
    BY ShapesAssumption
  <2>3. BoxOf(S).lo[a] = Min(L) /\ BoxOf(S).hi[a] = Max(H)
    BY DEF BoxOf
  <2>4. \A t \in S : shape[t].lo[a] \in L /\ shape[t].hi[a] \in H
    OBVIOUS
  <2>. HIDE DEF L, H
  <2>5. Min(L) \in L /\ \A y \in L : Min(L) <= y
    BY <2>1, <2>2, MinMax
  <2>6. Max(H) \in H /\ \A y \in H : y <= Max(H)
    BY <2>1, <2>2, MinMax
  <2>. QED BY <2>3, <2>4, <2>5, <2>6 DEF L, H
<1>3. ASSUME NEW a \in Axes
      PROVE  BoxOf(S).lo[a] \in Int /\ BoxOf(S).hi[a] \in Int
             /\ BoxOf(S).lo[a] <= BoxOf(S).hi[a]
  <2>1. PICK t \in S : BoxOf(S).lo[a] = shape[t].lo[a]
    BY <1>2
  <2>2. PICK u \in S : BoxOf(S).hi[a] = shape[u].hi[a]
    BY <1>2
  <2>3. shape[t] \in Shapes /\ shape[u] \in Shapes
    OBVIOUS
  <2>4. shape[t].hi[a] <= BoxOf(S).hi[a]
    BY <1>2
  <2>. QED BY <2>1, <2>2, <2>3, <2>4, ShapesAssumption
<1>. QED BY <1>2, <1>3 DEF IsBox, Inside

\* The bounds of fewer triangles lie inside.
LEMMA BoxesNest ==
  ASSUME shape \in [Triangles -> Shapes], NEW S \in SUBSET Triangles,
         NEW T \in SUBSET S, T # {}
  PROVE  Inside(BoxOf(T), BoxOf(S))
<1>1. ASSUME NEW a \in Axes
      PROVE  BoxOf(S).lo[a] <= BoxOf(T).lo[a] /\ BoxOf(T).hi[a] <= BoxOf(S).hi[a]
  <2>1. S # {} /\ T \in SUBSET Triangles
    OBVIOUS
  <2>2. PICK t \in T : BoxOf(T).lo[a] = shape[t].lo[a]
    BY <2>1, BoxHolds
  <2>3. PICK u \in T : BoxOf(T).hi[a] = shape[u].hi[a]
    BY <2>1, BoxHolds
  <2>4. Inside(shape[t], BoxOf(S)) /\ Inside(shape[u], BoxOf(S))
    BY <2>1, BoxHolds
  <2>. QED BY <2>2, <2>3, <2>4 DEF Inside
<1>. QED BY <1>1 DEF Inside

\* The function FoldFunction picks: f added up over each set, one by one.
IsFold(g, f, S) == LET pick(T) == CHOOSE x \in T : TRUE IN
  g = [T \in SUBSET S |-> IF T = {} THEN 0 ELSE f[pick(T)] + g[T \ {pick(T)}]]

\* FoldFunction adds with a function defined by recursion on the subsets.
LEMMA FoldUnfolds ==
  ASSUME NEW f
  PROVE  FoldFunction(+, 0, f) = (CHOOSE g : IsFold(g, f, DOMAIN f))[DOMAIN f]
BY DEF FoldFunction, FoldFunctionOnSet, MapThenFoldSet, IsFold

\* Over two axes it is the sum of the two.
LEMMA FoldOfTwo ==
  ASSUME NEW f, DOMAIN f = Axes, f[1] \in Int, f[2] \in Int
  PROVE  FoldFunction(+, 0, f) = f[1] + f[2]
<1>. DEFINE pick(T) == CHOOSE x \in T : TRUE
            h == [T \in SUBSET Axes |-> IF T = {} THEN 0 ELSE IF T = {1} THEN f[1]
                                        ELSE IF T = {2} THEN f[2] ELSE f[1] + f[2]]
            g == CHOOSE g : IsFold(g, f, Axes)
<1>1. \A T \in SUBSET Axes : T = {} \/ T = {1} \/ T = {2} \/ T = {1, 2}
  BY DEF Axes
<1>2. pick({1}) = 1 /\ pick({2}) = 2 /\ (pick({1, 2}) = 1 \/ pick({1, 2}) = 2)
  <2>1. pick({1, 2}) \in {1, 2}
    OBVIOUS
  <2>. QED BY <2>1
<1>3. {1} \ {1} = {} /\ {2} \ {2} = {} /\ {1, 2} \ {1} = {2} /\ {1, 2} \ {2} = {1}
  OBVIOUS
<1>4. {} \in SUBSET Axes /\ {1} \in SUBSET Axes /\ {2} \in SUBSET Axes /\ {1, 2} \in SUBSET Axes
  BY DEF Axes
<1>5. h[{}] = 0 /\ h[{1}] = f[1] /\ h[{2}] = f[2] /\ h[{1, 2}] = f[1] + f[2]
  BY <1>4
<1>. DEFINE v(k, T) == IF T = {} THEN 0 ELSE f[pick(T)] + k[T \ {pick(T)}]
<1>. HIDE DEF pick
<1>6. ASSUME NEW T \in SUBSET Axes PROVE h[T] = v(h, T)
  <2>. HIDE DEF h
  <2>1. CASE T = {}
    BY <1>5, <2>1
  <2>2. CASE T = {1}
    <3>1. pick(T) = 1 /\ T \ {pick(T)} = {} /\ T # {}
      BY <1>2, <1>3, <2>2
    <3>2. v(h, T) = f[1] + h[{}]
      BY <3>1
    <3>. QED BY <1>5, <2>2, <3>2
  <2>3. CASE T = {2}
    <3>1. pick(T) = 2 /\ T \ {pick(T)} = {} /\ T # {}
      BY <1>2, <1>3, <2>3
    <3>2. v(h, T) = f[2] + h[{}]
      BY <3>1
    <3>. QED BY <1>5, <2>3, <3>2
  <2>4. CASE T = {1, 2}
    <3>1. CASE pick(T) = 1
      <4>1. T \ {pick(T)} = {2} /\ T # {}
        BY <1>3, <2>4, <3>1
      <4>2. v(h, T) = f[1] + h[{2}]
        BY <3>1, <4>1
      <4>. QED BY <1>5, <2>4, <4>2
    <3>2. CASE pick(T) = 2
      <4>1. T \ {pick(T)} = {1} /\ T # {}
        BY <1>3, <2>4, <3>2
      <4>2. v(h, T) = f[2] + h[{1}]
        BY <3>2, <4>1
      <4>. QED BY <1>5, <2>4, <4>2
    <3>. QED BY <1>2, <2>4, <3>1, <3>2
  <2>. QED BY <1>1, <2>1, <2>2, <2>3, <2>4
<1>7. h = [T \in SUBSET Axes |-> v(h, T)]
  <2>. HIDE DEF v
  <2>1. h = [T \in SUBSET Axes |-> h[T]]
    OBVIOUS
  <2>. HIDE DEF h
  <2>. QED BY <1>6, <2>1
<1>8. IsFold(h, f, Axes)
  BY <1>7 DEF IsFold, pick
<1>9. IsFold(g, f, Axes)
  <2>. HIDE DEF h
  <2>. QED BY <1>8
<1>10. g = [T \in SUBSET Axes |-> v(g, T)]
  <2>. HIDE DEF g
  <2>. QED BY <1>9 DEF IsFold, pick
<1>. HIDE DEF g, h
<1>11. \A T \in SUBSET Axes : g[T] = v(g, T)
  <2>. HIDE DEF v
  <2>. QED BY <1>10
<1>12. g[{}] = 0
  BY <1>4, <1>11
<1>13. g[{1}] = f[1] /\ g[{2}] = f[2]
  BY <1>2, <1>3, <1>4, <1>11, <1>12
<1>14. g[{1, 2}] = f[1] + f[2]
  <2>1. g[{1, 2}] = f[pick({1, 2})] + g[{1, 2} \ {pick({1, 2})}]
    BY <1>4, <1>11
  <2>2. CASE pick({1, 2}) = 1
    <3>1. g[{1, 2}] = f[1] + g[{2}]
      BY <1>3, <2>1, <2>2
    <3>. QED BY <1>13, <3>1
  <2>3. CASE pick({1, 2}) = 2
    <3>1. g[{1, 2}] = f[2] + g[{1}]
      BY <1>3, <2>1, <2>3
    <3>. QED BY <1>13, <3>1
  <2>. QED BY <1>2, <2>2, <2>3
<1>15. FoldFunction(+, 0, f) = g[Axes]
  BY FoldUnfolds DEF g
<1>. QED BY <1>14, <1>15 DEF Axes

\* A box inside another has no larger error.
LEMMA ErrorsNest ==
  ASSUME NEW b, IsBox(b)
  PROVE  /\ Error(b) \in Nat
         /\ \A c : IsBox(c) /\ Inside(b, c) => Error(b) <= Error(c)
<1>. DEFINE e(c, a) == Extent(c, a)
<1>1. \A c : IsBox(c) => /\ e(c, 1) \in Nat /\ e(c, 2) \in Nat
                         /\ Error(c) = e(c, 1) * e(c, 1) + e(c, 2) * e(c, 2)
  <2>. SUFFICES ASSUME NEW c, IsBox(c)
       PROVE  /\ e(c, 1) \in Nat /\ e(c, 2) \in Nat
              /\ Error(c) = e(c, 1) * e(c, 1) + e(c, 2) * e(c, 2)
    OBVIOUS
  <2>1. e(c, 1) \in Nat /\ e(c, 2) \in Nat
    BY DEF IsBox, Extent, Axes
  <2>. DEFINE f == [a \in Axes |-> e(c, a) * e(c, a)]
  <2>. HIDE DEF e
  <2>2. f[1] = e(c, 1) * e(c, 1) /\ f[2] = e(c, 2) * e(c, 2) /\ DOMAIN f = Axes
    BY DEF Axes
  <2>3. f[1] \in Int /\ f[2] \in Int
    BY <2>1, <2>2
  <2>4. Error(c) = FoldFunction(+, 0, f)
    BY DEF Error, e
  <2>. HIDE DEF f
  <2>5. FoldFunction(+, 0, f) = f[1] + f[2]
    BY <2>2, <2>3, FoldOfTwo
  <2>. QED BY <2>1, <2>2, <2>4, <2>5
<1>2. \A c : IsBox(c) /\ Inside(b, c) => e(b, 1) <= e(c, 1) /\ e(b, 2) <= e(c, 2)
  BY DEF IsBox, Inside, Extent, Axes
<1>. HIDE DEF e
<1>3. \A x, y \in Nat : x <= y => x * x <= y * y /\ x * x \in Nat
  <2>. SUFFICES ASSUME NEW x \in Nat, NEW y \in Nat, x <= y
       PROVE  x * x <= y * y /\ x * x \in Nat
    OBVIOUS
  <2>1. PICK d \in Nat : y = x + d
    <3>1. y - x \in Nat /\ y = x + (y - x)
      OBVIOUS
    <3>. QED BY <3>1
  <2>2. (x + d) * (x + d) = x * x + (2 * (x * d) + d * d)
    OBVIOUS
  <2>3. x * x \in Nat /\ x * d \in Nat /\ d * d \in Nat
    OBVIOUS
  <2>. QED BY <2>1, <2>2, <2>3
<1>4. Error(b) \in Nat
  BY <1>1, <1>3
<1>5. ASSUME NEW c, IsBox(c), Inside(b, c) PROVE Error(b) <= Error(c)
  <2>1. /\ e(b, 1) * e(b, 1) <= e(c, 1) * e(c, 1) /\ e(b, 2) * e(b, 2) <= e(c, 2) * e(c, 2)
    BY <1>1, <1>2, <1>3, <1>5
  <2>2. /\ e(b, 1) * e(b, 1) \in Nat /\ e(b, 2) * e(b, 2) \in Nat
        /\ e(c, 1) * e(c, 1) \in Nat /\ e(c, 2) * e(c, 2) \in Nat
    BY <1>1, <1>3, <1>5
  <2>. QED BY <1>1, <1>5, <2>1, <2>2
<1>. QED BY <1>4, <1>5

\* A piece of a part has no larger error than the part.
LEMMA PartErrorsNest ==
  ASSUME shape \in [Triangles -> Shapes], NEW p \in SUBSET Triangles,
         NEW q \in SUBSET p, q # {}
  PROVE  PartError(q) \in Nat /\ PartError(p) \in Nat /\ PartError(q) <= PartError(p)
<1>1. IsBox(BoxOf(q)) /\ IsBox(BoxOf(p)) /\ p # {}
  BY BoxHolds
<1>2. Inside(BoxOf(q), BoxOf(p))
  BY BoxesNest
<1>. QED BY <1>1, <1>2, ErrorsNest DEF PartError

-----------------------------------------------------------------------------
\* Paths

\* The path p leads to q or through it to more.
Leads(p, q) == Len(p) <= Len(q) /\ \A i \in 1 .. Len(p) : q[i] = p[i]

\* A parent's path leads to its child's.
LEMMA ParentLeads ==
  ASSUME NEW x, NEW y, x.path \in Seq(Nat), y.path \in Seq(Nat), IsParent(x, y)
  PROVE  Leads(x.path, y.path) /\ Len(y.path) = Len(x.path) + 1
<1>. DEFINE p == x.path
            q == y.path
<1>1. Len(q) = Len(p) + 1 /\ SubSeq(q, 1, Len(p)) = p /\ p \in Seq(Nat) /\ q \in Seq(Nat)
  BY DEF IsParent
<1>. HIDE DEF p, q
<1>2. ASSUME NEW i \in 1 .. Len(p) PROVE q[i] = p[i]
  BY <1>1
<1>. QED BY <1>1, <1>2 DEF Leads, p, q

\* How a path relates to the two its call makes.
LEMMA ChildPaths ==
  ASSUME NEW p \in Seq(Nat), NEW q \in Seq(Nat), NEW s \in Nat
  PROVE  /\ Leads(Append(p, s), q) => Leads(p, q)
         /\ Leads(q, Append(p, s)) => Leads(q, p) \/ Leads(p, q)
         /\ ~Leads(Append(p, s), p)
         /\ \A t \in Nat : Leads(Append(p, s), Append(p, t)) => s = t
<1>. DEFINE c == Append(p, s)
<1>1. /\ c \in Seq(Nat) /\ Len(c) = Len(p) + 1 /\ c[Len(p) + 1] = s
      /\ \A i \in 1 .. Len(p) : c[i] = p[i]
  OBVIOUS
<1>2. \A t \in Nat : Append(p, t)[Len(p) + 1] = t
  OBVIOUS
<1>. HIDE DEF c
<1>3. Len(p) \in Nat /\ Len(q) \in Nat
  OBVIOUS
<1>4. Leads(c, q) => Leads(p, q)
  BY <1>1, <1>3 DEF Leads
<1>5. Leads(q, c) => Leads(q, p) \/ Leads(p, q)
  <2>1. CASE Len(q) <= Len(p)
    BY <1>1, <1>3, <2>1 DEF Leads
  <2>2. CASE ~(Len(q) <= Len(p))
    BY <1>1, <1>3, <2>2 DEF Leads
  <2>. QED BY <2>1, <2>2
<1>6. ~Leads(c, p)
  BY <1>1, <1>3 DEF Leads
<1>7. ASSUME NEW t \in Nat, Leads(c, Append(p, t)) PROVE s = t
  <2>1. Len(p) + 1 \in 1 .. Len(c)
    BY <1>1, <1>3
  <2>2. Append(p, t)[Len(p) + 1] = c[Len(p) + 1]
    BY <1>7, <2>1 DEF Leads
  <2>. QED BY <1>1, <1>2, <2>2
<1>. QED BY <1>4, <1>5, <1>6, <1>7 DEF c

\* A call's parts are never empty, and it has some.
Solid(parts) == parts # {} /\ {} \notin parts

\* What a call knows of the tile it hangs below.
Below(x, n) == IsParent(x, n) =>
    /\ Inside(BoxOf(Load(n)), x.box)
    /\ x.group \in assetIds => \A p \in n.parts : PartError(p) <= x.error

\* What two tiles satisfy when one hangs below the other.
Nested(x, y) == IsParent(x, y) =>
    /\ Inside(y.box, x.box)
    /\ x.group \in assetIds => y.error <= x.error

Calls == [group : Groups, path : Seq(Nat),
          parts : SUBSET SUBSET Triangles, fitted : BOOLEAN]

TileTyped(x) == /\ x.group \in Groups /\ x.path \in Seq(Nat) /\ x.error \in Nat
                /\ x.drawn \subseteq Triangles /\ x.leaf \in BOOLEAN

\* A call is not yet written: no tile and no other call is at its path or below
\* it.  One that is not fitted is alone in its group.
Alone(n) ==
    /\ \A x \in tiles : x.group = n.group => ~Leads(n.path, x.path) /\ n.fitted
    /\ \A m \in todo : m.group = n.group /\ m # n => ~Leads(n.path, m.path) /\ n.fitted

TreeInv ==
    /\ Typed /\ shape \in [Triangles -> Shapes] /\ assetIds \subseteq Groups
    /\ \A x \in tiles : TileTyped(x)
    /\ \A n \in todo : Solid(n.parts) /\ Alone(n) /\ \A x \in tiles : Below(x, n)
    /\ \A x, y \in tiles : Nested(x, y)

\* Every part after a split is a piece of one before it, and no part is empty.
LEMMA SplitPieces ==
  ASSUME NEW parts \in SUBSET SUBSET Triangles, {} \notin parts, NEW s \in SplitsOf(parts)
  PROVE  \A p \in s[1] \cup s[2] : p # {} /\ \E q \in parts : p \subseteq q
<1>. DEFINE box == BoxOf(UNION parts)
            a == LongestAxis(box)
            near == NearParts(parts, a, Centre2(box, a))
            far == FarParts(parts, a, Centre2(box, a))
<1>1. s \in {<<counted, parts \ counted>> : counted \in CountedNears(parts, a)}
         \/ s = <<near, far>>
  BY DEF SplitsOf
<1>2. CASE s = <<near, far>>
  <2>1. \A p \in near : p # {} /\ \E q \in parts : p \subseteq q
    BY NearIsPart DEF NearParts
  <2>2. \A p \in far : p # {} /\ \E q \in parts : p \subseteq q
    BY DEF FarParts
  <2>. HIDE DEF near, far
  <2>. QED BY <1>2, <2>1, <2>2
<1>3. CASE s \in {<<counted, parts \ counted>> : counted \in CountedNears(parts, a)}
  <2>1. PICK counted \in CountedNears(parts, a) : s = <<counted, parts \ counted>>
    BY <1>3
  <2>2. counted \in SUBSET parts
    BY DEF CountedNears
  <2>. QED BY <2>1, <2>2
<1>. QED BY <1>1, <1>2, <1>3

\* The bounds and errors depend on the input alone.
LEMMA InputFixes ==
  ASSUME UNCHANGED input
  PROVE  /\ \A S : BoxOf(S)' = BoxOf(S)
         /\ \A p : PartError(p)' = PartError(p)
         /\ \A x, n : Below(x, n)' <=> Below(x, n)
         /\ \A x, y : Nested(x, y)' <=> Nested(x, y)
<1>1. shape' = shape /\ assetIds' = assetIds
  BY DEF input
<1>2. \A S : BoxOf(S)' = BoxOf(S)
  BY <1>1 DEF BoxOf
<1>3. \A p : PartError(p)' = PartError(p)
  <2>. SUFFICES ASSUME NEW p PROVE PartError(p)' = PartError(p)
    OBVIOUS
  <2>1. PartError(p) = Error(BoxOf(p)) /\ PartError(p)' = Error(BoxOf(p)')
    BY DEF PartError
  <2>2. BoxOf(p)' = BoxOf(p)
    BY <1>2
  <2>. QED BY <2>1, <2>2
<1>4. \A x, n : Below(x, n)' <=> Below(x, n)
  BY <1>1, <1>2, <1>3 DEF Below, IsParent, Inside, Load
<1>5. \A x, y : Nested(x, y)' <=> Nested(x, y)
  BY <1>1 DEF Nested, IsParent, Inside
<1>. QED BY <1>2, <1>3, <1>4, <1>5

\* The children a split makes: fitted, one step below, of pieces of its parts.
LEMMA ChildrenAre ==
  ASSUME TreeInv, NEW n \in todo, NEW parts \in SUBSET n.parts, NEW s \in SplitsOf(parts),
         NEW c \in Children(n, s[1], s[2])
  PROVE  /\ c \in Calls /\ c.group = n.group /\ c.fitted
         /\ \E i \in {0, 1} : c.path = Append(n.path, i)
         /\ Solid(c.parts) /\ c.parts \in SUBSET SUBSET Triangles
         /\ \A p \in c.parts : \E q \in parts : p \subseteq q
         /\ \A d \in Children(n, s[1], s[2]) : d.path = c.path => d = c
<1>1. n.parts \in SUBSET SUBSET Triangles /\ {} \notin n.parts /\ n.path \in Seq(Nat)
  BY DEF TreeInv, Typed, Solid
<1>2. \A p \in s[1] \cup s[2] : p # {} /\ \E q \in parts : p \subseteq q
  BY <1>1, SplitPieces
<1>. DEFINE l == Child(n, 0, s[1])
            r == Child(n, 1, s[2])
<1>3. /\ l.group = n.group /\ l.path = Append(n.path, 0) /\ l.parts = s[1] /\ l.fitted
      /\ r.group = n.group /\ r.path = Append(n.path, 1) /\ r.parts = s[2] /\ r.fitted
  BY DEF Child, Node
<1>4. \A d \in Children(n, s[1], s[2]) : (d = l \/ d = r) /\ d.parts # {}
  BY DEF Children
<1>5. Append(n.path, 0) # Append(n.path, 1)
  <2>1. Append(n.path, 0)[Len(n.path) + 1] = 0 /\ Append(n.path, 1)[Len(n.path) + 1] = 1
    BY <1>1
  <2>. QED BY <2>1
<1>. HIDE DEF l, r
<1>6. c.parts \subseteq s[1] \cup s[2] /\ c.parts # {}
  BY <1>3, <1>4
<1>7. \A p \in c.parts : p # {} /\ \E q \in parts : p \subseteq q
  BY <1>2, <1>6
<1>8. c.parts \in SUBSET SUBSET Triangles
  <2>1. \A p \in c.parts : p \subseteq Triangles
    BY <1>1, <1>7
  <2>. QED BY <2>1
<1>9. c \in Calls
  <2>1. n.group \in Groups
    BY DEF TreeInv, Typed
  <2>2. c = [group |-> c.group, path |-> c.path, parts |-> c.parts, fitted |-> c.fitted]
    BY <1>4 DEF l, r, Child, Node
  <2>3. c.path \in Seq(Nat)
    <3>1. Append(n.path, 0) \in Seq(Nat) /\ Append(n.path, 1) \in Seq(Nat)
      BY <1>1
    <3>. QED BY <1>3, <1>4, <3>1
  <2>. QED BY <1>3, <1>4, <1>8, <2>1, <2>2, <2>3 DEF Calls
<1>. QED BY <1>3, <1>4, <1>5, <1>6, <1>7, <1>8, <1>9 DEF Solid

-----------------------------------------------------------------------------
\* Steps

\* The tile and the calls that take the place of a fitted call.
Succeeds(n, tile, C) ==
    /\ n.fitted
    /\ tile.group = n.group /\ tile.path = n.path /\ tile.error \in Nat
    /\ tile.drawn \subseteq Triangles /\ tile.leaf \in BOOLEAN
    /\ tile.box = BoxOf(Load(n))
    /\ \A x \in tiles : IsParent(x, tile) /\ x.group \in assetIds => tile.error <= x.error
    /\ \A c \in C :
          /\ c \in Calls
          /\ c.group = n.group /\ c.fitted /\ \E i \in {0, 1} : c.path = Append(n.path, i)
          /\ Solid(c.parts) /\ \A p \in c.parts : \E q \in n.parts : p \subseteq q
          /\ n.group \in assetIds => \A p \in c.parts : PartError(p) <= tile.error
          /\ \A d \in C : d.path = c.path => d = c

\* Where the new calls and the new tile stand among the others.
LEMMA SuccessorPaths ==
  ASSUME TreeInv, NEW n \in todo, NEW tile, NEW C, Succeeds(n, tile, C), NEW c \in C
  PROVE  /\ \A x \in tiles : x.group = n.group =>
                ~Leads(c.path, x.path) /\ ~IsParent(x, c)
         /\ ~Leads(c.path, tile.path)
         /\ \A m \in todo : m.group = n.group /\ m # n =>
                ~Leads(c.path, m.path) /\ ~Leads(m.path, c.path)
         /\ \A d \in C : d # c => ~Leads(c.path, d.path)
<1>0. PICK i \in {0, 1} : c.path = Append(n.path, i)
  BY DEF Succeeds
<1>1. /\ n.path \in Seq(Nat) /\ i \in Nat /\ Alone(n)
      /\ \A x \in tiles : x.path \in Seq(Nat)
      /\ \A m \in todo : m.path \in Seq(Nat) /\ Alone(m)
  BY DEF TreeInv, Typed, TileTyped
<1>10. c.path \in Seq(Nat)
  BY <1>0, <1>1
<1>2. ASSUME NEW q \in Seq(Nat), ~Leads(n.path, q) PROVE ~Leads(c.path, q)
  BY <1>0, <1>1, <1>2, ChildPaths
<1>3. ASSUME NEW x \in tiles, x.group = n.group
      PROVE  ~Leads(c.path, x.path) /\ ~IsParent(x, c)
  <2>1. x.path \in Seq(Nat) /\ ~Leads(n.path, x.path)
    BY <1>1, <1>3 DEF Alone
  <2>2. ~Leads(c.path, x.path)
    BY <1>2, <2>1
  <2>3. ASSUME IsParent(x, c) PROVE FALSE
    <3>1. Leads(x.path, c.path) /\ Len(c.path) = Len(x.path) + 1
      BY <1>10, <2>1, <2>3, ParentLeads
    <3>2. Len(n.path) = Len(x.path) /\ \A k \in 1 .. Len(n.path) : c.path[k] = n.path[k]
      BY <1>0, <1>1, <2>1, <3>1
    <3>3. Leads(n.path, x.path)
      BY <3>1, <3>2 DEF Leads
    <3>. QED BY <2>1, <3>3
  <2>. QED BY <2>2, <2>3
<1>4. ~Leads(c.path, tile.path)
  BY <1>0, <1>1, ChildPaths DEF Succeeds
<1>5. ASSUME NEW m \in todo, m.group = n.group, m # n
      PROVE  ~Leads(c.path, m.path) /\ ~Leads(m.path, c.path)
  <2>1. m.path \in Seq(Nat) /\ ~Leads(n.path, m.path) /\ ~Leads(m.path, n.path)
    BY <1>1, <1>5 DEF Alone
  <2>. QED BY <1>0, <1>1, <2>1, ChildPaths
<1>6. ASSUME NEW d \in C, d # c PROVE ~Leads(c.path, d.path)
  <2>1. PICK j \in {0, 1} : d.path = Append(n.path, j)
    BY DEF Succeeds
  <2>2. d.path # c.path
    BY <1>6 DEF Succeeds
  <2>3. i # j /\ j \in Nat
    BY <1>0, <2>1, <2>2
  <2>. QED BY <1>0, <1>1, <2>1, <2>3, ChildPaths
<1>. QED BY <1>3, <1>4, <1>5, <1>6

\* A new call hangs below the new tile, and below no other.
LEMMA SuccessorBelow ==
  ASSUME TreeInv, NEW n \in todo, NEW tile, NEW C, Succeeds(n, tile, C), NEW c \in C
  PROVE  Below(tile, c) /\ \A x \in tiles : Below(x, c)
<1>1. \A x \in tiles : Below(x, c)
  <2>1. ASSUME NEW x \in tiles, IsParent(x, c) PROVE FALSE
    <3>1. c.group = n.group
      BY DEF Succeeds
    <3>2. x.group = n.group
      BY <2>1, <3>1 DEF IsParent
    <3>. QED BY <2>1, <3>2, SuccessorPaths
  <2>. QED BY <2>1 DEF Below
<1>2. Inside(BoxOf(Load(c)), tile.box)
  <2>1. shape \in [Triangles -> Shapes] /\ n.parts \in SUBSET SUBSET Triangles
    BY DEF TreeInv, Typed
  <2>2. \A p \in c.parts : \E q \in n.parts : p \subseteq q
    BY DEF Succeeds
  <2>3. Load(c) \subseteq Load(n)
    BY <2>2 DEF Load
  <2>4. Load(n) \subseteq Triangles
    BY <2>1 DEF Load
  <2>5. Load(c) # {}
    <3>1. Solid(c.parts)
      BY DEF Succeeds
    <3>2. PICK p \in c.parts : p # {}
      BY <3>1 DEF Solid
    <3>. QED BY <3>2 DEF Load
  <2>6. Inside(BoxOf(Load(c)), BoxOf(Load(n)))
    BY <2>1, <2>3, <2>4, <2>5, BoxesNest
  <2>. QED BY <2>6 DEF Succeeds
<1>3. tile.group \in assetIds => \A p \in c.parts : PartError(p) <= tile.error
  BY DEF Succeeds
<1>. QED BY <1>1, <1>2, <1>3 DEF Below

\* Writing a tile and making the calls below it keeps the tree.
LEMMA FinishTree ==
  ASSUME TreeInv, NEW n \in todo, NEW tile, NEW C, Succeeds(n, tile, C), Finish(n, tile, C)
  PROVE  TreeInv'
<1>1. /\ todo' = (todo \ {n}) \cup C /\ tiles' = tiles \cup {tile} /\ UNCHANGED input
  BY DEF Finish
<1>2. /\ UNCHANGED <<shape, element, material, assetIds>>
      /\ \A x, m : Below(x, m)' <=> Below(x, m)
      /\ \A x, y : Nested(x, y)' <=> Nested(x, y)
  BY <1>1, InputFixes DEF input
<1>3. /\ n.path \in Seq(Nat) /\ Alone(n)
      /\ \A m \in todo : m.path \in Seq(Nat) /\ Solid(m.parts) /\ Alone(m)
                         /\ \A x \in tiles : Below(x, m)
      /\ \A x \in tiles : TileTyped(x) /\ \A y \in tiles : Nested(x, y)
  BY DEF TreeInv, Typed
<1>4. Typed' /\ shape' \in [Triangles -> Shapes] /\ assetIds' \subseteq Groups
  <2>1. C \subseteq Calls
    BY DEF Succeeds
  <2>. QED BY <1>1, <1>2, <2>1 DEF TreeInv, Typed, Calls
<1>5. TileTyped(tile)
  <2>1. n.group \in Groups
    BY DEF TreeInv, Typed
  <2>. QED BY <1>3, <2>1 DEF TileTyped, Succeeds
<1>6. ASSUME NEW m \in todo, m # n PROVE Alone(m)'
  <2>1. ASSUME NEW x \in tiles', x.group = m.group
        PROVE  ~Leads(m.path, x.path) /\ m.fitted
    <3>1. CASE x \in tiles
      BY <1>3, <2>1, <3>1 DEF Alone
    <3>2. CASE x = tile
      BY <1>3, <1>6, <2>1, <3>2 DEF Alone, Succeeds
    <3>. QED BY <1>1, <3>1, <3>2
  <2>2. ASSUME NEW k \in todo', k.group = m.group, k # m
        PROVE  ~Leads(m.path, k.path) /\ m.fitted
    <3>1. CASE k \in todo
      BY <1>3, <2>2, <3>1 DEF Alone
    <3>2. CASE k \in C
      <4>1. k.group = n.group
        BY <3>2 DEF Succeeds
      <4>2. ~Leads(m.path, k.path)
        BY <1>6, <2>2, <3>2, <4>1, SuccessorPaths
      <4>3. m.fitted
        BY <1>3, <1>6, <2>2, <4>1 DEF Alone
      <4>. QED BY <4>2, <4>3
    <3>. QED BY <1>1, <3>1, <3>2
  <2>. QED BY <2>1, <2>2 DEF Alone
<1>7. ASSUME NEW c \in C PROVE Alone(c)'
  <2>0. c.fitted /\ c.group = n.group
    BY DEF Succeeds
  <2>1. ASSUME NEW x \in tiles', x.group = c.group PROVE ~Leads(c.path, x.path)
    BY <1>1, <2>0, <2>1, SuccessorPaths
  <2>2. ASSUME NEW k \in todo', k.group = c.group, k # c PROVE ~Leads(c.path, k.path)
    BY <1>1, <2>0, <2>2, SuccessorPaths
  <2>. QED BY <2>0, <2>1, <2>2 DEF Alone
<1>8. ASSUME NEW m \in todo, m # n, NEW x \in tiles' PROVE Below(x, m)
  <2>1. CASE x \in tiles
    BY <1>3, <2>1
  <2>2. CASE x = tile
    <3>1. ASSUME IsParent(tile, m) PROVE FALSE
      <4>1. tile.group = m.group /\ m.group = n.group
        BY <3>1 DEF IsParent, Succeeds
      <4>2. Leads(n.path, m.path)
        BY <1>3, <1>5, <3>1, ParentLeads DEF TileTyped, Succeeds
      <4>. QED BY <1>3, <1>8, <4>1, <4>2 DEF Alone
    <3>. QED BY <2>2, <3>1 DEF Below
  <2>. QED BY <1>1, <2>1, <2>2
<1>9. ASSUME NEW c \in C, NEW x \in tiles' PROVE Below(x, c)
  BY <1>1, SuccessorBelow
<1>10. ASSUME NEW x \in tiles', NEW y \in tiles' PROVE Nested(x, y)
  <2>1. CASE x \in tiles /\ y \in tiles
    BY <1>3, <2>1
  <2>2. CASE x \in tiles /\ y = tile
    <3>. SUFFICES ASSUME IsParent(x, tile)
         PROVE  Inside(tile.box, x.box) /\ (x.group \in assetIds => tile.error <= x.error)
      BY <2>2 DEF Nested
    <3>1. IsParent(x, n)
      BY DEF IsParent, Succeeds
    <3>2. Inside(BoxOf(Load(n)), x.box)
      BY <1>3, <2>2, <3>1 DEF Below
    <3>. QED BY <2>2, <3>2 DEF Succeeds
  <2>3. CASE x = tile
    <3>1. ASSUME IsParent(tile, y) PROVE FALSE
      <4>1. y.path \in Seq(Nat) /\ y.group = n.group
        BY <1>1, <1>3, <1>5, <3>1 DEF TileTyped, IsParent, Succeeds
      <4>2. Leads(n.path, y.path) /\ Len(y.path) = Len(n.path) + 1
        BY <1>3, <1>5, <3>1, <4>1, ParentLeads DEF TileTyped, Succeeds
      <4>3. CASE y \in tiles
        BY <1>3, <4>1, <4>2, <4>3 DEF Alone
      <4>4. CASE y = tile
        <5>1. Len(n.path) = Len(n.path) + 1 /\ Len(n.path) \in Nat
          BY <1>3, <4>2, <4>4 DEF Succeeds
        <5>. QED BY <5>1
      <4>. QED BY <1>1, <4>3, <4>4
    <3>. QED BY <2>3, <3>1 DEF Nested
  <2>. QED BY <1>1, <2>1, <2>2, <2>3
<1>11. \A x \in tiles' : TileTyped(x)
  BY <1>1, <1>3, <1>5
<1>12. \A m \in todo' : Solid(m.parts) /\ Alone(m)' /\ \A x \in tiles' : Below(x, m)
  <2>1. \A c \in C : Solid(c.parts)
    BY DEF Succeeds
  <2>. QED BY <1>1, <1>3, <1>6, <1>7, <1>8, <1>9, <2>1
<1>13. \A m \in todo' : \A x \in tiles' : Below(x, m)'
  BY <1>2, <1>12
<1>14. \A x, y \in tiles' : Nested(x, y)'
  BY <1>2, <1>10
<1>15. \A m \in todo' : Solid(m.parts)' /\ \A x \in tiles' : TileTyped(x)'
  BY <1>11, <1>12 DEF Solid, TileTyped
<1>16. \A x \in tiles' : TileTyped(x)'
  BY <1>11 DEF TileTyped
<1>. QED BY <1>4, <1>12, <1>13, <1>14, <1>15, <1>16 DEF TreeInv

\* What a step of a fitted call does: it writes a tile and makes the calls below.
Written(n) == \E tile, C : Succeeds(n, tile, C) /\ Finish(n, tile, C)

\* Any of a call's parts are triangles to draw.
LEMMA Drawable ==
  ASSUME TreeInv, NEW n \in todo, NEW drawn \in SUBSET n.parts
  PROVE  UNION drawn \subseteq Triangles
BY DEF TreeInv, Typed

\* A leaf makes no call.
LEMMA LeafWritten ==
  ASSUME TreeInv, NEW n \in todo, n.fitted, Finish(n, TileOf(n, n.parts, TRUE, 0), {})
  PROVE  Written(n)
<1>. DEFINE tile == TileOf(n, n.parts, TRUE, 0)
<1>1. /\ tile.group = n.group /\ tile.path = n.path /\ tile.error = 0
      /\ tile.box = BoxOf(Load(n)) /\ tile.drawn = UNION n.parts /\ tile.leaf \in BOOLEAN
  BY DEF TileOf, Load
<1>4. tile.drawn \subseteq Triangles
  <2>1. n.parts \in SUBSET n.parts
    OBVIOUS
  <2>2. UNION n.parts \subseteq Triangles
    BY <2>1, Drawable
  <2>. QED BY <1>1, <2>2
<1>2. \A x \in tiles : x.error \in Nat
  BY DEF TreeInv, TileTyped
<1>. HIDE DEF tile
<1>3. Succeeds(n, tile, {})
  BY <1>1, <1>2, <1>4 DEF Succeeds
<1>. QED BY <1>3 DEF tile, Written

\* The errors of parts are naturals.
LEMMA PartErrorsTyped ==
  ASSUME TreeInv, NEW n \in todo, NEW p \in n.parts
  PROVE  p \in SUBSET Triangles /\ p # {} /\ PartError(p) \in Nat
<1>1. shape \in [Triangles -> Shapes] /\ p \in SUBSET Triangles /\ p # {}
  BY DEF TreeInv, Typed, Solid
<1>. QED BY <1>1, PartErrorsNest

\* The error of what is left out is that of its largest part.
LEMMA LeftOut ==
  ASSUME TreeInv, NEW n \in todo, NEW rest \in SUBSET n.parts, rest # {}
  PROVE  /\ \E q \in rest : LeftOutError(rest) = PartError(q)
         /\ \A p \in rest : PartError(p) <= LeftOutError(rest)
<1>. DEFINE E == {PartError(p) : p \in rest}
<1>1. n.parts \in SUBSET SUBSET Triangles
  BY DEF TreeInv, Typed
<1>2. IsFiniteSet(rest)
  <2>1. IsFiniteSet(SUBSET Triangles)
    BY FiniteTriangles, FS_SUBSET
  <2>2. rest \subseteq SUBSET Triangles
    BY <1>1
  <2>. QED BY <2>1, <2>2, FS_Subset
<1>3. IsFiniteSet(E)
  <2>. DEFINE f == [p \in rest |-> PartError(p)]
  <2>1. f \in Surjection(rest, E)
    BY DEF Surjection
  <2>. HIDE DEF f, E
  <2>. QED BY <1>2, <2>1, FS_Surjection
<1>4. E \subseteq Int /\ E # {}
  BY PartErrorsTyped
<1>5. \A p \in rest : PartError(p) \in E
  OBVIOUS
<1>6. LeftOutError(rest) = Max(E)
  BY DEF LeftOutError
<1>7. \A e \in E : \E q \in rest : e = PartError(q)
  OBVIOUS
<1>. HIDE DEF E
<1>8. Max(E) \in E /\ \A y \in E : y <= Max(E)
  BY <1>3, <1>4, MinMax
<1>. QED BY <1>5, <1>6, <1>7, <1>8

\* An additive tile's children hold pieces of what it leaves out.
LEMMA AddWritten ==
  ASSUME TreeInv, NEW n \in todo, Add(n)
  PROVE  Written(n)
<1>1. PICK content \in AdditiveContents(n.parts) :
          \E s \in SplitsOf(n.parts \ content) :
              Finish(n, TileOf(n, content, FALSE, LeftOutError(n.parts \ content)),
                     Children(n, s[1], s[2]))
  BY DEF Add
<1>. DEFINE rest == n.parts \ content
            tile == TileOf(n, content, FALSE, LeftOutError(rest))
<1>2. PICK s \in SplitsOf(rest) : Finish(n, tile, Children(n, s[1], s[2]))
  BY <1>1
<1>. DEFINE C == Children(n, s[1], s[2])
<1>3. rest \in SUBSET n.parts /\ rest # {} /\ n.fitted
  BY DEF AdditiveContents, Add
<1>4. /\ tile.group = n.group /\ tile.path = n.path /\ tile.error = LeftOutError(rest)
      /\ tile.box = BoxOf(Load(n)) /\ tile.drawn = UNION content /\ tile.leaf \in BOOLEAN
  BY DEF TileOf, Load
<1>11. tile.drawn \subseteq Triangles
  <2>1. content \in SUBSET n.parts
    BY DEF AdditiveContents
  <2>2. UNION content \subseteq Triangles
    BY <2>1, Drawable
  <2>. QED BY <1>4, <2>2
<1>. HIDE DEF rest, tile, C
<1>5. PICK q \in rest : LeftOutError(rest) = PartError(q)
  BY <1>3, LeftOut
<1>6. \A p \in rest : PartError(p) <= LeftOutError(rest)
  BY <1>3, LeftOut
<1>7. tile.error \in Nat
  BY <1>3, <1>4, <1>5, PartErrorsTyped
<1>8. ASSUME NEW x \in tiles, IsParent(x, tile), x.group \in assetIds
      PROVE  tile.error <= x.error
  <2>1. IsParent(x, n)
    BY <1>4, <1>8 DEF IsParent
  <2>2. PartError(q) <= x.error
    BY <1>3, <1>8, <2>1 DEF TreeInv, Below
  <2>. QED BY <1>4, <1>5, <2>2
<1>9. ASSUME NEW c \in C
      PROVE  /\ c \in Calls /\ c.group = n.group /\ c.fitted
             /\ \E i \in {0, 1} : c.path = Append(n.path, i)
             /\ Solid(c.parts) /\ \A p \in c.parts : \E r \in n.parts : p \subseteq r
             /\ \A p \in c.parts : PartError(p) <= tile.error
             /\ \A d \in C : d.path = c.path => d = c
  <2>1. /\ c \in Calls /\ c.group = n.group /\ c.fitted
        /\ \E i \in {0, 1} : c.path = Append(n.path, i)
        /\ Solid(c.parts) /\ c.parts \in SUBSET SUBSET Triangles
        /\ \A p \in c.parts : \E r \in rest : p \subseteq r
        /\ \A d \in C : d.path = c.path => d = c
    BY <1>3, ChildrenAre DEF C
  <2>3. ASSUME NEW p \in c.parts PROVE PartError(p) <= tile.error
    <3>1. PICK r \in rest : p \subseteq r
      BY <2>1
    <3>2. r \in SUBSET Triangles /\ p # {} /\ shape \in [Triangles -> Shapes]
      BY <1>3, <2>1, PartErrorsTyped DEF Solid, TreeInv
    <3>3. PartError(p) \in Nat /\ PartError(r) \in Nat /\ PartError(p) <= PartError(r)
      BY <3>1, <3>2, PartErrorsNest
    <3>4. PartError(r) <= tile.error
      BY <1>4, <1>6
    <3>. QED BY <1>7, <3>3, <3>4
  <2>. QED BY <1>3, <2>1, <2>3
<1>10. Succeeds(n, tile, C)
  BY <1>3, <1>4, <1>7, <1>8, <1>9, <1>11 DEF Succeeds, Calls
<1>. QED BY <1>2, <1>10 DEF C, Written

\* The children of a replaced tile hold pieces of its parts.
LEMMA ReplaceWritten ==
  ASSUME TreeInv, NEW n \in todo, Replace(n)
  PROVE  Written(n)
<1>1. PICK s \in SplitsOf(n.parts), kept \in SimplifiedContents(n.parts) :
          Finish(n, TileOf(n, kept, FALSE, 0), Children(n, s[1], s[2]))
  BY DEF Replace
<1>. DEFINE tile == TileOf(n, kept, FALSE, 0)
            C == Children(n, s[1], s[2])
<1>2. /\ tile.group = n.group /\ tile.path = n.path /\ tile.error = 0
      /\ tile.box = BoxOf(Load(n)) /\ tile.drawn = UNION kept /\ tile.leaf \in BOOLEAN
  BY DEF TileOf, Load
<1>8. tile.drawn \subseteq Triangles
  <2>1. kept \in SUBSET n.parts
    BY DEF SimplifiedContents
  <2>2. UNION kept \subseteq Triangles
    BY <2>1, Drawable
  <2>. QED BY <1>2, <2>2
<1>3. n.fitted /\ n.group \notin assetIds
  BY DEF Replace, Additive
<1>4. \A x \in tiles : x.error \in Nat
  BY DEF TreeInv, TileTyped
<1>5. ASSUME NEW c \in C
      PROVE  /\ c \in Calls /\ c.group = n.group /\ c.fitted
             /\ \E i \in {0, 1} : c.path = Append(n.path, i)
             /\ Solid(c.parts) /\ \A p \in c.parts : \E r \in n.parts : p \subseteq r
             /\ \A d \in C : d.path = c.path => d = c
  <2>1. /\ c \in Calls /\ c.group = n.group /\ c.fitted
        /\ \E i \in {0, 1} : c.path = Append(n.path, i)
        /\ Solid(c.parts) /\ c.parts \in SUBSET SUBSET Triangles
        /\ \A p \in c.parts : \E r \in n.parts : p \subseteq r
        /\ \A d \in C : d.path = c.path => d = c
    BY ChildrenAre
  <2>. QED BY <2>1
<1>6. Finish(n, tile, C)
  BY <1>1
<1>. HIDE DEF tile, C
<1>7. Succeeds(n, tile, C)
  BY <1>2, <1>3, <1>4, <1>5, <1>8 DEF Succeeds, Calls
<1>. QED BY <1>6, <1>7 DEF Written

\* What a turn of parts_within_budget does to a call: it becomes another one.
Refits(n, m) ==
    /\ ~n.fitted
    /\ m \in Calls /\ m.group = n.group /\ m.path = n.path /\ Solid(m.parts)
    /\ todo' = (todo \ {n}) \cup {m}
    /\ UNCHANGED <<input, tiles>>

\* A call that is still cut to the budget is its group's root: nothing hangs
\* above it, and no other call of the group is there.
LEMMA FitTree ==
  ASSUME TreeInv, NEW n \in todo, NEW m, Refits(n, m)
  PROVE  TreeInv'
<1>0. /\ ~n.fitted
      /\ m \in Calls /\ m.group = n.group /\ m.path = n.path /\ Solid(m.parts)
      /\ todo' = (todo \ {n}) \cup {m}
      /\ UNCHANGED <<input, tiles>>
  BY DEF Refits
<1>1. /\ UNCHANGED <<shape, element, material, assetIds, tiles>>
      /\ \A x, k : Below(x, k)' <=> Below(x, k)
      /\ \A x, y : Nested(x, y)' <=> Nested(x, y)
  BY <1>0, InputFixes DEF input
<1>2. /\ \A k \in todo : Solid(k.parts) /\ Alone(k) /\ \A x \in tiles : Below(x, k)
      /\ \A x, y \in tiles : Nested(x, y)
      /\ \A x \in tiles : TileTyped(x)
  BY DEF TreeInv
<1>3. /\ \A x \in tiles : x.group # n.group
      /\ \A k \in todo : k # n => k.group # n.group
  BY <1>0, <1>2 DEF Alone
<1>4. Typed' /\ shape' \in [Triangles -> Shapes] /\ assetIds' \subseteq Groups
  BY <1>0, <1>1 DEF TreeInv, Typed, Calls
<1>5. \A x \in tiles : Below(x, m)
  BY <1>0, <1>3 DEF Below, IsParent
<1>6. ASSUME NEW k \in todo, k # n PROVE Alone(k)'
  <2>1. \A x \in tiles' : x.group = k.group => ~Leads(k.path, x.path) /\ k.fitted
    BY <1>1, <1>2 DEF Alone
  <2>2. \A l \in todo' : l.group = k.group /\ l # k => ~Leads(k.path, l.path) /\ k.fitted
    BY <1>0, <1>2, <1>3, <1>6 DEF Alone
  <2>. QED BY <2>1, <2>2 DEF Alone
<1>7. Alone(m)'
  BY <1>0, <1>1, <1>3 DEF Alone
<1>8. \A k \in todo' : Solid(k.parts)' /\ Alone(k)' /\ \A x \in tiles' : Below(x, k)'
  BY <1>0, <1>1, <1>2, <1>5, <1>6, <1>7 DEF Solid
<1>9. /\ \A x, y \in tiles' : Nested(x, y)'
      /\ \A x \in tiles' : TileTyped(x)'
  BY <1>1, <1>2 DEF TileTyped
<1>. QED BY <1>4, <1>8, <1>9 DEF TreeInv

\* A cut leaves no half empty, whether it is by place or by number.
LEMMA CutHalves ==
  ASSUME NEW p \in SUBSET Triangles, Cardinality(p) > Budget, NEW near \in CutsOf(p)
  PROVE  near \in SUBSET p /\ near # {} /\ p \ near # {}
<1>1. IsFiniteSet(p)
  BY FiniteTriangles, FS_Subset
<1>2. Cardinality(p) \in Nat /\ Cardinality(p) > 1 /\ Cardinality({}) = 0
  BY <1>1, FS_CardinalityType, FS_EmptySet, ConfigAssumption
<1>3. \/ near \notin {{}, p} /\ near \in SUBSET p
      \/ near \in SUBSET p /\ Cardinality(near) = Cardinality(p) \div 2
  BY DEF CutsOf, NearTriangles
<1>4. CASE near \in SUBSET p /\ Cardinality(near) = Cardinality(p) \div 2
  <2>1. Cardinality(near) # 0 /\ Cardinality(near) # Cardinality(p)
    BY <1>2, <1>4
  <2>. QED BY <1>2, <1>4, <2>1
<1>. QED BY <1>3, <1>4

\* The turns of parts_within_budget leave the call where it is.
LEMMA Fitting ==
  ASSUME TreeInv, NEW n \in todo, CutPart(n) \/ AllFit(n)
  PROVE  \E m : Refits(n, m)
<1>1. n \in Calls /\ Solid(n.parts)
  BY DEF TreeInv, Typed, Calls
<1>2. n.parts \in SUBSET SUBSET Triangles
  BY <1>1 DEF Calls
<1>3. CASE CutPart(n)
  <2>1. PICK p \in Oversized(n) : \E near \in CutsOf(p) :
            todo' = (todo \ {n}) \cup
                {[n EXCEPT !.parts = (@ \ {p}) \cup {near, p \ near}]}
    BY <1>3 DEF CutPart
  <2>2. PICK near \in CutsOf(p) :
            todo' = (todo \ {n}) \cup
                {[n EXCEPT !.parts = (@ \ {p}) \cup {near, p \ near}]}
    BY <2>1
  <2>. DEFINE cut == (n.parts \ {p}) \cup {near, p \ near}
              m == [n EXCEPT !.parts = cut]
  <2>3. p \in n.parts /\ Cardinality(p) > Budget
    BY DEF Oversized
  <2>4. near \in SUBSET p /\ near # {} /\ p \ near # {}
    BY <1>2, <2>3, CutHalves
  <2>5. cut \in SUBSET SUBSET Triangles /\ Solid(cut)
    BY <1>1, <1>2, <2>3, <2>4 DEF Solid
  <2>6. todo' = (todo \ {n}) \cup {m}
    BY <2>2
  <2>. HIDE DEF cut
  <2>7. m \in Calls /\ m.parts = cut /\ m.group = n.group /\ m.path = n.path
    BY <1>1, <2>5 DEF Calls
  <2>. HIDE DEF m
  <2>8. Refits(n, m)
    BY <1>3, <2>5, <2>6, <2>7 DEF CutPart, Refits
  <2>. QED BY <2>8
<1>4. CASE AllFit(n)
  <2>. DEFINE m == [n EXCEPT !.fitted = TRUE]
  <2>1. todo' = (todo \ {n}) \cup {m} /\ UNCHANGED <<input, tiles>> /\ ~n.fitted
    BY <1>4 DEF AllFit
  <2>2. m \in Calls /\ m.parts = n.parts /\ m.group = n.group /\ m.path = n.path
    BY <1>1 DEF Calls
  <2>. HIDE DEF m
  <2>3. Refits(n, m)
    BY <1>1, <2>1, <2>2 DEF Refits
  <2>. QED BY <2>3
<1>. QED BY <1>3, <1>4

\* At the start each group has its root, and no tile.
LEMMA InitTree == Init => TreeInv
<1>. SUFFICES ASSUME Init PROVE TreeInv
  OBVIOUS
<1>1. Typed
  BY InitPlaced DEF PlacedInv
<1>2. shape \in [Triangles -> Shapes] /\ assetIds \subseteq Groups
  <2>1. UsedGroups \subseteq Groups
    BY <1>1 DEF Typed, UsedGroups, GroupOf
  <2>. QED BY <2>1, MeshesAssumption DEF Init
<1>3. tiles = {} /\ todo = {GroupNode(g) : g \in UsedGroups}
  BY DEF Init
<1>4. ASSUME NEW g \in UsedGroups
      PROVE  GroupNode(g).group = g /\ Solid(GroupNode(g).parts)
  <2>1. GroupNode(g).group = g /\ GroupNode(g).parts = ElementParts(g)
    BY DEF GroupNode, Node
  <2>2. PICK u \in Triangles : GroupOf(u) = g
    BY DEF UsedGroups
  <2>3. ElementParts(g) # {}
    <3>1. u \in {t \in Triangles : GroupOf(t) = g}
      BY <2>2
    <3>2. element[u] \in {element[t] : t \in {v \in Triangles : GroupOf(v) = g}}
      BY <3>1
    <3>. QED BY <3>2 DEF ElementParts
  <2>4. {} \notin ElementParts(g)
    BY DEF ElementParts
  <2>. QED BY <2>1, <2>3, <2>4 DEF Solid
<1>5. \A n, m \in todo : m.group = n.group => m = n
  BY <1>3, <1>4
<1>6. \A n \in todo : Solid(n.parts) /\ Alone(n)
  BY <1>3, <1>4, <1>5 DEF Alone
<1>. QED BY <1>1, <1>2, <1>3, <1>6 DEF TreeInv

\* A step either refits a call or writes its tile.
LEMMA Steps ==
  ASSUME TreeInv, NEW n \in todo,
         \/ CutPart(n) \/ AllFit(n) \/ Leaf(n)
         \/ Add(n) \/ Replace(n) \/ Indivisible(n)
  PROVE  (\E m : Refits(n, m)) \/ Written(n)
<1>1. CASE CutPart(n) \/ AllFit(n)
  BY <1>1, Fitting
<1>2. CASE Leaf(n) \/ Indivisible(n)
  BY <1>2, LeafWritten DEF Leaf, Indivisible
<1>3. CASE Add(n)
  BY <1>3, AddWritten
<1>4. CASE Replace(n)
  BY <1>4, ReplaceWritten
<1>. QED BY <1>1, <1>2, <1>3, <1>4

\* Nothing changes when nothing does.
LEMMA TreeRests == TreeInv /\ UNCHANGED vars => TreeInv'
<1>. SUFFICES ASSUME TreeInv, UNCHANGED vars PROVE TreeInv'
  OBVIOUS
<1>1. UNCHANGED <<input, todo, tiles>> /\ UNCHANGED <<shape, element, material, assetIds>>
  BY DEF vars, input
<1>2. /\ \A x, k : Below(x, k)' <=> Below(x, k)
      /\ \A x, y : Nested(x, y)' <=> Nested(x, y)
  BY <1>1, InputFixes
<1>3. Typed'
  BY <1>1 DEF TreeInv, Typed
<1>. QED BY <1>1, <1>2, <1>3 DEF TreeInv, Solid, Alone, TileTyped

\* Every step keeps the tree.
LEMMA TreeStep == TreeInv /\ [Next]_vars => TreeInv'
<1>. SUFFICES ASSUME TreeInv, [Next]_vars PROVE TreeInv'
  OBVIOUS
<1>1. CASE UNCHANGED vars
  BY <1>1, TreeRests
<1>2. CASE Next
  <2>1. PICK n \in todo : \/ CutPart(n) \/ AllFit(n) \/ Leaf(n)
                          \/ Add(n) \/ Replace(n) \/ Indivisible(n)
    BY <1>2 DEF Next
  <2>2. (\E m : Refits(n, m)) \/ Written(n)
    BY <2>1, Steps
  <2>3. CASE \E m : Refits(n, m)
    BY <2>3, FitTree
  <2>4. CASE Written(n)
    BY <2>4, FinishTree DEF Written
  <2>. QED BY <2>2, <2>3, <2>4
<1>. QED BY <1>1, <1>2

\* Down every tree of tiles boxes nest, and down an additive one errors do not
\* grow, for every mesh: a tile's error is that of the largest part it leaves
\* out, and every part further down is a piece of one of those.
THEOREM ErrorsHold == Spec => []ErrorsShrink
<1>1. TreeInv => ErrorsShrink
  BY DEF TreeInv, Nested, ErrorsShrink
<1>. QED BY InitTree, TreeStep, <1>1, PTL DEF Spec

\* Every variable keeps its type, and no call is left without a triangle to place.
THEOREM TypeCorrect == Spec => []TypeOK
<1>1. TreeInv => TypeOK
  <2>. SUFFICES ASSUME TreeInv PROVE TypeOK
    OBVIOUS
  <2>1. \A n \in todo : n.parts # {} /\ {} \notin n.parts
    BY DEF TreeInv, Solid
  <2>2. \A x \in tiles : x.group \in Groups /\ x.path \in Seq(Nat)
                        /\ x.drawn \subseteq Triangles /\ x.leaf \in BOOLEAN
    BY DEF TreeInv, TileTyped
  <2>. QED BY <2>1, <2>2 DEF TreeInv, Typed, TypeOK
<1>. QED BY InitTree, TreeStep, <1>1, PTL DEF Spec

-----------------------------------------------------------------------------
\* A call or a tile is below the root of its group.
Rooted(n) == n.group \in UsedGroups /\ Leads(GroupPath(n.group), n.path)

FilesInv ==
    /\ TreeInv
    /\ \A n \in todo : Rooted(n)
    /\ \A x \in tiles : Rooted(x)
    /\ \A x, y \in tiles : x.group = y.group /\ x.path = y.path => x = y

\* The roots depend on the input alone.
LEMMA RootsFixed ==
  ASSUME UNCHANGED input
  PROVE  \A n : Rooted(n)' <=> Rooted(n)
BY DEF input, Rooted, UsedGroups, GroupPath, GroupOf, Leads

\* A path leads to itself.
LEMMA LeadsHome ==
  ASSUME NEW p \in Seq(Nat)
  PROVE  Leads(p, p)
BY DEF Leads

\* Groups with a path in common have the same first step.
LEMMA RootsDiffer ==
  ASSUME TreeInv, NEW x, NEW y, Rooted(x), Rooted(y), x.path = y.path, x.group # y.group
  PROVE  SameSegment(x.group, y.group)
<1>1. UsedGroups \subseteq Groups
  BY DEF TreeInv, Typed, UsedGroups, GroupOf
<1>2. IsFiniteSet(UsedGroups)
  <2>1. IsFiniteSet(Groups)
    BY PathAssumption, FS_Interval DEF Groups
  <2>. QED BY <1>1, <2>1, FS_Subset
<1>3. Cardinality(UsedGroups) # 1
  <2>1. ASSUME NEW z, UsedGroups = {z} PROVE FALSE
    BY <2>1 DEF Rooted
  <2>. QED BY <1>2, <2>1, FS_Singleton
<1>4. GroupPath(x.group) = <<x.group % PathWidth>> /\ GroupPath(y.group) = <<y.group % PathWidth>>
  BY <1>3 DEF GroupPath
<1>5. x.path[1] = x.group % PathWidth
  <2>1. Leads(<<x.group % PathWidth>>, x.path)
    BY <1>4 DEF Rooted
  <2>. QED BY <2>1 DEF Leads
<1>6. y.path[1] = y.group % PathWidth
  <2>1. Leads(<<y.group % PathWidth>>, y.path)
    BY <1>4 DEF Rooted
  <2>. QED BY <2>1 DEF Leads
<1>. QED BY <1>5, <1>6 DEF SameSegment

\* Writing a tile gives no file a second one.
LEMMA FinishFiles ==
  ASSUME FilesInv, NEW n \in todo, NEW tile, NEW C, Succeeds(n, tile, C), Finish(n, tile, C)
  PROVE  FilesInv'
<1>0. TreeInv /\ Rooted(n) /\ n.path \in Seq(Nat) /\ Alone(n)
  BY DEF FilesInv, TreeInv, Typed
<1>1. TreeInv'
  BY <1>0, FinishTree
<1>2. /\ todo' = (todo \ {n}) \cup C /\ tiles' = tiles \cup {tile}
      /\ \A m : Rooted(m)' <=> Rooted(m)
  BY RootsFixed DEF Finish
<1>3. tile.group = n.group /\ tile.path = n.path
  BY DEF Succeeds
<1>4. Rooted(tile)
  BY <1>0, <1>3 DEF Rooted
<1>5. ASSUME NEW c \in C PROVE Rooted(c)
  <2>1. PICK i \in {0, 1} : c.path = Append(n.path, i)
    BY DEF Succeeds
  <2>2. c.group = n.group
    BY DEF Succeeds
  <2>3. Leads(GroupPath(n.group), n.path)
    BY <1>0 DEF Rooted
  <2>4. Len(GroupPath(n.group)) \in Nat
    BY DEF GroupPath
  <2>5. Len(c.path) = Len(n.path) + 1 /\ Len(n.path) \in Nat
        /\ \A k \in 1 .. Len(n.path) : c.path[k] = n.path[k]
    BY <1>0, <2>1
  <2>. DEFINE root == GroupPath(n.group)
  <2>. HIDE DEF root
  <2>6. Leads(root, c.path)
    BY <2>3, <2>4, <2>5 DEF Leads, root
  <2>. QED BY <1>0, <2>2, <2>6 DEF Rooted, root
<1>6. ASSUME NEW x \in tiles, x.group = tile.group, x.path = tile.path PROVE FALSE
  BY <1>0, <1>3, <1>6, LeadsHome DEF Alone
<1>7. ASSUME NEW x \in tiles', NEW y \in tiles', x.group = y.group, x.path = y.path
      PROVE  x = y
  BY <1>2, <1>6, <1>7 DEF FilesInv
<1>8. \A m \in todo' : Rooted(m)'
  BY <1>2, <1>5 DEF FilesInv
<1>9. \A x \in tiles' : Rooted(x)'
  BY <1>2, <1>4 DEF FilesInv
<1>. QED BY <1>1, <1>7, <1>8, <1>9 DEF FilesInv

\* Tiles are named by their path, and no two of a group have the same: a call is
\* never at or above a tile.  Two groups share a path only where the unchecked
\* cast of their indices to u8 gives both the same segment.
THEOREM FilesApart == Spec => []FilesDistinct
<1>1. Init => FilesInv
  <2>. SUFFICES ASSUME Init PROVE FilesInv
    OBVIOUS
  <2>1. tiles = {} /\ todo = {GroupNode(g) : g \in UsedGroups}
    BY DEF Init
  <2>2. ASSUME NEW g \in UsedGroups PROVE Rooted(GroupNode(g))
    <3>1. GroupNode(g).group = g /\ GroupNode(g).path = GroupPath(g)
      BY DEF GroupNode, Node
    <3>2. Leads(GroupPath(g), GroupPath(g))
      BY DEF Leads, GroupPath
    <3>. QED BY <3>1, <3>2 DEF Rooted
  <2>. QED BY <2>1, <2>2, InitTree DEF FilesInv
<1>2. FilesInv /\ [Next]_vars => FilesInv'
  <2>. SUFFICES ASSUME FilesInv, [Next]_vars PROVE FilesInv'
    OBVIOUS
  <2>0. TreeInv /\ TreeInv'
    BY TreeStep DEF FilesInv
  <2>1. CASE UNCHANGED vars
    <3>1. UNCHANGED <<input, todo, tiles>>
      BY <2>1 DEF vars
    <3>. QED BY <2>0, <3>1, RootsFixed DEF FilesInv
  <2>2. CASE Next
    <3>1. PICK n \in todo : \/ CutPart(n) \/ AllFit(n) \/ Leaf(n)
                            \/ Add(n) \/ Replace(n) \/ Indivisible(n)
      BY <2>2 DEF Next
    <3>2. (\E m : Refits(n, m)) \/ Written(n)
      BY <2>0, <3>1, Steps
    <3>3. ASSUME NEW m, Refits(n, m) PROVE FilesInv'
      <4>1. /\ todo' = (todo \ {n}) \cup {m} /\ tiles' = tiles
            /\ m.group = n.group /\ m.path = n.path
            /\ \A k : Rooted(k)' <=> Rooted(k)
        BY <3>3, RootsFixed DEF Refits
      <4>2. Rooted(m)
        BY <4>1 DEF FilesInv, Rooted
      <4>3. \A k \in todo' : Rooted(k)'
        BY <4>1, <4>2 DEF FilesInv
      <4>. QED BY <2>0, <4>1, <4>3 DEF FilesInv
    <3>4. CASE Written(n)
      BY <3>4, FinishFiles DEF Written
    <3>. QED BY <3>2, <3>3, <3>4
  <2>. QED BY <2>1, <2>2
<1>3. FilesInv => FilesDistinct
  BY RootsDiffer DEF FilesInv, FilesDistinct
<1>. QED BY <1>1, <1>2, <1>3, PTL DEF Spec
=============================================================================
