---------------------------- MODULE MCMeshTiling ----------------------------
\* MeshTiling on every mesh of a few triangles, up to their order.
EXTENDS MeshTiling

Point(x, y) == [lo |-> <<x, y>>, hi |-> <<x, y>>, at |-> <<x, y>>]

\* A speck, and a long and a tall one whose centroids are off the middle of
\* their boxes.
ShapeList == <<Point(0, 0),
               [lo |-> <<0, 0>>, hi |-> <<9, 1>>, at |-> <<3, 0>>],
               [lo |-> <<6, 0>>, hi |-> <<8, 9>>, at |-> <<7, 6>>]>>

SampleShapes == Range(ShapeList)

\* Triangles and elements are numbered: elements run upward along the
\* triangles, and shapes upward within an element.
Ordered(kind, element_) ==
    /\ element_[1] = 1
    /\ \A t \in Triangles \ {1} :
          \/ element_[t] = element_[t - 1] + 1
          \/ element_[t] = element_[t - 1] /\ kind[t - 1] <= kind[t]

OrderedMeshes ==
    UNION {
        {[shape |-> [t \in Triangles |-> ShapeList[kind[t]]],
          element |-> element_, material |-> material_] :
            material_ \in {m \in [Elements -> Groups] :
                \A e \in Elements \ Range(element_) : m[e] = 0},
            kind \in {k \in [Triangles -> DOMAIN ShapeList] : Ordered(k, element_)}} :
        element_ \in [Triangles -> Elements]}
=============================================================================
