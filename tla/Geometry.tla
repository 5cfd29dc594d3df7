------------------------------ MODULE Geometry ------------------------------
(***************************************************************************)
(* Boxes, planes and frusta of src/foundation/math/geometry.cpp and the    *)
(* camera of camera.cpp.  The camera turns by right angles; its angle of   *)
(* view is the one with tangent 3/4 and cosine 4/5, whose half has tangent *)
(* 1/3, and its aspect is 1, so that every bound is a whole number once    *)
(* multiplied by 4.                                                        *)
(***************************************************************************)
EXTENDS Mathematics

CONSTANTS Grid,    \* the coordinates points are taken from
          Reach,   \* bound: how far a coordinate of the camera's eye may go
          Spots    \* the centres of the spheres that are tested

VARIABLES look, axis, eye
cameraVars == << look, axis, eye >>

Points == { << x, y, z >> : x \in Grid, y \in Grid, z \in Grid }

Box3(min, max) == [min |-> min, max |-> max]
Least(a, b) == IF a < b THEN a ELSE b
Greatest(a, b) == IF a < b THEN b ELSE a

Bounds(array) ==
    LET At(i) == { array[k][i] : k \in DOMAIN array }
    IN Box3([i \in 1 .. 3 |-> CHOOSE a \in At(i) : \A b \in At(i) : a <= b],
            [i \in 1 .. 3 |-> CHOOSE a \in At(i) : \A b \in At(i) : a >= b])

Merge(a, b) == Box3(Zip(Least, a.min, b.min), Zip(Greatest, a.max, b.max))

IncludesBox(a, b) ==
    IF \E i \in 1 .. 3 : a.min[i] > b.max[i] \/ a.max[i] < b.min[i]
    THEN "outside"
    ELSE IF \A i \in 1 .. 3 : a.min[i] < b.min[i] /\ a.max[i] > b.max[i]
    THEN "inside" ELSE "intersect"

\* The corner of the box farthest along a normal, and the nearest.
PlanarMax(box, n) == [i \in 1 .. 3 |-> IF n[i] > 0 THEN box.max[i] ELSE box.min[i]]
PlanarMin(box, n) == [i \in 1 .. 3 |-> IF n[i] < 0 THEN box.max[i] ELSE box.min[i]]

\* A plane's length does not change on which side of it a point is.
Plane(n, d) == [n |-> n, d |-> d]
Beyond(plane, v) == plane.d + Dot(plane.n, v)
PointNormal(point, normal) == Plane(normal, -Dot(normal, point))
ThreePoint(p, q, r) == PointNormal(p, Cross(Minus(q, p), Minus(r, p)))

\* The six sides: the fourth row of the matrix and, or less, each other row.
Frustum(m) == { LET side == Plus(Row(m, 4), Times(Row(m, i), sign))
                IN Plane(Part(side), side[4]) : i \in 1 .. 3, sign \in { -1, 1 } }

FrustumIncludes(frustum, box) ==
    IF \E p \in frustum : Beyond(p, PlanarMax(box, p.n)) < 0 THEN "outside"
    ELSE IF \E p \in frustum : Beyond(p, PlanarMin(box, p.n)) < 0
    THEN "intersect" ELSE "inside"

----------------------------------------------------------------------------
(* The camera *)

Near == 4
Far == 8
Projection == Perspective(3, 1, Near, Far)

Axes(x, y, z) == [x |-> x, y |-> y, z |-> z]
Twist(a) == Axes(Negate(a.z), a.y, a.x)

CameraInit ==
    /\ look = Axes(UnitX, UnitY, Negate(UnitZ))
    /\ axis = look
    /\ eye = Zero

Rotate(y, z) ==
    LET turnY == AxisAngle(axis.y, y)
        TurnedY(a) == Axes(RowsTimes(turnY, a.x), RowsTimes(turnY, a.y),
                           RowsTimes(turnY, a.z))
        turnZ == AxisAngle(TurnedY(axis).z, z)
    IN /\ axis' = [TurnedY(axis) EXCEPT !.y = axis.y]
       /\ look' = LET a == TurnedY(look)
                  IN Axes(RowsTimes(turnZ, a.x), RowsTimes(turnZ, a.y),
                          RowsTimes(turnZ, a.z))
       /\ UNCHANGED eye

Move(change) ==
    LET to == Plus(eye, Plus(Times(axis.x, change[1]),
                             Plus(Times(axis.y, change[2]),
                                  Times(axis.z, change[3]))))
    IN /\ \A i \in 1 .. 3 : to[i] \in -Reach .. Reach
       /\ eye' = to
       /\ UNCHANGED << look, axis >>

CameraMatrix ==
    Product4(Projection,
            Translate3(Transpose(<< look.z, look.y, look.x >>), eye))

\* Where a point is for the camera: across, up and ahead.
Seen(point) == LET a == Twist(look)
                   v == Minus(Negate(eye), point)
               IN << Dot(v, a.x), Dot(v, a.y), Dot(v, a.z) >>

IncludesPoint(point) ==
    LET c == Seen(point)
        bound == 3 * c[3]
    IN /\ Near <= c[3] /\ c[3] <= Far
       /\ \A i \in 1 .. 2 : -bound <= 4 * c[i] /\ 4 * c[i] <= bound

\* The distance from a side to the sphere's edge along y, or x, is the radius
\* over the cosine: five fourths of it.
IncludesSphere(point, radius) ==
    LET c == Seen(point)
        bound == 3 * c[3]
        rim == 5 * radius
    IN IF \/ c[3] > Far + radius \/ c[3] < Near - radius
          \/ \E i \in 1 .. 2 : 4 * c[i] > bound + rim \/ 4 * c[i] < -bound - rim
       THEN "outside"
       ELSE IF \/ c[3] > Far - radius \/ c[3] < Near + radius
               \/ \E i \in 1 .. 2 :
                  4 * c[i] > bound - rim \/ 4 * c[i] < -bound + rim
       THEN "intersect" ELSE "inside"

\* The box starts as the point at the origin; the tangent is left out across.
CameraBox ==
    LET a == Twist(look)
        Corner(depth, up, across) ==
            Plus(Minus(Negate(eye), Times(a.z, depth)),
                 Plus(Times(a.y, up * ((depth * 3) \div 4)),
                      Times(a.x, across * depth)))
        corners == { Corner(d, u, s) : d \in { Near, Far }, u \in { -1, 1 },
                                       s \in { -1, 1 } }
        At(i) == { c[i] : c \in corners \cup { Zero } }
    IN Box3([i \in 1 .. 3 |-> CHOOSE p \in At(i) : \A q \in At(i) : p <= q],
            [i \in 1 .. 3 |-> CHOOSE p \in At(i) : \A q \in At(i) : p >= q])

CameraNext ==
    \/ \E y, z \in Turn : Rotate(y, z)
    \/ \E change \in Units : Move(change)

----------------------------------------------------------------------------
(* Properties *)

Inside(v, box) == \A i \in 1 .. 3 : box.min[i] <= v[i] /\ v[i] <= box.max[i]

\* What the tests of boxes say is so of their points: outside shares none,
\* inside contains all, a merged box holds both, the bounds are the smallest
\* box, and a frustum's box is outside only if no point of it is on the inner
\* side of every plane (geometry.cpp:9-103, 149-214).
BoxesRight(a, b, m) ==
    LET inA == { v \in Points : Inside(v, a) }
        inB == { v \in Points : Inside(v, b) }
        inFrustum == { v \in Points :
                       \A p \in Frustum(m) : Beyond(p, v) >= 0 }
    IN /\ (IncludesBox(a, b) = "outside") = (inA \cap inB = {})
       /\ IncludesBox(a, b) = "inside" => inB \subseteq inA
       /\ inA \cup inB \subseteq { v \in Points : Inside(v, Merge(a, b)) }
       /\ Bounds(<< a.min, b.max, b.min, a.max >>) = Merge(a, b)
       /\ FrustumIncludes(Frustum(m), b) = "outside" => inB \cap inFrustum = {}
       /\ FrustumIncludes(Frustum(m), b) = "inside" => inB \subseteq inFrustum
       /\ LET p == ThreePoint(a.min, a.max, b.min)
          IN Beyond(p, a.max) = 0 /\ Beyond(p, b.min) = 0

\* Turned and moved any number of times, the camera's axes stay at right
\* angles with the same handedness, it does not roll (the axis across the view
\* stays level), and it culls nothing that is drawn: a point the matrix puts
\* in the picture is included, and so is one of any sphere that is found to be
\* inside, none of one found to be outside; what is included is in the box
\* (camera.cpp:36-177).
CameraCullsSoundly ==
    LET drawn == { v \in Points :
                   \A p \in Frustum(CameraMatrix) : Beyond(p, v) >= 0 }
        Ball(c, r) == { v \in Points :
                        MagnitudeSquared(Minus(v, c)) <= r * r }
    IN /\ look.x \in Units /\ look.y \in Units
       /\ look.z = Cross(look.y, look.x)
       /\ look.z = axis.z /\ look.z[2] = 0
       /\ \A v \in drawn : IncludesPoint(v)
       /\ \A v \in Points : IncludesPoint(v) => Inside(v, CameraBox)
       /\ \A c \in Spots, r \in { 1, 4 } :
          /\ IncludesSphere(c, r) = "outside" =>
             \A v \in Ball(c, r) : ~IncludesPoint(v)
          /\ IncludesSphere(c, r) = "inside" =>
             \A v \in Ball(c, r) : IncludesPoint(v)
=============================================================================
