---------------------------- MODULE Mathematics ----------------------------
(***************************************************************************)
(* The vectors, matrices and quaternions of src/foundation/math/math.cpp,  *)
(* over the integers: a vector is a tuple, a matrix the tuple of its       *)
(* columns, an angle the record of its sine and cosine.  The inputs are    *)
(* those for which the code's divisions are exact (right angles, vectors   *)
(* along an axis, boxes of a side 1 or 2), so that rounding plays no part; *)
(* a point behind a projection is kept with its divisor.                   *)
(***************************************************************************)
EXTENDS Integers, Sequences

Zip(Op(_, _), v, u) == [i \in DOMAIN v |-> Op(v[i], u[i])]
Plus(v, u) == LET Add(a, b) == a + b IN Zip(Add, v, u)
Minus(v, u) == LET Take(a, b) == a - b IN Zip(Take, v, u)
Times(v, f) == [i \in DOMAIN v |-> v[i] * f]
Negate(v) == Times(v, -1)
Over(v, f) == [i \in DOMAIN v |-> v[i] \div f]

Dot(v, u) == v[1] * u[1] + v[2] * u[2] + v[3] * u[3]
Dot4(v, u) == Dot(v, u) + v[4] * u[4]
MagnitudeSquared(v) == Dot(v, v)

Cross(v, u) == << v[2] * u[3] - v[3] * u[2],
                  v[3] * u[1] - v[1] * u[3],
                  v[1] * u[2] - v[2] * u[1] >>

Zero == << 0, 0, 0 >>
UnitX == << 1, 0, 0 >>
UnitY == << 0, 1, 0 >>
UnitZ == << 0, 0, 1 >>
Units == { UnitX, UnitY, UnitZ, Negate(UnitX), Negate(UnitY), Negate(UnitZ) }

\* Along an axis, where the magnitude is a whole number.
Normalise(v) == CHOOSE u \in Units : \E f \in 1 .. 100 : v = Times(u, f)

----------------------------------------------------------------------------
(* Matrices of 3 and of 4 columns *)

Row(m, i) == [k \in DOMAIN m |-> m[k][i]]

Identity(n) == [i \in 1 .. n |-> [j \in 1 .. n |-> IF i = j THEN 1 ELSE 0]]

PlusM(m, n) == Zip(Plus, m, n)
MinusM(m, n) == Zip(Minus, m, n)
TimesM(m, f) == [i \in DOMAIN m |-> Times(m[i], f)]
Narrow(m) == [i \in 1 .. 3 |-> [j \in 1 .. 3 |-> m[i][j]]]
Widen(m) == [i \in 1 .. 4 |->
    IF i = 4 THEN << 0, 0, 0, 1 >> ELSE Append(m[i], 0)]

\* Each column by a coordinate (mat3), each row by a coordinate (scale, mat4).
ScaleColumns(m, v) == [i \in 1 .. 3 |-> Times(m[i], v[i])]
Scale(m, v) == [i \in 1 .. 4 |->
    [j \in 1 .. 4 |-> IF j = 4 THEN m[i][j] ELSE m[i][j] * v[j]]]

Product(m, n) == [j \in DOMAIN n |-> [i \in DOMAIN m |-> Dot(Row(m, i), n[j])]]

Transpose(m) == [i \in DOMAIN m |-> Row(m, i)]

\* mat4 has operators of its own, which say the same in 4 columns.
Minus4(m, n) == MinusM(m, n)
Plus4(m, n) == PlusM(m, n)
Times4(m, f) == TimesM(m, f)
Over4(m, f) == [i \in 1 .. 4 |-> Over(m[i], f)]
Negate4(m) == Times4(m, -1)
Product4(m, n) == [j \in 1 .. 4 |-> [i \in 1 .. 4 |->
    m[1][i] * n[j][1] + m[2][i] * n[j][2] + m[3][i] * n[j][3] + m[4][i] * n[j][4]]]

RowsTimes(m, v) == << Dot(m[1], v), Dot(m[2], v), Dot(m[3], v) >>
ColumnsTimes(v, m) == RowsTimes(Transpose(m), v)

\* dot( mat4, v ) and dot( v, mat4 ): the divisor is the fourth coordinate.
RowsTimes4(m, v) == [i \in 1 .. 4 |-> Dot4(m[i], Append(v, 1))]
ColumnsTimes4(v, m) == RowsTimes4(Transpose(m), v)

SamePoint(p, q) == \A i \in 1 .. 3 : p[i] * q[4] = q[i] * p[4]

Translate3(m, v) == << Append(m[1], 0), Append(m[2], 0), Append(m[3], 0),
                       Append(ColumnsTimes(v, m), 1) >>
Translate4(m, v) == << m[1], m[2], m[3], ColumnsTimes4(v, m) >>

Turn == { [sin |-> 0, cos |-> 1], [sin |-> 1, cos |-> 0],
          [sin |-> 0, cos |-> -1], [sin |-> -1, cos |-> 0] }

AxisAngle(v, r) ==
    LET minus == 1 - r.cos
        Mixed(i, j) == v[i] * v[j] * minus
    IN << << Mixed(1, 1) + r.cos, Mixed(1, 2) + v[3] * r.sin,
             Mixed(1, 3) - v[2] * r.sin >>,
          << Mixed(1, 2) - v[3] * r.sin, Mixed(2, 2) + r.cos,
             Mixed(2, 3) + v[1] * r.sin >>,
          << Mixed(1, 3) + v[2] * r.sin, Mixed(2, 3) - v[1] * r.sin,
             Mixed(3, 3) + r.cos >> >>

EulerAngle(x, y, z) ==
    << << y.cos * z.cos, z.sin, -(y.sin * z.cos) >>,
       << x.sin * y.sin - x.cos * y.cos * z.sin, x.cos * z.cos,
          x.sin * y.cos + x.cos * y.sin * z.sin >>,
       << x.cos * y.sin + x.sin * y.cos * z.sin, -(x.sin * z.cos),
          x.cos * y.cos - x.sin * y.sin * z.sin >> >>

Perspective(cotangent, aspect, near, far) ==
    << << cotangent \div aspect, 0, 0, 0 >>,
       << 0, cotangent, 0, 0 >>,
       << 0, 0, -(far + near) \div (far - near), -1 >>,
       << 0, 0, -(2 * far * near) \div (far - near), 0 >> >>

Orthographic(left, right, bottom, top, near, far) ==
    << << 2 \div (right - left), 0, 0, 0 >>,
       << 0, 2 \div (top - bottom), 0, 0 >>,
       << 0, 0, -(2 \div (far - near)), 0 >>,
       << -(right + left) \div (right - left),
          -(top + bottom) \div (top - bottom),
          -(far + near) \div (far - near), 1 >> >>

LookAt(eye, look, up) ==
    LET forward == Normalise(Minus(look, eye))
        side == Normalise(Cross(forward, up))
        reUp == Cross(side, forward)
    IN Translate3(Transpose(<< side, reUp, Negate(forward) >>), Negate(eye))

----------------------------------------------------------------------------
(* Quaternions: the vector part, then the scalar part *)

Part(q) == << q[1], q[2], q[3] >>
Scalar(q) == q[4]
QuatMinus(q, r) == Minus(q, r)
QuatPlus(q, r) == Plus(q, r)
QuatTimes(q, f) == Times(q, f)
QuatOver(q, f) == Over(q, f)

\* The code overwrites a coordinate and goes on to use it for the next ones.
QuatProduct(q, r) ==
    LET x == q[4] * r[1] + q[1] * r[4] + q[2] * r[3] - q[3] * r[2]
        y == q[4] * r[2] - x * r[3] + q[2] * r[4] + q[3] * r[1]
        z == q[4] * r[3] + x * r[2] - y * r[1] + q[3] * r[4]
        w == q[4] * r[4] - x * r[1] - y * r[2] - z * r[3]
    IN << x, y, z, w >>

Rotated(q, v) ==
    LET y == Cross(Part(q), v)
    IN Plus(Plus(v, Times(y, 2 * q[4])), Times(Cross(Part(q), y), 2))

Conjugate(q) == Append(Negate(Part(q)), q[4])

Inverse(q) == IF Dot4(q, q) <= 0 THEN << 0, 0, 0, 0 >>
              ELSE QuatOver(Conjugate(q), Dot4(q, q))

ToMatrix(q) ==
    LET Twice(i, j) == 2 * q[i] * q[j]
    IN << << 1 - (Twice(2, 2) + Twice(3, 3)), Twice(1, 2) + Twice(4, 3),
             Twice(1, 3) - Twice(4, 2) >>,
          << Twice(1, 2) - Twice(4, 3), 1 - (Twice(1, 1) + Twice(3, 3)),
             Twice(2, 3) + Twice(4, 1) >>,
          << Twice(1, 3) + Twice(4, 2), Twice(2, 3) - Twice(4, 1),
             1 - (Twice(1, 1) + Twice(2, 2)) >> >>

\* The angles here are the halves.
QuatAxisAngle(v, half) == Append(Times(v, half.sin), half.cos)

QuatEulerAngle(x, y, z) ==
    << x.sin * y.cos * z.cos - x.cos * y.sin * z.sin,
       x.cos * y.sin * z.cos + x.sin * z.sin * y.cos,
       x.cos * z.sin * y.cos - x.sin * y.sin * z.cos,
       x.sin * y.sin * z.sin + x.cos * y.cos * z.cos >>

\* rotate( u, v ) of two vectors along axes, before the division by root: the
\* quaternion times the root of 2 + 2 * dot, of which it has twice the scalar.
QuatBetween(u, v) == Append(Cross(u, v), 1 + Dot(u, v))

----------------------------------------------------------------------------
(* Properties *)

\* A product of matrices does what its factors do one after the other, a
\* transpose changes the side a vector stands on, and the products of 4
\* columns say the same of points as those of 3 (math.cpp:332-402, 621-680).
Composes(m, n, v) ==
    /\ ColumnsTimes(v, Product(m, n)) = ColumnsTimes(ColumnsTimes(v, n), m)
    /\ RowsTimes(Product(m, n), v) = ColumnsTimes(v, Transpose(Product(m, n)))
    /\ Transpose(Product(m, n)) = Product(Transpose(n), Transpose(m))
    /\ Narrow(Product4(Widen(m), Widen(n))) = Product(m, n)
    /\ Transpose(Product4(Widen(m), Translate3(n, v)))
       = Product4(Transpose(Translate3(n, v)), Transpose(Widen(m)))
    /\ Product4(Widen(m), Over4(Plus4(Minus4(Widen(n), Negate4(Widen(m))),
                                      Plus4(Widen(n), Widen(m))), 2))
       = Plus4(Product4(Widen(m), Widen(n)), Product4(Widen(m), Widen(m)))
    /\ ColumnsTimes(v, PlusM(m, n)) = Plus(ColumnsTimes(v, m), ColumnsTimes(v, n))
    /\ ColumnsTimes(v, ScaleColumns(MinusM(m, n), v))
       = Minus(ColumnsTimes([i \in 1 .. 3 |-> v[i] * v[i]], m),
               ColumnsTimes([i \in 1 .. 3 |-> v[i] * v[i]], n))
    /\ Translate4(Widen(m), v) = Translate3(m, v)
    /\ \A u \in Units :
       /\ SamePoint(ColumnsTimes4(u, Translate3(m, v)),
                    Append(ColumnsTimes(Plus(u, v), m), 1))
       /\ SamePoint(RowsTimes4(Transpose(Times4(Translate3(m, v), 2)), u),
                    ColumnsTimes4(u, Translate3(m, v)))
       /\ SamePoint(ColumnsTimes4(u, Scale(Widen(m), v)),
                    Append([i \in 1 .. 3 |-> ColumnsTimes(u, m)[i] * v[i]], 1))

\* The matrix of an axis and an angle turns a vector as the formula of
\* Rodrigues does, and the matrix of three angles is the turn about x, then z,
\* then y (math.cpp:404-460).
Turns(axis, x, y, z) ==
    /\ \A v \in Units :
       ColumnsTimes(v, AxisAngle(axis, x)) =
       Plus(Plus(Times(v, x.cos), Times(Cross(axis, v), x.sin)),
            Times(axis, Dot(axis, v) * (1 - x.cos)))
    /\ EulerAngle(x, y, z) =
       Product(AxisAngle(UnitY, y), Product(AxisAngle(UnitZ, z),
                                            AxisAngle(UnitX, x)))

\* A quaternion turns a vector as its matrix does, its inverse turns it back,
\* and a product is right as long as its second factor has no vector part:
\* otherwise the coordinates already overwritten spoil the next ones, even
\* when the first factor is the identity (math.cpp:796-933).
QuaternionTurns(q, r, v) ==
    /\ ColumnsTimes(v, ToMatrix(q)) = Rotated(q, v)
    /\ Dot4(q, q) = 1 => /\ Rotated(Inverse(q), Rotated(q, v)) = v
                         /\ QuatProduct(q, << 0, 0, 0, 1 >>) = q
    /\ QuatProduct(QuatMinus(q, r), << 0, 0, 0, 1 >>)
       = QuatPlus(q, QuatTimes(r, -1))
    /\ Part(r) = Zero =>
       QuatProduct(q, r) =
       Append(Plus(Plus(Times(Part(r), q[4]), Times(Part(q), r[4])),
                   Cross(Part(q), Part(r))),
              q[4] * r[4] - Dot(Part(q), Part(r)))

\* The quaternion of an axis and of half the angle makes the matrix of the
\* whole angle, and that of three half angles those of the turns about x,
\* then y, then z (math.cpp:971-1006): not the order of the matrix.
WholeAngle(half) == [sin |-> 2 * half.sin * half.cos,
                     cos |-> half.cos * half.cos - half.sin * half.sin]
HalfTurns(axis, x, y, z) ==
    /\ ToMatrix(QuatAxisAngle(axis, x)) = AxisAngle(axis, WholeAngle(x))
    /\ ToMatrix(QuatEulerAngle(x, y, z)) =
       Product(ToMatrix(QuatAxisAngle(UnitZ, z)),
               Product(ToMatrix(QuatAxisAngle(UnitY, y)),
                       ToMatrix(QuatAxisAngle(UnitX, x))))

\* rotate( u, v ) turns u to v along the shortest way, unless they are opposite,
\* where its root is 0 and it divides by it (math.cpp:935-948).
TurnsTo(u, v) ==
    LET q == QuatBetween(u, v)
        n == Dot4(q, q)
        y == Cross(Part(q), u)
    IN u # Negate(v) =>
       /\ n = 2 * Scalar(q)
       /\ Plus(Plus(Times(u, n), Times(y, 2 * Scalar(q))), Times(Cross(Part(q), y), 2))
          = Times(v, n)
       /\ Dot(Part(q), u) = 0 /\ Dot(Part(q), v) = 0

\* look_at puts the eye at the origin and what it looks at straight ahead, on
\* the negative z axis, as far away as it was (math.cpp:729-741).
LooksAhead(eye, forward, up, far) ==
    LET m == LookAt(eye, Plus(eye, Times(forward, far)), up)
    IN Dot(forward, up) = 0 =>
       /\ SamePoint(ColumnsTimes4(eye, m), << 0, 0, 0, 1 >>)
       /\ SamePoint(ColumnsTimes4(Plus(eye, Times(forward, far)), m),
                    << 0, 0, -far, 1 >>)
       /\ SamePoint(ColumnsTimes4(Plus(eye, up), m), << 0, 1, 0, 1 >>)

\* The projections send the corners of what they show to the corners of the
\* cube from -1 to 1, near to -1 and far to 1 (math.cpp:691-727).
ProjectsOnCube(left, bottom, near, side) ==
    LET right == left + side
        top == bottom + side
        far == near + side
        Sign(end) == IF end THEN 1 ELSE -1
        ortho == Orthographic(left, right, bottom, top, near, far)
        deep == Perspective(2, 1, 2 * side, 4 * side)
    IN \A i, j, k \in BOOLEAN :
       /\ SamePoint(ColumnsTimes4(<< IF i THEN right ELSE left,
                                     IF j THEN top ELSE bottom,
                                     IF k THEN -far ELSE -near >>, ortho),
                    << Sign(i), Sign(j), Sign(k), 1 >>)
       /\ LET depth == IF k THEN 4 * side ELSE 2 * side
          IN SamePoint(ColumnsTimes4(<< Sign(i) * (depth \div 2),
                                        Sign(j) * (depth \div 2), -depth >>, deep),
                       << Sign(i), Sign(j), Sign(k), 1 >>)
=============================================================================
