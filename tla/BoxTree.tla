------------------------------ MODULE BoxTree -------------------------------
(***************************************************************************)
(* ui::box_tree: boxes inside of boxes, each level at twice the resolution *)
(* of the one above, built by insert, asked by find and drawn by view.  A  *)
(* box of the tree is named by its path from the root.  Coordinates are of *)
(* an unsigned type of Bits bits; those that find and view are asked for   *)
(* have a fraction of Depth bits more, enough for every level of the tree. *)
(***************************************************************************)
EXTENDS Binary

CONSTANTS RootBox,      \* the box of the root
          BoxSizes, BoxPlaces,  \* what insert is asked for
          Depth,        \* a bound on the levels below the root
          Children      \* a bound on the children of a box

Box(width, height, x, y) == [width |-> width, height |-> height, x |-> x, y |-> y]

VARIABLE tree           \* the boxes of the paths that exist

BoxTreeInit == tree = (<<>> :> RootBox)

Count(path) == Cardinality({p \in DOMAIN tree : Len(p) = Len(path) + 1
                                                /\ SubSeq(p, 1, Len(path)) = path})

Outside(a, b) == \/ a.x >= b.x + b.width \/ a.x + a.width <= b.x
                 \/ a.y >= b.y + b.height \/ a.y + a.height <= b.y
Inside(a, b) == /\ ~ Outside(a, b)
                /\ a.x <= b.x /\ a.x + a.width >= b.x + b.width
                /\ a.y <= b.y /\ a.y + a.height >= b.y + b.height

(* The container's size is twice the box's, in as many bits. *)
Container(box) == Box((box.width * 2) % Range2, (box.height * 2) % Range2, 0, 0)

BoxInsert(path, new) ==
    /\ new.width > 0 /\ new.height > 0 /\ Inside(Container(tree[path]), new)
    /\ \A n \in 1 .. Count(path) : Outside(tree[Append(path, n)], new)
    /\ tree' = tree @@ (Append(path, Count(path) + 1) :> new)

BoxTreeNext ==
    \E path \in DOMAIN tree, w, h \in BoxSizes, x, y \in BoxPlaces :
        /\ Len(path) < Depth /\ Count(path) < Children
        /\ BoxInsert(path, Box(w, h, x, y))

-----------------------------------------------------------------------------
(* find.  x and y are changed by a child that has the point in it although *)
(* none of its own children has, and the children after it see that.  What *)
(* is returned is the path found, and x and y.                             *)
One == 2^Depth
NotFound == <<0>>

RECURSIVE FindRoot(_, _, _), FindChild(_, _, _, _)
FindRoot(path, x, y) ==
    LET box == tree[path] IN
    IF \/ box.x > x \div One \/ box.y > y \div One
       \/ box.x + box.width < x \div One \/ box.y + box.height < y \div One
    THEN <<NotFound, x, y>>
    ELSE LET in == <<((x - box.x * One) * 2) % (Range2 * One),
                     ((y - box.y * One) * 2) % (Range2 * One)>>
         IN  IF Count(path) = 0 THEN <<path, in[1], in[2]>>
             ELSE FindChild(path, 1, in[1], in[2])
FindChild(path, n, x, y) ==
    LET found == FindRoot(Append(path, n), x, y) IN
    IF found[1] # NotFound \/ n = Count(path) THEN found
    ELSE FindChild(path, n + 1, found[2], found[3])

(* find subtracts the root's place before find_root does so again. *)
Find(x, y) ==
    IF x \div One < RootBox.x \/ y \div One < RootBox.y THEN <<>>
    ELSE LET found == FindRoot(<<>>, x - RootBox.x * One, y - RootBox.y * One)[1]
         IN  IF found = NotFound THEN <<>> ELSE found

(* Where the box of a path is, in units of 1 / One of the root's. *)
Scale(path) == 2^(Depth - Len(path))
RECURSIVE PlaceX(_), PlaceY(_)
PlaceX(path) == tree[path].x * Scale(path) + (IF path = <<>> THEN 0 ELSE PlaceX(Front(path)))
PlaceY(path) == tree[path].y * Scale(path) + (IF path = <<>> THEN 0 ELSE PlaceY(Front(path)))

(* The right and the lower edge are part of the box, and a box reaches to  *)
(* the end of the unit there.                                              *)
HasPoint(path, x, y) ==
    /\ PlaceX(path) <= x /\ x < PlaceX(path) + (tree[path].width + 1) * Scale(path)
    /\ PlaceY(path) <= y /\ y < PlaceY(path) + (tree[path].height + 1) * Scale(path)

-----------------------------------------------------------------------------
(* view: the boxes drawn when a window of width by height pixels at x, y   *)
(* looks at the tree at zoom z.                                            *)
Twice(x) == Min({2 * x, Range2 * One - 1})      \* saturated_shift by one bit
ClampedSubtract(x, i) == IF i > x \div One THEN 0 ELSE x - i * One

RECURSIVE FindView(_, _, _, _, _, _, _)
FindView(path, width, height, x, y, z, end) ==
    LET i == Len(path)
        slide == z - i
        w == (SaturatedSlide(width, -slide) + 1) % Range2
        h == (SaturatedSlide(height, -slide) + 1) % Range2
        view == Box(IF w = 0 THEN Range2 - 1 ELSE w, IF h = 0 THEN Range2 - 1 ELSE h,
                    x \div One, y \div One)
        box == tree[path]
        right == Min({box.width + box.x, view.width + view.x})
        lower == Min({box.height + box.y, view.height + view.y})
        whole == Inside(view, box)
        nextWidth == IF whole THEN width
                     ELSE BitSlide(right - Max({box.x, view.x}), slide)
        nextHeight == IF whole THEN height
                      ELSE BitSlide(lower - Max({box.y, view.y}), slide)
        inside == [n \in 1 .. Count(path) |->
            FindView(Append(path, n), nextWidth, nextHeight,
                     Twice(ClampedSubtract(x, box.x)), Twice(ClampedSubtract(y, box.y)),
                     z, end)]
    IN  IF \/ i = end \/ Outside(view, box)
           \/ BitSlide(box.width, slide) = 0 \/ BitSlide(box.height, slide) = 0
        THEN {}
        ELSE {path} \union UNION {inside[n] : n \in 1 .. Count(path)}

Log2(n) == CHOOSE l \in 0 .. Bits : 2^l <= n /\ n < 2^(l + 1)
View(width, height, x, y, z) ==
    FindView(<<>>, width, height, x, y, z, z + Min({Log2(width), Log2(height)}))

-----------------------------------------------------------------------------
(* The boxes of one parent do not overlap and are inside of it. *)
BoxesNested ==
    \A path \in DOMAIN tree \ {<<>>} :
        /\ LET parent == tree[Front(path)] IN
           /\ tree[path].x + tree[path].width <= 2 * parent.width
           /\ tree[path].y + tree[path].height <= 2 * parent.height
        /\ \A n \in 1 .. Last(path) - 1 : Outside(tree[Append(Front(path), n)], tree[path])

(* find gives the root, or a box without children; and that one has the    *)
(* point, if the root is at 0, 0 and only last children have children.     *)
FindsInside(x, y) ==
    LET found == Find(x, y) IN
    /\ found # <<>> => Count(found) = 0
    /\ (\A path \in DOMAIN tree \ {<<>>} : Count(path) > 0 => Last(path) = Count(Front(path)))
           /\ found # <<>> => HasPoint(found, x, y)

(* view draws every box of at least a pixel that shares a pixel with the   *)
(* window, if the levels the window spans fit in the type.                 *)
DrawsWhole(width, height, x, y, z) ==
    LET drawn == View(width, height, x, y, z)
        pixel == IF z < 0 THEN One * 2^(-z) ELSE One \div 2^z
        Shares(at, size, from, length) ==
            Min({at + size, from + length * pixel}) - Max({at, from}) >= pixel
    IN  \A path \in DOMAIN tree :
            /\ Len(path) < z + Min({Log2(width), Log2(height)})
            /\ \A n \in 0 .. Len(path) : LET p == SubSeq(path, 1, n) IN
                /\ tree[p].width * Scale(p) >= pixel /\ tree[p].height * Scale(p) >= pixel
                /\ Shares(PlaceX(p), tree[p].width * Scale(p), x, width)
                /\ Shares(PlaceY(p), tree[p].height * Scale(p), y, height)
            /\ Max({width, height}) * 2^Len(path) < Range2
            => path \in drawn
=============================================================================
