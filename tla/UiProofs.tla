------------------------------ MODULE UiProofs ------------------------------
(***************************************************************************)
(* PlacesRight, ViewerDraws, LayoutSound and PagesRight hold of the parts  *)
(* of Ui, for every size of a bin, a cache, a frame and a buffer, however  *)
(* far the viewer zooms, whatever texts are laid out, and for any number   *)
(* of pages and of units that make them.                                   *)
(***************************************************************************)
EXTENDS Ui, FiniteSetTheorems, SequenceTheorems, WellFoundedInduction, TLAPS

(***************************************************************************)
(* What the viewer has drawn.                                              *)
(***************************************************************************)

(* Between a draw and the wait nothing has been written, and what is drawn *)
(* is the zoom and the pages that are asked for.                           *)
ViewInv ==
    /\ step = "cache" => fresh = 0 /\ drawn = zoom /\ laid = View!Whole(zoom)
    /\ View!DrawsAll

(* The viewer begins with nothing to draw. *)
LEMMA ViewBegins == View!ViewInit => ViewInv
  BY DEF ViewInv, View!ViewInit, View!DrawsAll

(* A step of the viewer that writes a page draws again before the next     *)
(* wait.                                                                   *)
LEMMA ViewStays == ViewInv /\ [View!ViewNext]_viewVars => ViewInv'
<1> SUFFICES ASSUME ViewInv, [View!ViewNext]_viewVars
             PROVE  ViewInv'
  OBVIOUS
<1> USE DEF ViewInv, View!DrawsAll, View!cacheView, View!moving
<1>1. CASE View!Draw
  BY <1>1 DEF View!Draw
<1>2. CASE View!Arrive
  BY <1>2 DEF View!Arrive
<1>3. CASE View!WritePending
  BY <1>3 DEF View!WritePending
<1>4. CASE View!NonePending
  BY <1>4 DEF View!NonePending, View!Whole
<1>5. CASE View!Event
  BY <1>5 DEF View!Event
<1>6. CASE View!NoEvent
  BY <1>6 DEF View!NoEvent
<1>7. CASE UNCHANGED viewVars
  BY <1>7 DEF viewVars, View!Whole
<1>8. View!ZoomKey \/ View!Magnify \/ View!Pan \/ View!Escape => View!Event
  BY DEF View!ZoomKey, View!Magnify, View!Pan, View!Escape, View!ZoomTo
<1> QED
  BY <1>1, <1>2, <1>3, <1>4, <1>5, <1>6, <1>7, <1>8 DEF View!ViewNext

(***************************************************************************)
(* What the codec is given and gives.                                      *)
(***************************************************************************)

(* Every place in the file and in the two buffers is a number, and the     *)
(* bytes are in order.                                                     *)
StreamInv ==
    /\ filePlace \in 0 .. FileSize /\ left \in Nat /\ from \in Nat /\ wanted \in Nat
    /\ free \in 1 .. PageSize /\ put \in Nat /\ flushed \in Nat
    /\ rowX \in Nat /\ rowY \in Nat /\ rowsTaken \in Nat
    /\ Stream!StreamsInOrder

(* A codec begins at the start of its file, of its row and of its buffer. *)
LEMMA StreamBegins == Stream!StreamInit => StreamInv
  BY UiAssumption DEF SizesAreNumbers, StreamInv, Stream!StreamInit,
     Stream!StreamsInOrder, Stream!Term

(* Neither a refill in the middle of a read, nor a skip past the end of    *)
(* the buffer, nor a row that is read in parts brings the bytes out of     *)
(* order.                                                                  *)
LEMMA StreamStays == StreamInv /\ [Stream!StreamNext]_streamVars => StreamInv'
<1> SUFFICES ASSUME StreamInv, [Stream!StreamNext]_streamVars
             PROVE  StreamInv'
  OBVIOUS
<1> USE UiAssumption DEF SizesAreNumbers, StreamInv, Stream!StreamsInOrder,
        Stream!Term, Stream!Lesser
<1>1. CASE Stream!Take
  BY <1>1 DEF Stream!Take, Stream!targetVars, Stream!readerVars
<1>2. ASSUME NEW size \in Skips, Stream!Skip(size)
      PROVE  StreamInv'
  BY <1>2 DEF Stream!Skip, Stream!targetVars, Stream!readerVars
<1>3. CASE Stream!Put
  BY <1>3 DEF Stream!Put, Stream!sourceVars, Stream!readerVars
<1>4. CASE Stream!DecodeRow
  BY <1>4 DEF Stream!DecodeRow, Stream!sourceVars, Stream!targetVars
<1>5. ASSUME NEW pixels \in Chunks, Stream!ReadPixels(pixels)
      PROVE  StreamInv'
  BY <1>5 DEF Stream!ReadPixels, Stream!sourceVars, Stream!targetVars
<1>6. CASE Stream!Close
  BY <1>6 DEF Stream!Close, Stream!sourceVars, Stream!targetVars
<1>7. CASE UNCHANGED streamVars
  BY <1>7 DEF streamVars
<1> QED
  BY <1>1, <1>2, <1>3, <1>4, <1>5, <1>6, <1>7 DEF Stream!StreamNext

(* For a file, a buffer and rows of any size a codec is given the bytes of *)
(* its file in their order, and loses none of those that it gives.         *)
THEOREM StreamIsInOrder == StreamSpec => []Stream!StreamsInOrder
<1>1. StreamInv => Stream!StreamsInOrder
  BY DEF StreamInv
<1> QED
  BY <1>1, StreamBegins, StreamStays, PTL DEF StreamSpec

(***************************************************************************)
(* What a frame draws to.                                                  *)
(***************************************************************************)

(* The module counts with a definition of its own, which is the library's. *)
LEMMA SameCardinality == \A S : Frame!Cardinality(S) = Cardinality(S)
  BY DEF Frame!Cardinality, Cardinality

(* A frame that is built has been checked against the images it has now,   *)
(* and has the outputs of the program that are below their number.         *)
FrameInv ==
    /\ attached \in [Outputs -> Images \union {NoImage}]
    /\ frameState \in {"none", "checked", "built"}
    /\ frameState # "none" => replaced \/ Frame!Complete
    /\ frameState = "built" =>
        /\ outputs = {l \in Frame!Located : l < Cardinality(Frame!Located)}
        /\ Cardinality(Frame!Located) <= DrawBuffers

(* A frame begins with no image and nothing built. *)
LEMMA FrameBegins == Frame!FrameInit => FrameInv
  BY DEF Frame!FrameInit, FrameInv

(* An image that is attached later, a check and a build each leave what is *)
(* built in agreement with what is attached.                               *)
LEMMA FrameStays == FrameInv /\ [Frame!FrameNext]_frameVars => FrameInv'
<1> SUFFICES ASSUME FrameInv, [Frame!FrameNext]_frameVars
             PROVE  FrameInv'
  OBVIOUS
<1> USE UiAssumption DEF OutputsNumbered, FrameInv
<1>1. ASSUME NEW l \in Outputs, NEW image \in Images, Frame!Output(l, image)
      PROVE  FrameInv'
  <2>1. attached[l] # NoImage => Frame!Located' = Frame!Located
    BY <1>1 DEF Frame!Output, Frame!Located
  <2> QED
    BY <1>1, <2>1 DEF Frame!Output
<1>2. ASSUME NEW image \in Images, Frame!OutputDepth(image)
      PROVE  FrameInv'
  <2>1. Frame!Located' = Frame!Located
    BY <1>2 DEF Frame!OutputDepth, Frame!Located
  <2> QED
    BY <1>2, <2>1 DEF Frame!OutputDepth
<1>3. ASSUME UNCHANGED <<attached, depth>>
      PROVE  Frame!Located' = Frame!Located /\ Frame!Complete' = Frame!Complete
  BY <1>3 DEF Frame!Located, Frame!Complete
<1>4. CASE Frame!Use
  BY <1>3, <1>4 DEF Frame!Use, Frame!Checked
<1>5. ASSUME NEW program \in Programs, Frame!EnableFrame(program)
      PROVE  FrameInv'
  <2>1. Cardinality(Frame!Located) \in Nat
    BY FS_CardinalityType, FS_Subset DEF Frame!Located
  <2> DEFINE n == Cardinality(Frame!Located)
             refused == \/ program # Program \/ n > DrawBuffers
                        \/ Frame!Checked = "none"
  <2>2. UNCHANGED <<attached, depth, replaced>>
    BY <1>5 DEF Frame!EnableFrame
  <2>3. CASE frameState = "built"
    BY <1>3, <1>5, <2>2, <2>3 DEF Frame!EnableFrame
  <2>4. CASE frameState # "built" /\ (refused \/ Frame!Located = {})
    <3>1. frameState' \in {frameState, Frame!Checked}
      BY <1>5, <2>1, <2>4, SameCardinality DEF Frame!EnableFrame
    <3> QED
      BY <1>3, <2>2, <2>4, <3>1 DEF Frame!Checked
  <2>5. CASE frameState # "built" /\ ~ refused /\ Frame!Located # {}
    <3>1. frameState' = "built" /\ outputs' = {l \in Frame!Located : l < n}
      BY <1>5, <2>5, SameCardinality DEF Frame!EnableFrame
    <3>2. n <= DrawBuffers
      BY <2>1, <2>5
    <3>3. replaced \/ Frame!Complete
      BY <2>5 DEF Frame!Checked
    <3> QED
      BY <1>3, <2>2, <3>1, <3>2, <3>3
  <2> QED
    BY <2>3, <2>4, <2>5
<1>6. CASE UNCHANGED frameVars
  BY <1>3, <1>6 DEF frameVars
<1> QED
  BY <1>1, <1>2, <1>4, <1>5, <1>6 DEF Frame!FrameNext

(* For any outputs, images and programs a draw reaches each output that    *)
(* has an image, when they are numbered from 0 on without a gap, and no    *)
(* other.                                                                  *)
THEOREM FrameReachesAll == FrameSpec => []Frame!DrawsReachAll
<1>1. FrameInv => Frame!DrawsReachAll
  <2> SUFFICES ASSUME FrameInv, frameState = "built"
               PROVE  Frame!DrawsReachAll
    BY DEF Frame!DrawsReachAll
  <2>1. Cardinality(Frame!Located) \in Nat
    BY UiAssumption, FS_CardinalityType, FS_Subset DEF OutputsNumbered, Frame!Located
  <2>2. Frame!Located \subseteq Nat
    BY UiAssumption DEF OutputsNumbered, Frame!Located
  <2>3. ASSUME Frame!Located = 0 .. Cardinality(Frame!Located) - 1
        PROVE  outputs = Frame!Located
    <3> DEFINE n == Cardinality(Frame!Located)
    <3>1. \A l \in 0 .. n - 1 : l < n
      BY <2>1
    <3>2. \A l \in Frame!Located : l < n
      BY <2>3, <3>1
    <3>3. outputs = {l \in Frame!Located : l < n}
      BY DEF FrameInv
    <3> HIDE DEF n
    <3> QED
      BY <3>2, <3>3
  <2>4. outputs \subseteq Frame!Located /\ Cardinality(Frame!Located) <= DrawBuffers
    BY DEF FrameInv
  <2>5. replaced \/ Frame!Complete
    BY DEF FrameInv
  <2>6. Frame!Cardinality(Frame!Located) = Cardinality(Frame!Located)
    BY SameCardinality
  <2> QED
    BY <2>3, <2>4, <2>5, <2>6 DEF Frame!DrawsReachAll
<1> QED
  BY <1>1, FrameBegins, FrameStays, PTL DEF FrameSpec

(***************************************************************************)
(* What the cache of glyphs holds.                                         *)
(***************************************************************************)

(* The keys that the map has. *)
Held == {k \in CacheKeys : place[k] # NoNode}

(* The list has each of the first nodes, and the map and the nodes name    *)
(* each other.                                                             *)
NodesInv ==
    /\ order \in Seq(1 .. CacheMax) /\ Len(order) <= CacheMax
    /\ node \in [1 .. CacheMax -> CacheKeys \union {NoNode}]
    /\ place \in [CacheKeys -> 1 .. CacheMax \union {NoNode}]
    /\ \A i \in 1 .. Len(order) : order[i] \in 1 .. Len(order)
    /\ \A n \in 1 .. Len(order) : node[n] \in CacheKeys /\ place[node[n]] = n
    /\ \A k \in Held : place[k] \in 1 .. Len(order) /\ node[place[k]] = k
    /\ IsFiniteSet(Held) /\ Cardinality(Held) = Len(order)

(* The cache begins without keys. *)
LEMMA NodesBegin == Nodes!CacheInit => NodesInv
<1> SUFFICES ASSUME Nodes!CacheInit PROVE NodesInv
  OBVIOUS
<1>1. Held = {}
  BY DEF Nodes!CacheInit, Held
<1>2. IsFiniteSet(Held) /\ Cardinality(Held) = 0
  BY <1>1, FS_EmptySet
<1>3. order = <<>> /\ Len(order) = 0
  BY DEF Nodes!CacheInit
<1> QED
  BY <1>1, <1>2, <1>3, UiAssumption DEF RoomInCache, Nodes!CacheInit, Nodes!Nodes, NodesInv

(* The size that the code asks the map for. *)
LEMMA SizeIsHeld == Nodes!CacheSize = Cardinality(Held)
  BY DEF Nodes!CacheSize, Nodes!Cardinality, Cardinality, Held

(* A set in which one element takes the place of another is as large. *)
LEMMA SwappedIsAsLarge ==
    ASSUME NEW S, IsFiniteSet(S), NEW a \in S, NEW b, b \notin S
    PROVE  /\ IsFiniteSet((S \ {a}) \union {b})
           /\ Cardinality((S \ {a}) \union {b}) = Cardinality(S)
<1> DEFINE T == S \ {a}
<1>1. IsFiniteSet(T) /\ Cardinality(T) = Cardinality(S) - 1
  BY FS_RemoveElement
<1>2. b \notin T /\ Cardinality(S) \in Nat
  BY FS_CardinalityType
<1> HIDE DEF T
<1>3. IsFiniteSet(T \union {b}) /\ Cardinality(T \union {b}) = Cardinality(T) + 1
  BY <1>1, <1>2, FS_AddElement
<1> QED
  BY <1>1, <1>2, <1>3 DEF T

(* A new node and the reuse of the oldest one leave list, nodes and map in *)
(* agreement.                                                              *)
LEMMA NodesStay == NodesInv /\ [Nodes!CacheNext]_nodeVars => NodesInv'
<1> SUFFICES ASSUME NodesInv, [Nodes!CacheNext]_nodeVars
             PROVE  NodesInv'
  OBVIOUS
<1> USE UiAssumption DEF RoomInCache
<1>0. Len(order) \in Nat
  BY DEF NodesInv
<1>1. ASSUME NEW k \in CacheKeys, Nodes!CacheFill(k)
      PROVE  NodesInv'
  <2> DEFINE n == Len(order) + 1
  <2>1. /\ place[k] = NoNode /\ Len(order) < CacheMax
        /\ order' = Append(order, n)
        /\ node' = [node EXCEPT ![n] = k] /\ place' = [place EXCEPT ![k] = n]
    BY <1>1, SizeIsHeld DEF Nodes!CacheFill, NodesInv
  <2>2. n \in 1 .. CacheMax
    BY <1>0, <2>1
  <2>3. /\ order' \in Seq(1 .. CacheMax) /\ Len(order') = n
        /\ \A i \in 1 .. Len(order') : order'[i] = IF i = n THEN n ELSE order[i]
    BY <1>0, <2>1, <2>2 DEF NodesInv
  <2>4. Held' = Held \union {k} /\ k \notin Held
    BY <2>1, <2>2 DEF Held, NodesInv
  <2>5. IsFiniteSet(Held') /\ Cardinality(Held') = n
    BY <2>4, FS_AddElement DEF NodesInv
  <2>6. /\ node' \in [1 .. CacheMax -> CacheKeys \union {NoNode}]
        /\ place' \in [CacheKeys -> 1 .. CacheMax \union {NoNode}]
    BY <2>1, <2>2 DEF NodesInv
  <2>7. \A i \in 1 .. n : order'[i] \in 1 .. n
    BY <1>0, <2>3 DEF NodesInv
  <2>8. \A m \in 1 .. n : node'[m] \in CacheKeys /\ place'[node'[m]] = m
    BY <1>0, <2>1, <2>2 DEF NodesInv
  <2>9. \A j \in Held' : place'[j] \in 1 .. n /\ node'[place'[j]] = j
    BY <1>0, <2>1, <2>2, <2>4 DEF NodesInv
  <2> QED
    BY <2>2, <2>3, <2>5, <2>6, <2>7, <2>8, <2>9 DEF NodesInv
<1>2. ASSUME NEW k \in CacheKeys, Nodes!CacheReuse(k)
      PROVE  NodesInv'
  <2> DEFINE n == order[1]
             old == node[n]
  <2>1. Len(order) = CacheMax /\ place[k] = NoNode /\ order # <<>>
    BY <1>0, <1>2, SizeIsHeld DEF Nodes!CacheReuse, NodesInv
  <2>2. /\ order' = Append(Tail(order), n)
        /\ node' = [node EXCEPT ![n] = k]
        /\ place' = [place EXCEPT ![old] = NoNode, ![k] = n]
    BY <1>2, <2>1 DEF Nodes!CacheReuse
  <2>3. n \in 1 .. CacheMax /\ old \in CacheKeys /\ place[old] = n /\ old # k
    BY <1>0, <2>1 DEF NodesInv
  <2>4. /\ order' \in Seq(1 .. CacheMax) /\ Len(order') = CacheMax
        /\ \A i \in 1 .. CacheMax : \E j \in 1 .. CacheMax : order'[i] = order[j]
    BY <1>0, <2>1, <2>2, <2>3 DEF NodesInv
  <2>5. Held' = (Held \ {old}) \union {k} /\ k \notin Held /\ old \in Held
    BY <2>2, <2>3, <2>1 DEF Held, NodesInv
  <2>6. IsFiniteSet(Held) /\ Cardinality(Held) = CacheMax
    BY <2>1 DEF NodesInv
  <2>7. IsFiniteSet(Held') /\ Cardinality(Held') = CacheMax
    BY <2>5, <2>6, SwappedIsAsLarge
  <2>8. /\ node' \in [1 .. CacheMax -> CacheKeys \union {NoNode}]
        /\ place' \in [CacheKeys -> 1 .. CacheMax \union {NoNode}]
    BY <2>2, <2>3 DEF NodesInv
  <2>9. \A i \in 1 .. CacheMax : order'[i] \in 1 .. CacheMax
    BY <2>1, <2>4 DEF NodesInv
  <2>10. \A m \in 1 .. CacheMax : node'[m] \in CacheKeys /\ place'[node'[m]] = m
    <3> SUFFICES ASSUME NEW m \in 1 .. CacheMax
                 PROVE  node'[m] \in CacheKeys /\ place'[node'[m]] = m
      OBVIOUS
    <3>1. CASE m = n
      BY <2>2, <2>3, <3>1 DEF NodesInv
    <3>2. CASE m # n
      <4>1. node'[m] = node[m] /\ node[m] \in CacheKeys /\ place[node[m]] = m
        BY <2>1, <2>2, <2>3, <3>2 DEF NodesInv
      <4>2. node[m] # old /\ node[m] # k
        BY <2>1, <2>3, <3>2, <4>1
      <4> QED
        BY <2>2, <4>1, <4>2 DEF NodesInv
    <3> QED
      BY <3>1, <3>2
  <2>11. \A j \in Held' : place'[j] \in 1 .. CacheMax /\ node'[place'[j]] = j
    BY <2>1, <2>2, <2>3, <2>5 DEF NodesInv
  <2> QED
    BY <2>4, <2>7, <2>8, <2>9, <2>10, <2>11 DEF NodesInv
<1>3. CASE UNCHANGED nodeVars
  BY <1>3 DEF nodeVars, NodesInv, Held
<1> QED
  BY <1>1, <1>2, <1>3 DEF Nodes!CacheNext

(* A cache of any size finds under a key the node of that key, in all      *)
(* three of its structures, and never holds more than it may.              *)
THEOREM CacheIsTrue == NodesSpec => []Nodes!CacheTrue
<1>1. NodesInv => Nodes!CacheTrue
  <2> SUFFICES ASSUME NodesInv PROVE Nodes!CacheTrue
    OBVIOUS
  <2>1. \A k \in CacheKeys : place[k] # NoNode => node[place[k]] = k
    BY DEF NodesInv, Held
  <2>2. Len(order) <= CacheMax /\ Nodes!CacheSize = Len(order)
    BY SizeIsHeld DEF NodesInv
  <2>3. \A n \in Nodes!ToSet(order) : place[node[n]] = n
    BY DEF NodesInv, Nodes!ToSet
  <2> QED
    BY <2>1, <2>2, <2>3 DEF Nodes!CacheTrue
<1> QED
  BY <1>1, NodesBegin, NodesStay, PTL DEF NodesSpec

(***************************************************************************)
(* What a bin has packed.                                                  *)
(***************************************************************************)

(* The rectangles of a bin. *)
Rects == [x : Nat, y : Nat, width : Nat, height : Nat, full : BOOLEAN]
(* A rectangle with its corner and its size. *)
Is(s, x, y, width, height) ==
    s \in Rects /\ s.x = x /\ s.y = y /\ s.width = width /\ s.height = height

(* A rectangle is in another. *)
Within(s, r) == /\ r.x <= s.x /\ s.x + s.width <= r.x + r.width
                /\ r.y <= s.y /\ s.y + s.height <= r.y + r.height

(* A new leaf has the corner and the size it is made of. *)
LEMMA LeafIs ==
  ASSUME NEW x \in Nat, NEW y \in Nat, NEW w \in Nat, NEW h \in Nat
  PROVE  Is(Packing!Leaf(x, y, w, h), x, y, w, h)
BY DEF Rects, Is, Packing!Leaf

(* A leaf that was cut to size and given out has its corner still. *)
LEMMA FullIs ==
  ASSUME NEW r \in Rects, NEW w \in Nat, NEW h \in Nat
  PROVE  LET full == [r EXCEPT !.width = w, !.height = h, !.full = TRUE]
         IN  Is(full, r.x, r.y, w, h) /\ full.full
BY DEF Rects, Is

(* A leaf that was given out whole has its corner and size still. *)
LEMMA OverIs ==
  ASSUME NEW r \in Rects
  PROVE  Is([r EXCEPT !.full = TRUE], r.x, r.y, r.width, r.height) /\ [r EXCEPT !.full = TRUE].full
BY DEF Rects, Is

(* The two halves of a pair. *)
LEMMA TwoAre == \A a, b : <<a, b>>[1] = a /\ <<a, b>>[2] = b
OBVIOUS

(* The two ways of split_node. *)
LEMMA SplitWide ==
  ASSUME NEW r \in Rects, NEW w \in Nat \ {0}, w <= r.width
  PROVE  LET cut == Packing!SplitNode(r, w, 0)
         IN  /\ Is(cut[1], r.x, r.y, w, r.height)
             /\ Is(cut[2], r.x + w, r.y, r.width - w, r.height)
<1>1. /\ r.x \in Nat /\ r.y \in Nat /\ r.x + w \in Nat /\ r.y + 0 = r.y
      /\ r.width - w \in Nat /\ r.height \in Nat /\ r.height - 0 = r.height /\ w # 0
  BY DEF Rects
<1>2. Packing!SplitNode(r, w, 0) = <<Packing!Leaf(r.x, r.y, w, r.height),
                                     Packing!Leaf(r.x + w, r.y, r.width - w, r.height)>>
  BY <1>1 DEF Packing!SplitNode
<1> QED
  BY <1>1, <1>2, LeafIs, TwoAre

LEMMA SplitTall ==
  ASSUME NEW r \in Rects, NEW h \in Nat \ {0}, h <= r.height
  PROVE  LET cut == Packing!SplitNode(r, 0, h)
         IN  /\ Is(cut[1], r.x, r.y, r.width, h)
             /\ Is(cut[2], r.x, r.y + h, r.width, r.height - h)
<1>1. /\ r.x \in Nat /\ r.y \in Nat /\ r.y + h \in Nat /\ r.x + 0 = r.x
      /\ r.height - h \in Nat /\ r.width \in Nat /\ r.width - 0 = r.width /\ h # 0
  BY DEF Rects
<1>2. Packing!SplitNode(r, 0, h) = <<Packing!Leaf(r.x, r.y, r.width, h),
                                     Packing!Leaf(r.x, r.y + h, r.width, r.height - h)>>
  BY <1>1 DEF Packing!SplitNode
<1> QED
  BY <1>1, <1>2, LeafIs, TwoAre

(* What is cut of a rectangle: the part that is given out first, then the  *)
(* rests, by the longer of the two sides that are left.                    *)
LEMMA CarveCuts ==
  ASSUME NEW r \in Rects, NEW w \in Nat \ {0}, NEW h \in Nat \ {0},
         w <= r.width, h <= r.height
  PROVE  LET wide == r.width - w
             tall == r.height - h
         IN  \E p, s, q :
                 /\ Is(p, r.x, r.y, w, h) /\ p.full
                 /\ \/ /\ wide = 0 /\ tall = 0 /\ Packing!Carve(r, w, h) = <<p>>
                    \/ /\ wide = 0 /\ tall > 0 /\ Packing!Carve(r, w, h) = <<p, s>>
                       /\ Is(s, r.x, r.y + h, w, tall)
                    \/ /\ wide > 0 /\ tall = 0 /\ Packing!Carve(r, w, h) = <<p, s>>
                       /\ Is(s, r.x + w, r.y, wide, h)
                    \/ /\ wide > 0 /\ tall > 0 /\ Packing!Carve(r, w, h) = <<p, s, q>>
                       /\ \/ /\ Is(s, r.x, r.y + h, w, tall)
                             /\ Is(q, r.x + w, r.y, wide, r.height)
                          \/ /\ Is(s, r.x + w, r.y, wide, h)
                             /\ Is(q, r.x, r.y + h, r.width, tall)
<1> DEFINE wide == r.width - w
           tall == r.height - h
           full == [r EXCEPT !.width = w, !.height = h, !.full = TRUE]
           a == Packing!SplitNode(r, w, 0)
           b == Packing!SplitNode(r, 0, h)
           aa == Packing!SplitNode(a[1], 0, h)
           bb == Packing!SplitNode(b[1], w, 0)
           Over1(c) == [c[1] EXCEPT !.full = TRUE]
<1>1. wide \in Nat /\ tall \in Nat /\ w \in Nat /\ h \in Nat
  BY DEF Rects
<1>2. Is(full, r.x, r.y, w, h) /\ full.full
  BY FullIs
<1>3. Is(a[1], r.x, r.y, w, r.height) /\ Is(a[2], r.x + w, r.y, wide, r.height)
  BY SplitWide
<1>4. Is(b[1], r.x, r.y, r.width, h) /\ Is(b[2], r.x, r.y + h, r.width, tall)
  BY SplitTall
<1>5. Is(aa[1], r.x, r.y, w, h) /\ Is(aa[2], r.x, r.y + h, w, tall)
  <2> HIDE DEF a
  <2> QED
    BY <1>3, SplitTall DEF Is
<1>6. Is(bb[1], r.x, r.y, w, h) /\ Is(bb[2], r.x + w, r.y, wide, h)
  <2> HIDE DEF b
  <2> QED
    BY <1>4, SplitWide DEF Is
<1>7. Is(Over1(aa), r.x, r.y, w, h) /\ Over1(aa).full
  <2> HIDE DEF aa
  <2> QED
    BY <1>5, OverIs DEF Is
<1>8. Is(Over1(bb), r.x, r.y, w, h) /\ Over1(bb).full
  <2> HIDE DEF bb
  <2> QED
    BY <1>6, OverIs DEF Is
<1>9. Packing!Carve(r, w, h) =
          IF wide = 0 /\ tall = 0 THEN <<full>>
          ELSE IF wide = 0 \/ tall = 0 THEN <<full, IF wide >= tall THEN a[2] ELSE b[2]>>
          ELSE IF wide >= tall THEN <<Over1(aa), aa[2], a[2]>> ELSE <<Over1(bb), bb[2], b[2]>>
  BY DEF Packing!Carve
<1>10. wide = 0 => w = r.width
  BY DEF Rects
<1>11. tall = 0 => h = r.height
  BY DEF Rects
<1> HIDE DEF wide, tall, full, a, b, aa, bb, Over1
<1>12. CASE wide = 0 /\ tall = 0
  BY <1>2, <1>9, <1>12 DEF wide, tall
<1>13. CASE wide = 0 /\ tall > 0
  <2>1. Packing!Carve(r, w, h) = <<full, b[2]>>
    BY <1>1, <1>9, <1>13
  <2>2. Is(b[2], r.x, r.y + h, w, tall)
    BY <1>4, <1>10, <1>13
  <2> QED
    BY <1>2, <1>13, <2>1, <2>2 DEF wide, tall
<1>14. CASE wide > 0 /\ tall = 0
  <2>1. Packing!Carve(r, w, h) = <<full, a[2]>>
    BY <1>1, <1>9, <1>14
  <2>2. Is(a[2], r.x + w, r.y, wide, h)
    BY <1>3, <1>11, <1>14
  <2> QED
    BY <1>2, <1>14, <2>1, <2>2 DEF wide, tall
<1>15. CASE wide > 0 /\ tall > 0 /\ wide >= tall
  <2>1. Packing!Carve(r, w, h) = <<Over1(aa), aa[2], a[2]>>
    BY <1>1, <1>9, <1>15
  <2> QED
    BY <1>3, <1>5, <1>7, <1>15, <2>1 DEF wide, tall
<1>16. CASE wide > 0 /\ tall > 0 /\ ~ wide >= tall
  <2>1. Packing!Carve(r, w, h) = <<Over1(bb), bb[2], b[2]>>
    BY <1>1, <1>9, <1>16
  <2> QED
    BY <1>4, <1>6, <1>8, <1>16, <2>1 DEF wide, tall
<1>17. (wide = 0 \/ wide > 0) /\ (tall = 0 \/ tall > 0)
  BY <1>1
<1> QED
  BY <1>12, <1>13, <1>14, <1>15, <1>16, <1>17

(* The parts of a rectangle are rectangles in it, the first of them full,  *)
(* none over another, and every place is in one of them.                   *)
LEMMA CarveParts ==
  ASSUME NEW r \in Rects, NEW w \in Nat \ {0}, NEW h \in Nat \ {0},
         w <= r.width, h <= r.height
  PROVE  LET new == Packing!Carve(r, w, h)
         IN  /\ new \in Seq(Rects) /\ Len(new) \in Nat \ {0} /\ new[1].full
             /\ \A i \in 1 .. Len(new) : Within(new[i], r)
             /\ \A i, j \in 1 .. Len(new) : i # j => ~ Packing!Over(new[i], new[j])
             /\ \A x, y \in Nat : Packing!Inside(x, y, r) =>
                    \E i \in 1 .. Len(new) : Packing!Inside(x, y, new[i])
<1> DEFINE wide == r.width - w
           tall == r.height - h
           Parts(s) == /\ s \in Seq(Rects) /\ Len(s) \in Nat \ {0} /\ s[1].full
                       /\ \A i \in 1 .. Len(s) : Within(s[i], r)
                       /\ \A i, j \in 1 .. Len(s) : i # j => ~ Packing!Over(s[i], s[j])
                       /\ \A x, y \in Nat : Packing!Inside(x, y, r) =>
                              \E i \in 1 .. Len(s) : Packing!Inside(x, y, s[i])
<1>1. PICK p, s, q :
          /\ Is(p, r.x, r.y, w, h) /\ p.full
          /\ \/ /\ wide = 0 /\ tall = 0 /\ Packing!Carve(r, w, h) = <<p>>
             \/ /\ wide = 0 /\ tall > 0 /\ Packing!Carve(r, w, h) = <<p, s>>
                /\ Is(s, r.x, r.y + h, w, tall)
             \/ /\ wide > 0 /\ tall = 0 /\ Packing!Carve(r, w, h) = <<p, s>>
                /\ Is(s, r.x + w, r.y, wide, h)
             \/ /\ wide > 0 /\ tall > 0 /\ Packing!Carve(r, w, h) = <<p, s, q>>
                /\ \/ /\ Is(s, r.x, r.y + h, w, tall)
                      /\ Is(q, r.x + w, r.y, wide, r.height)
                   \/ /\ Is(s, r.x + w, r.y, wide, h)
                      /\ Is(q, r.x, r.y + h, r.width, tall)
  BY CarveCuts
<1> USE DEF Rects
<1>2. Within(p, r)
  BY <1>1 DEF Is, Within
<1>3. CASE wide = 0 /\ tall = 0 /\ Packing!Carve(r, w, h) = <<p>>
  <2> DEFINE t == <<p>>
  <2>1. p \in Rects /\ \A x, y \in Nat : Packing!Inside(x, y, r) => Packing!Inside(x, y, p)
    BY <1>1, <1>3 DEF Is, Packing!Inside
  <2> HIDE DEF Rects
  <2>2. t \in Seq(Rects) /\ Len(t) = 1 /\ t[1] = p
    BY <2>1
  <2> HIDE DEF t
  <2>3. Parts(t)
    BY <1>1, <1>2, <2>1, <2>2
  <2> QED
    BY <1>3, <2>3 DEF t
<1>4. ASSUME s \in Rects, Within(s, r), ~ Packing!Over(p, s), ~ Packing!Over(s, p),
             \A x, y \in Nat : Packing!Inside(x, y, r) =>
                 Packing!Inside(x, y, p) \/ Packing!Inside(x, y, s)
      PROVE  Parts(<<p, s>>)
  <2> DEFINE t == <<p, s>>
  <2> HIDE DEF Rects
  <2>1. t \in Seq(Rects) /\ Len(t) = 2 /\ t[1] = p /\ t[2] = s
    BY <1>1, <1>4 DEF Is
  <2> HIDE DEF t
  <2>2. \A i \in 1 .. Len(t) : i = 1 \/ i = 2
    BY <2>1
  <2>3. \A i, j \in 1 .. Len(t) : i # j => ~ Packing!Over(t[i], t[j])
    BY <1>4, <2>1, <2>2
  <2>4. \A i \in 1 .. Len(t) : Within(t[i], r)
    BY <1>2, <1>4, <2>1, <2>2
  <2>5. \A x, y \in Nat : Packing!Inside(x, y, r) =>
            \E i \in 1 .. Len(t) : Packing!Inside(x, y, t[i])
    BY <1>4, <2>1
  <2>6. Parts(t)
    BY <1>1, <2>1, <2>3, <2>4, <2>5
  <2> QED
    BY <2>6 DEF t
<1>5. ASSUME s \in Rects, q \in Rects, Within(s, r), Within(q, r),
             ~ Packing!Over(p, s), ~ Packing!Over(s, p), ~ Packing!Over(p, q),
             ~ Packing!Over(q, p), ~ Packing!Over(s, q), ~ Packing!Over(q, s),
             \A x, y \in Nat : Packing!Inside(x, y, r) =>
                 \/ Packing!Inside(x, y, p) \/ Packing!Inside(x, y, s)
                 \/ Packing!Inside(x, y, q)
      PROVE  Parts(<<p, s, q>>)
  <2> DEFINE t == <<p, s, q>>
  <2> HIDE DEF Rects
  <2>1. t \in Seq(Rects) /\ Len(t) = 3 /\ t[1] = p /\ t[2] = s /\ t[3] = q
    BY <1>1, <1>5 DEF Is
  <2> HIDE DEF t
  <2>2. \A i \in 1 .. Len(t) : i = 1 \/ i = 2 \/ i = 3
    BY <2>1
  <2>3. \A i, j \in 1 .. Len(t) : i # j => ~ Packing!Over(t[i], t[j])
    BY <1>5, <2>1, <2>2
  <2>4. \A i \in 1 .. Len(t) : Within(t[i], r)
    BY <1>2, <1>5, <2>1, <2>2
  <2>5. \A x, y \in Nat : Packing!Inside(x, y, r) =>
            \E i \in 1 .. Len(t) : Packing!Inside(x, y, t[i])
    BY <1>5, <2>1
  <2>6. Parts(t)
    BY <1>1, <2>1, <2>3, <2>4, <2>5
  <2> QED
    BY <2>6 DEF t
<1>6. CASE wide = 0 /\ tall > 0 /\ Packing!Carve(r, w, h) = <<p, s>>
           /\ Is(s, r.x, r.y + h, w, tall)
  <2>1. s \in Rects /\ Within(s, r) /\ ~ Packing!Over(p, s) /\ ~ Packing!Over(s, p)
    BY <1>1, <1>6 DEF Is, Within, Packing!Over
  <2>2. \A x, y \in Nat : Packing!Inside(x, y, r) =>
            Packing!Inside(x, y, p) \/ Packing!Inside(x, y, s)
    BY <1>1, <1>6 DEF Is, Packing!Inside
  <2> HIDE DEF Parts
  <2>3. Parts(<<p, s>>)
    BY <1>4, <2>1, <2>2
  <2> QED
    BY <1>6, <2>3 DEF Parts
<1>7. CASE wide > 0 /\ tall = 0 /\ Packing!Carve(r, w, h) = <<p, s>>
           /\ Is(s, r.x + w, r.y, wide, h)
  <2>1. s \in Rects /\ Within(s, r) /\ ~ Packing!Over(p, s) /\ ~ Packing!Over(s, p)
    BY <1>1, <1>7 DEF Is, Within, Packing!Over
  <2>2. \A x, y \in Nat : Packing!Inside(x, y, r) =>
            Packing!Inside(x, y, p) \/ Packing!Inside(x, y, s)
    BY <1>1, <1>7 DEF Is, Packing!Inside
  <2> HIDE DEF Parts
  <2>3. Parts(<<p, s>>)
    BY <1>4, <2>1, <2>2
  <2> QED
    BY <1>7, <2>3 DEF Parts
<1>8. CASE /\ wide > 0 /\ tall > 0 /\ Packing!Carve(r, w, h) = <<p, s, q>>
           /\ Is(s, r.x, r.y + h, w, tall) /\ Is(q, r.x + w, r.y, wide, r.height)
  <2>1. s \in Rects /\ q \in Rects /\ Within(s, r) /\ Within(q, r)
    BY <1>1, <1>8 DEF Is, Within
  <2>2. /\ ~ Packing!Over(p, s) /\ ~ Packing!Over(s, p) /\ ~ Packing!Over(p, q)
        /\ ~ Packing!Over(q, p) /\ ~ Packing!Over(s, q) /\ ~ Packing!Over(q, s)
    BY <1>1, <1>8 DEF Is, Packing!Over
  <2>3. \A x, y \in Nat : Packing!Inside(x, y, r) =>
            \/ Packing!Inside(x, y, p) \/ Packing!Inside(x, y, s) \/ Packing!Inside(x, y, q)
    BY <1>1, <1>8 DEF Is, Packing!Inside
  <2> HIDE DEF Parts
  <2>4. Parts(<<p, s, q>>)
    BY <1>5, <2>1, <2>2, <2>3
  <2> QED
    BY <1>8, <2>4 DEF Parts
<1>9. CASE /\ wide > 0 /\ tall > 0 /\ Packing!Carve(r, w, h) = <<p, s, q>>
           /\ Is(s, r.x + w, r.y, wide, h) /\ Is(q, r.x, r.y + h, r.width, tall)
  <2>1. s \in Rects /\ q \in Rects /\ Within(s, r) /\ Within(q, r)
    BY <1>1, <1>9 DEF Is, Within
  <2>2. /\ ~ Packing!Over(p, s) /\ ~ Packing!Over(s, p) /\ ~ Packing!Over(p, q)
        /\ ~ Packing!Over(q, p) /\ ~ Packing!Over(s, q) /\ ~ Packing!Over(q, s)
    BY <1>1, <1>9 DEF Is, Packing!Over
  <2>3. \A x, y \in Nat : Packing!Inside(x, y, r) =>
            \/ Packing!Inside(x, y, p) \/ Packing!Inside(x, y, s) \/ Packing!Inside(x, y, q)
    BY <1>1, <1>9 DEF Is, Packing!Inside
  <2> HIDE DEF Parts
  <2>4. Parts(<<p, s, q>>)
    BY <1>5, <2>1, <2>2, <2>3
  <2> QED
    BY <1>9, <2>4 DEF Parts
<1> HIDE DEF wide, tall
<1> QED
  BY <1>1, <1>3, <1>6, <1>7, <1>8, <1>9

(* Where one element of a sequence gives way to several. *)
LEMMA Spliced ==
  ASSUME NEW S, NEW s \in Seq(S), NEW t \in Seq(S), NEW n \in 1 .. Len(s)
  PROVE  LET u == SubSeq(s, 1, n - 1) \o t \o SubSeq(s, n + 1, Len(s))
         IN  /\ u \in Seq(S) /\ Len(u) = Len(s) + Len(t) - 1
             /\ \A i \in 1 .. Len(u) :
                    u[i] = IF i < n THEN s[i]
                           ELSE IF i < n + Len(t) THEN t[i - n + 1] ELSE s[i - Len(t) + 1]
<1> DEFINE a == SubSeq(s, 1, n - 1)
           b == SubSeq(s, n + 1, Len(s))
           c == a \o t
           u == c \o b
<1>1. Len(s) \in Nat /\ Len(t) \in Nat /\ n \in Nat /\ \A i \in 1 .. Len(s) : s[i] \in S
  OBVIOUS
<1>2. /\ a \in Seq(S) /\ Len(a) = n - 1
      /\ \A i \in 1 .. n - 1 : a[i] = s[i]
  <2>1. \A i \in 1 .. n - 1 : s[i] \in S
    BY <1>1
  <2>2. /\ a \in Seq(S) /\ Len(a) = IF 1 <= n - 1 THEN n - 1 - 1 + 1 ELSE 0
        /\ \A i \in 1 .. n - 1 - 1 + 1 : a[i] = s[1 + i - 1]
    BY <1>1, <2>1, SubSeqProperties
  <2> HIDE DEF a
  <2> QED
    BY <1>1, <2>2
<1>3. /\ b \in Seq(S) /\ Len(b) = Len(s) - n
      /\ \A i \in 1 .. Len(s) - n : b[i] = s[n + i]
  <2>1. \A i \in n + 1 .. Len(s) : s[i] \in S
    BY <1>1
  <2>2. /\ b \in Seq(S) /\ Len(b) = IF n + 1 <= Len(s) THEN Len(s) - (n + 1) + 1 ELSE 0
        /\ \A i \in 1 .. Len(s) - (n + 1) + 1 : b[i] = s[n + 1 + i - 1]
    BY <1>1, <2>1, SubSeqProperties
  <2> HIDE DEF b
  <2> QED
    BY <1>1, <2>2
<1> HIDE DEF a, b
<1>4. /\ c \in Seq(S) /\ Len(c) = Len(a) + Len(t)
      /\ \A i \in 1 .. Len(a) + Len(t) : c[i] = IF i <= Len(a) THEN a[i] ELSE t[i - Len(a)]
  BY <1>2, ConcatProperties
<1> HIDE DEF c
<1>5. /\ u \in Seq(S) /\ Len(u) = Len(c) + Len(b)
      /\ \A i \in 1 .. Len(c) + Len(b) : u[i] = IF i <= Len(c) THEN c[i] ELSE b[i - Len(c)]
  <2>1. b \in Seq(S) /\ c \in Seq(S)
    BY <1>3, <1>4
  <2> QED
    BY <2>1, ConcatProperties
<1> HIDE DEF u
<1>6. Len(u) = Len(s) + Len(t) - 1 /\ Len(c) = n - 1 + Len(t)
  BY <1>1, <1>2, <1>3, <1>4, <1>5
<1>7. ASSUME NEW i \in 1 .. Len(u)
      PROVE  u[i] = IF i < n THEN s[i]
                    ELSE IF i < n + Len(t) THEN t[i - n + 1] ELSE s[i - Len(t) + 1]
  <2>1. i \in Nat /\ i > 0 /\ i <= Len(s) + Len(t) - 1
    BY <1>1, <1>6
  <2>2. CASE i < n
    <3>1. i \in 1 .. n - 1 /\ i <= Len(c) /\ i <= Len(a) /\ i \in 1 .. Len(a) + Len(t)
      BY <1>1, <1>2, <1>6, <2>1, <2>2
    <3>2. a[i] = s[i]
      BY <1>2, <3>1
    <3>3. c[i] = a[i]
      BY <1>1, <1>2, <1>4, <3>1
    <3>4. u[i] = c[i]
      BY <1>5, <3>1
    <3> QED
      BY <2>2, <3>2, <3>3, <3>4
  <2>3. CASE i >= n /\ i < n + Len(t)
    <3>1. /\ i <= Len(c) /\ ~ i <= Len(a) /\ ~ i < n /\ i \in 1 .. Len(a) + Len(t)
          /\ i - Len(a) = i - n + 1
      BY <1>1, <1>2, <1>6, <2>1, <2>3
    <3>2. c[i] = t[i - n + 1]
      BY <1>4, <3>1
    <3>3. u[i] = c[i]
      BY <1>5, <3>1
    <3> QED
      BY <2>3, <3>1, <3>2, <3>3
  <2>4. CASE i >= n + Len(t)
    <3> DEFINE j == i - (n - 1 + Len(t))
    <3>1. j \in 1 .. Len(s) - n /\ n + j = i - Len(t) + 1
      BY <1>1, <1>6, <2>1, <2>4
    <3>2. u[i] = b[j]
      BY <1>1, <1>5, <1>6, <2>1, <2>4
    <3>3. b[j] = s[n + j]
      BY <1>3, <3>1
    <3> QED
      BY <1>1, <2>1, <2>4, <3>1, <3>2, <3>3
  <2> QED
    BY <1>1, <2>1, <2>2, <2>3, <2>4
<1> QED
  BY <1>5, <1>6, <1>7 DEF u, c, a, b

(* A set of places of a sequence has a first one: what is before it is the *)
(* smallest of the sets of what is before each of them.                    *)
LEMMA LeastExists ==
  ASSUME NEW n \in Nat, NEW U \in SUBSET (1 .. n), U # {}
  PROVE  \E s \in U : \A r \in U : s <= r
<1> DEFINE Below(s) == {r \in U : r < s}
           T == {Below(s) : s \in U}
<1>1. IsFiniteSet(U) /\ \A s \in U : s \in Nat
  <2>1. IsFiniteSet(1 .. n)
    BY FS_Interval
  <2>2. IsFiniteSet(U)
    BY <2>1, FS_Subset
  <2> QED
    BY <2>2
<1>2. \A s \in U : Below(s) \in FiniteSubsetsOf(U)
  <2>1. SUFFICES ASSUME NEW s \in U PROVE Below(s) \in FiniteSubsetsOf(U)
    OBVIOUS
  <2>2. Below(s) \in SUBSET U
    OBVIOUS
  <2>3. IsFiniteSet(Below(s))
    BY <1>1, <2>2, FS_Subset
  <2> QED
    BY <2>2, <2>3 DEF FiniteSubsetsOf
<1>3. T \subseteq FiniteSubsetsOf(U) /\ T # {}
  BY <1>2
<1>4. PICK x \in T : \A y \in T : <<y, x>> \notin StrictSubsetOrdering(U)
  BY <1>3, FS_StrictSubsetOrderingWellFounded, WFMin
<1>5. PICK s \in U : x = Below(s)
  OBVIOUS
<1>6. ASSUME NEW r \in U, r < s
      PROVE  FALSE
  <2>0. r \in Nat /\ s \in Nat /\ ~ r < r /\ \A q \in U : q < r => q < s
    BY <1>1, <1>6
  <2>1. Below(r) \in SUBSET Below(s) /\ r \in Below(s) /\ r \notin Below(r)
    BY <1>6, <2>0
  <2>2. <<Below(r), x>> \in StrictSubsetOrdering(U)
    BY <1>5, <2>1 DEF StrictSubsetOrdering
  <2> QED
    BY <1>4, <2>2
<1> QED
  BY <1>1, <1>6

(* The leaves ls are in the bin, apart, and cover it; what was given out,  *)
(* ps, is some of the full ones.                                           *)
Packed(ls, ps) ==
    /\ ls \in Seq(Rects)
    /\ \A n \in 1 .. Len(ls) : /\ ls[n].x + ls[n].width <= BinWidth
                               /\ ls[n].y + ls[n].height <= BinHeight
    /\ \A m, n \in 1 .. Len(ls) : m # n => ~ Packing!Over(ls[m], ls[n])
    /\ \A x \in 0 .. BinWidth - 1, y \in 0 .. BinHeight - 1 :
           \E n \in 1 .. Len(ls) : Packing!Inside(x, y, ls[n])
    /\ \A r \in ps : r.full /\ \E n \in 1 .. Len(ls) : r = ls[n]

(* The invariant of the bin. *)
BinInv == Packed(leaves, placed)

(* One leaf of the bin, in the beginning and after it is cleared. *)
LEMMA EmptyBin == Packed(<<Packing!Leaf(0, 0, BinWidth, BinHeight)>>, {})
<1> USE UiAssumption DEF SizesAreNumbers
<1> DEFINE r == Packing!Leaf(0, 0, BinWidth, BinHeight)
           ls == <<r>>
<1>1. Is(r, 0, 0, BinWidth, BinHeight)
  BY LeafIs
<1> HIDE DEF r
<1>2. r \in Rects /\ r.x + r.width <= BinWidth /\ r.y + r.height <= BinHeight
  BY <1>1 DEF Is
<1>3. \A x \in 0 .. BinWidth - 1, y \in 0 .. BinHeight - 1 : Packing!Inside(x, y, r)
  BY <1>1 DEF Is, Packing!Inside
<1>4. ls \in Seq(Rects) /\ Len(ls) = 1 /\ ls[1] = r
  BY <1>2
<1> HIDE DEF ls
<1>5. \A n \in 1 .. Len(ls) : n = 1
  BY <1>4
<1>6. Packed(ls, {})
  BY <1>2, <1>3, <1>4, <1>5 DEF Packed
<1> QED
  BY <1>6 DEF ls, r

(* The far edges of a rectangle are numbers, as its near ones. *)
LEMMA EdgesAreNumbers ==
  ASSUME NEW r \in Rects
  PROVE  r.x + r.width \in Nat /\ r.y + r.height \in Nat
BY DEF Rects

(* What is over no leaf has no part over it. *)
LEMMA PartsApart ==
  ASSUME NEW r \in Rects, NEW s \in Rects, NEW t \in Rects,
         Within(t, r), ~ Packing!Over(r, s)
  PROVE  ~ Packing!Over(t, s) /\ ~ Packing!Over(s, t)
BY DEF Rects, Within, Packing!Over

(* A leaf that is not full gives way to parts of it, and the first of them *)
(* is given out.                                                           *)
LEMMA PackedByParts ==
  ASSUME NEW ls, NEW ps, Packed(ls, ps), NEW n \in 1 .. Len(ls), ~ ls[n].full,
         NEW t \in Seq(Rects), Len(t) \in Nat \ {0}, t[1].full,
         \A i \in 1 .. Len(t) : Within(t[i], ls[n]),
         \A i, j \in 1 .. Len(t) : i # j => ~ Packing!Over(t[i], t[j]),
         \A x, y \in Nat : Packing!Inside(x, y, ls[n]) =>
             \E i \in 1 .. Len(t) : Packing!Inside(x, y, t[i])
  PROVE  Packed(SubSeq(ls, 1, n - 1) \o t \o SubSeq(ls, n + 1, Len(ls)), ps \union {t[1]})
<1> DEFINE u == SubSeq(ls, 1, n - 1) \o t \o SubSeq(ls, n + 1, Len(ls))
           k == Len(t)
           New(i) == n <= i /\ i < n + k
           Of(i) == IF i < n THEN i ELSE i - k + 1
<1>1. /\ ls \in Seq(Rects) /\ n \in Nat /\ n > 0 /\ k \in Nat /\ k > 0
      /\ Len(ls) \in Nat /\ n <= Len(ls)
      /\ \A i \in 1 .. Len(ls) : ls[i] \in Rects
      /\ \A i \in 1 .. k : t[i] \in Rects
  BY DEF Packed
<1>2. /\ u \in Seq(Rects) /\ Len(u) = Len(ls) + k - 1
      /\ \A i \in 1 .. Len(u) :
             u[i] = IF i < n THEN ls[i]
                    ELSE IF i < n + k THEN t[i - n + 1] ELSE ls[i - k + 1]
  <2>1. ls \in Seq(Rects) /\ t \in Seq(Rects) /\ n \in 1 .. Len(ls)
    BY <1>1
  <2> QED
    BY <2>1, Spliced
<1> HIDE DEF u, k
<1>3. ASSUME NEW i \in 1 .. Len(u)
      PROVE  /\ New(i) => i - n + 1 \in 1 .. k /\ u[i] = t[i - n + 1]
             /\ ~ New(i) => Of(i) \in 1 .. Len(ls) /\ Of(i) # n /\ u[i] = ls[Of(i)]
  BY <1>1, <1>2
<1>4. ASSUME NEW i \in 1 .. Len(ls), i # n
      PROVE  \E j \in 1 .. Len(u) : u[j] = ls[i]
  <2>1. CASE i < n
    BY <1>1, <1>2, <2>1
  <2>2. CASE i > n
    <3>1. /\ i + k - 1 \in 1 .. Len(u) /\ ~ i + k - 1 < n /\ ~ i + k - 1 < n + k
          /\ (i + k - 1) - k + 1 = i
      BY <1>1, <1>2, <2>2
    <3> QED
      BY <1>2, <3>1
  <2> QED
    BY <1>1, <1>4, <2>1, <2>2
<1>5. ASSUME NEW i \in 1 .. k
      PROVE  \E j \in 1 .. Len(u) : u[j] = t[i]
  <2>1. /\ n + i - 1 \in 1 .. Len(u) /\ ~ n + i - 1 < n /\ n + i - 1 < n + k
        /\ (n + i - 1) - n + 1 = i
    BY <1>1, <1>2
  <2> QED
    BY <1>2, <2>1
<1>6. ASSUME NEW i \in 1 .. Len(u)
      PROVE  u[i].x + u[i].width <= BinWidth /\ u[i].y + u[i].height <= BinHeight
  <2>1. CASE New(i)
    <3> DEFINE s == t[i - n + 1]
               r == ls[n]
    <3>1. u[i] = s /\ s \in Rects /\ r \in Rects /\ Within(s, r)
      BY <1>1, <1>3, <2>1 DEF k
    <3>2. r.x + r.width <= BinWidth /\ r.y + r.height <= BinHeight
      BY DEF Packed
    <3>3. BinWidth \in Nat /\ BinHeight \in Nat
      BY UiAssumption DEF SizesAreNumbers
    <3> HIDE DEF s, r
    <3>4. /\ s.x + s.width \in Nat /\ s.y + s.height \in Nat
          /\ r.x + r.width \in Nat /\ r.y + r.height \in Nat
      BY <3>1, EdgesAreNumbers
    <3>5. s.x + s.width <= BinWidth /\ s.y + s.height <= BinHeight
      BY <3>1, <3>2, <3>3, <3>4 DEF Within
    <3> QED
      BY <3>1, <3>5
  <2>2. CASE ~ New(i)
    BY <1>3, <2>2 DEF Packed
  <2> QED
    BY <2>1, <2>2
<1>7. ASSUME NEW i \in 1 .. Len(u), NEW j \in 1 .. Len(u), i # j
      PROVE  ~ Packing!Over(u[i], u[j])
  <2>0. i \in Nat /\ j \in Nat
    OBVIOUS
  <2>1. CASE New(i) /\ New(j)
    <3>1. i - n + 1 # j - n + 1
      BY <1>1, <1>7, <2>0
    <3> QED
      BY <1>3, <2>1, <3>1 DEF k
  <2>2. CASE New(i) /\ ~ New(j)
    <3> DEFINE r == ls[n]
               s == ls[Of(j)]
               q == t[i - n + 1]
    <3>1. ~ Packing!Over(r, s)
      BY <1>3, <2>2 DEF Packed
    <3>2. /\ r \in Rects /\ s \in Rects /\ q \in Rects /\ Within(q, r)
          /\ u[i] = q /\ u[j] = s
      BY <1>1, <1>3, <2>2 DEF k
    <3> HIDE DEF r, s, q
    <3> QED
      BY <3>1, <3>2, PartsApart
  <2>3. CASE ~ New(i) /\ New(j)
    <3> DEFINE r == ls[n]
               s == ls[Of(i)]
               q == t[j - n + 1]
    <3>1. ~ Packing!Over(r, s)
      BY <1>3, <2>3 DEF Packed
    <3>2. /\ r \in Rects /\ s \in Rects /\ q \in Rects /\ Within(q, r)
          /\ u[j] = q /\ u[i] = s
      BY <1>1, <1>3, <2>3 DEF k
    <3> HIDE DEF r, s, q
    <3> QED
      BY <3>1, <3>2, PartsApart
  <2>4. CASE ~ New(i) /\ ~ New(j)
    <3>1. Of(i) # Of(j)
      BY <1>1, <1>7, <2>0, <2>4
    <3> QED
      BY <1>3, <2>4, <3>1 DEF Packed
  <2> QED
    BY <2>1, <2>2, <2>3, <2>4
<1>8. ASSUME NEW x \in 0 .. BinWidth - 1, NEW y \in 0 .. BinHeight - 1
      PROVE  \E i \in 1 .. Len(u) : Packing!Inside(x, y, u[i])
  <2>1. PICK m \in 1 .. Len(ls) : Packing!Inside(x, y, ls[m])
    BY DEF Packed
  <2>2. CASE m = n
    <3>1. x \in Nat /\ y \in Nat
      BY UiAssumption DEF SizesAreNumbers
    <3>2. \E i \in 1 .. k : Packing!Inside(x, y, t[i])
      BY <2>1, <2>2, <3>1 DEF k
    <3> QED
      BY <1>5, <3>2
  <2>3. CASE m # n
    BY <1>4, <2>1, <2>3
  <2> QED
    BY <2>2, <2>3
<1>9. ASSUME NEW r \in ps \union {t[1]}
      PROVE  r.full /\ \E i \in 1 .. Len(u) : r = u[i]
  <2>1. CASE r = t[1]
    BY <1>1, <1>5, <2>1
  <2>2. CASE r \in ps
    <3>1. PICK m \in 1 .. Len(ls) : r = ls[m]
      BY <2>2 DEF Packed
    <3>2. r.full /\ m # n
      BY <2>2, <3>1 DEF Packed
    <3> QED
      BY <1>4, <3>1, <3>2
  <2> QED
    BY <2>1, <2>2
<1> QED
  BY <1>2, <1>6, <1>7, <1>8, <1>9 DEF Packed, u

(* Neither clear nor an insert at the first leaf that fits leaves a gap or *)
(* an overlap.                                                             *)
LEMMA BinStays == BinInv /\ [Packing!BinNext]_binVars => BinInv'
<1> SUFFICES ASSUME BinInv, [Packing!BinNext]_binVars
             PROVE  BinInv'
  OBVIOUS
<1>1. CASE Packing!Clear
  BY <1>1, EmptyBin DEF Packing!Clear, BinInv
<1>2. ASSUME NEW w \in 1 .. BinWidth, NEW h \in 1 .. BinHeight, Packing!BinInsert(w, h)
      PROVE  BinInv'
  <2> DEFINE U == Packing!Fitting(w, h)
             n == Packing!Min(U)
             r == leaves[n]
             t == Packing!Carve(r, w, h)
  <2>1. U \in SUBSET (1 .. Len(leaves)) /\ Len(leaves) \in Nat /\ U # {}
    <3>1. DOMAIN leaves = 1 .. Len(leaves) /\ Len(leaves) \in Nat
      BY DEF BinInv, Packed
    <3>2. U # {}
      BY <1>2 DEF Packing!BinInsert
    <3>3. U \in SUBSET DOMAIN leaves
      BY DEF Packing!Fitting
    <3> QED
      BY <3>1, <3>2, <3>3
  <2>2. \E m \in U : \A i \in U : m <= i
    BY <2>1, LeastExists
  <2>3. n \in U
    BY <2>2 DEF Packing!Min
  <2>4. /\ n \in 1 .. Len(leaves) /\ r \in Rects /\ ~ r.full
        /\ w \in Nat \ {0} /\ h \in Nat \ {0} /\ w <= r.width /\ h <= r.height
    BY <2>1, <2>3, UiAssumption DEF SizesAreNumbers, Packing!Fitting, BinInv, Packed
  <2>5. /\ leaves' = SubSeq(leaves, 1, n - 1) \o t \o SubSeq(leaves, n + 1, Len(leaves))
        /\ placed' = placed \union {t[1]}
    BY <1>2 DEF Packing!BinInsert
  <2> HIDE DEF U, n
  <2>6. /\ t \in Seq(Rects) /\ Len(t) \in Nat \ {0} /\ t[1].full
        /\ \A i \in 1 .. Len(t) : Within(t[i], r)
        /\ \A i, j \in 1 .. Len(t) : i # j => ~ Packing!Over(t[i], t[j])
        /\ \A x, y \in Nat : Packing!Inside(x, y, r) =>
               \E i \in 1 .. Len(t) : Packing!Inside(x, y, t[i])
    BY <2>4, CarveParts
  <2> HIDE DEF t
  <2>7. Packed(SubSeq(leaves, 1, n - 1) \o t \o SubSeq(leaves, n + 1, Len(leaves)),
               placed \union {t[1]})
    BY <2>4, <2>6, PackedByParts DEF BinInv
  <2> QED
    BY <2>5, <2>7 DEF BinInv
<1>3. CASE UNCHANGED binVars
  BY <1>3 DEF binVars, BinInv
<1> QED
  BY <1>1, <1>2, <1>3 DEF Packing!BinNext

(* For a bin of any size and any inserts, the leaves never overlap, leave  *)
(* no place of the bin out, and have every rectangle that was given out.   *)
THEOREM BinIsPacked == BinSpec => []Packing!BinPacked
<1>1. Packing!BinInit => BinInv
  BY EmptyBin DEF Packing!BinInit, BinInv
<1>2. BinInv => Packing!BinPacked
  <2> SUFFICES ASSUME BinInv PROVE Packing!BinPacked
    OBVIOUS
  <2>1. DOMAIN leaves = 1 .. Len(leaves)
    BY DEF BinInv, Packed
  <2>2. \A r \in placed : r \in Packing!Range(leaves) /\ r.full
    BY <2>1 DEF BinInv, Packed, Packing!Range
  <2> QED
    BY <2>1, <2>2 DEF BinInv, Packed, Packing!BinPacked
<1> QED
  BY <1>1, <1>2, BinStays, PTL DEF BinSpec

(***************************************************************************)
(* Functions that are defined by recursion over numbers.                   *)
(***************************************************************************)

(* What holds of 0, and of a number below n with the one before it, holds  *)
(* up to n: there is no least number of which it does not.                 *)
LEMMA UpTo ==
  ASSUME NEW n \in Nat, NEW S, 0 \in S,
         \A i \in 0 .. n - 1 : i \in S => i + 1 \in S
  PROVE  0 .. n \subseteq S
<1> SUFFICES ASSUME NEW m \in 0 .. n, m \notin S
             PROVE  FALSE
  OBVIOUS
<1> DEFINE U == {i \in 1 .. n : i \notin S}
<1>1. U \in SUBSET (1 .. n) /\ m \in U
  OBVIOUS
<1>2. PICK s \in U : \A r \in U : s <= r
  BY <1>1, LeastExists
<1>3. s - 1 \in 0 .. n - 1 /\ s \notin S
  OBVIOUS
<1>4. s - 1 \notin U
  BY <1>2, <1>3
<1>5. s - 1 \in S
  BY <1>3, <1>4
<1>6. (s - 1) + 1 \in S
  BY <1>3, <1>5
<1> QED
  BY <1>3, <1>6

(* f begins with base, and goes on to n by step.                           *)
Recurs(f, n, V, base, next) ==
    /\ f \in [0 .. n -> V]
    /\ f[0] = base
    /\ \A i \in 1 .. n : f[i] = next[i][f[i - 1]]

(* A function on the numbers up to n is defined by what it is of 0 and by  *)
(* how the value of a number comes from the one before.                    *)
LEMMA Recursion ==
  ASSUME NEW n \in Nat, NEW V, NEW base \in V, NEW next \in [1 .. n -> [V -> V]]
  PROVE  \E f : Recurs(f, n, V, base, next)
<1> DEFINE Right(f, m) == Recurs(f, m, V, base, next)
           S == {m \in 0 .. n : \E f : Right(f, m)}
<1>0. ASSUME NEW m \in 0 .. n, NEW f, Right(f, m)
      PROVE  m \in S
  <2> HIDE DEF Right
  <2> QED
    BY <1>0
<1>1. 0 \in S
  <2> DEFINE f == [i \in 0 .. 0 |-> base]
  <2>1. Right(f, 0)
    BY DEF Recurs
  <2>2. 0 \in 0 .. n
    OBVIOUS
  <2> HIDE DEF f, Right, S
  <2> QED
    BY <2>1, <2>2, <1>0
<1>2. ASSUME NEW m \in 0 .. n - 1, m \in S
      PROVE  m + 1 \in S
  <2>1. PICK f : Right(f, m)
    <3> HIDE DEF Right
    <3> QED
      BY <1>2
  <2> DEFINE v == next[m + 1][f[m]]
             g == [i \in 0 .. m + 1 |-> IF i <= m THEN f[i] ELSE v]
  <2>2. v \in V
    <3>1. f[m] \in V /\ m + 1 \in 1 .. n
      BY <2>1 DEF Recurs
    <3> QED
      BY <3>1
  <2>3. g \in [0 .. m + 1 -> V]
    BY <2>1, <2>2 DEF Recurs
  <2>4. g[0] = base
    BY <2>1 DEF Recurs
  <2>5. ASSUME NEW i \in 1 .. m + 1
        PROVE  g[i] = next[i][g[i - 1]]
    <3>1. CASE i <= m
      BY <2>1, <3>1 DEF Recurs
    <3>2. CASE i = m + 1
      <4>1. g[m + 1] = v /\ g[(m + 1) - 1] = f[m]
        OBVIOUS
      <4> HIDE DEF g
      <4> QED
        BY <3>2, <4>1
    <3> QED
      BY <3>1, <3>2
  <2>6. m + 1 \in 0 .. n
    OBVIOUS
  <2>7. Right(g, m + 1)
    <3> HIDE DEF g
    <3> QED
      BY <2>3, <2>4, <2>5 DEF Recurs
  <2> HIDE DEF g, Right, S
  <2> QED
    BY <2>3, <2>6, <2>7, <1>0
<1>3. n \in S
  <2>1. 0 .. n \subseteq S
    <3> HIDE DEF S
    <3> QED
      BY <1>1, <1>2, UpTo
  <2> HIDE DEF S
  <2> QED
    BY <2>1
<1>4. PICK f : Right(f, n)
  <2> HIDE DEF Right
  <2> QED
    BY <1>3
<1> QED
  BY <1>4

(***************************************************************************)
(* What zooming adds.                                                      *)
(***************************************************************************)

(* Zooming in by whole steps adds the pin, shifted by each of them.        *)
LEMMA AddedAdds ==
  /\ \A z \in 0 .. MaxZoom : View!Shifted[z] \in Nat
  /\ \A z \in 0 .. MaxZoom : View!Added[z] \in Nat
  /\ View!Added[0] = 0
  /\ \A z \in 1 .. MaxZoom : View!Added[z] = View!Added[z - 1] + View!Shifted[z]
<1> DEFINE S == View!Shifted
           A == View!Added
           half == [z \in 1 .. MaxZoom |-> [m \in Nat |-> m \div 2]]
           more == [z \in 1 .. MaxZoom |-> [m \in Nat |-> m + S[z]]]
<1>1. MaxZoom \in Nat /\ Pin \in Nat
  BY UiAssumption DEF SizesAreNumbers
<1>2. PICK f : Recurs(f, MaxZoom, Nat, Pin, half)
  <2>1. half \in [1 .. MaxZoom -> [Nat -> Nat]]
    OBVIOUS
  <2> HIDE DEF half
  <2> QED
    BY <1>1, <2>1, Recursion, Zenon
<1>3. ASSUME NEW i \in 1 .. MaxZoom
      PROVE  f[i] = f[i - 1] \div 2
  <2>1. f[i - 1] \in Nat
    BY <1>1, <1>2 DEF Recurs
  <2> QED
    BY <1>2, <2>1 DEF Recurs
<1>4. f = [z \in 0 .. MaxZoom |-> IF z = 0 THEN Pin ELSE f[z - 1] \div 2]
  <2>1. \A z \in 0 .. MaxZoom : f[z] = IF z = 0 THEN Pin ELSE f[z - 1] \div 2
    <3> HIDE DEF half
    <3>1. f[0] = Pin
      BY <1>2 DEF Recurs
    <3>2. \A z \in 0 .. MaxZoom : z # 0 => z \in 1 .. MaxZoom
      BY <1>1
    <3> QED
      BY <1>3, <3>1, <3>2, Zenon
  <2>2. f \in [0 .. MaxZoom -> Nat]
    BY <1>2 DEF Recurs
  <2> QED
    BY <2>1, <2>2, Zenon
<1>5. S = [z \in 0 .. MaxZoom |-> IF z = 0 THEN Pin ELSE S[z - 1] \div 2]
  BY <1>4 DEF View!Shifted
<1> HIDE DEF S
<1>6. \A z \in 0 .. MaxZoom : S[z] \in Nat
  <2> DEFINE U == {z \in 0 .. MaxZoom : S[z] \in Nat}
  <2>1. 0 \in U
    BY <1>1, <1>5
  <2>2. ASSUME NEW z \in 0 .. MaxZoom - 1, z \in U
        PROVE  z + 1 \in U
    <3>1. z + 1 \in 0 .. MaxZoom /\ z + 1 # 0 /\ (z + 1) - 1 = z /\ S[z] \in Nat
      BY <1>1, <2>2
    <3>2. S[z + 1] = S[z] \div 2
      BY <1>5, <3>1
    <3> QED
      BY <3>1, <3>2
  <2>3. 0 .. MaxZoom \subseteq U
    <3> HIDE DEF U
    <3> QED
      BY <1>1, <2>1, <2>2, UpTo
  <2> QED
    BY <2>3
<1>7. PICK g : Recurs(g, MaxZoom, Nat, 0, more)
  <2>1. more \in [1 .. MaxZoom -> [Nat -> Nat]]
    BY <1>6
  <2> HIDE DEF more
  <2> QED
    BY <1>1, <2>1, Recursion, Zenon
<1>8. ASSUME NEW i \in 1 .. MaxZoom
      PROVE  g[i] = g[i - 1] + S[i]
  <2>1. g[i - 1] \in Nat
    BY <1>1, <1>7 DEF Recurs
  <2> QED
    BY <1>7, <2>1 DEF Recurs
<1>9. g = [z \in 0 .. MaxZoom |-> IF z = 0 THEN 0 ELSE g[z - 1] + S[z]]
  <2> HIDE DEF more
  <2> QED
    BY <1>1, <1>7, <1>8 DEF Recurs
<1>10. A = [z \in 0 .. MaxZoom |-> IF z = 0 THEN 0 ELSE A[z - 1] + S[z]]
  BY <1>9 DEF View!Added, S
<1> HIDE DEF A
<1>11. A[0] = 0 /\ \A z \in 1 .. MaxZoom : A[z] = A[z - 1] + S[z]
  BY <1>1, <1>10
<1>12. \A z \in 0 .. MaxZoom : A[z] \in Nat
  <2> DEFINE U == {z \in 0 .. MaxZoom : A[z] \in Nat}
  <2>1. 0 \in U
    BY <1>1, <1>11
  <2>2. ASSUME NEW z \in 0 .. MaxZoom - 1, z \in U
        PROVE  z + 1 \in U
    <3>1. z + 1 \in 1 .. MaxZoom /\ (z + 1) - 1 = z /\ A[z] \in Nat /\ S[z + 1] \in Nat
      BY <1>1, <1>6, <2>2
    <3> QED
      BY <1>11, <3>1
  <2>3. 0 .. MaxZoom \subseteq U
    <3> HIDE DEF U
    <3> QED
      BY <1>1, <2>1, <2>2, UpTo
  <2> QED
    BY <2>3
<1> QED
  BY <1>6, <1>11, <1>12 DEF S, A

(* The zoom stays in its bounds, above 0 until it has been below, and what *)
(* it has added is as much as there would be had it only been zoomed in.   *)
ZoomInv ==
    /\ zoom \in -MaxZoom .. MaxZoom
    /\ ~ low => zoom >= 0
    /\ View!ZoomReturns

LEMMA ZoomBegins == View!ViewInit => ZoomInv
<1>1. MaxZoom \in Nat
  BY UiAssumption DEF SizesAreNumbers
<1> QED
  BY <1>1, AddedAdds DEF ZoomInv, View!ViewInit, View!ZoomReturns, View!Whole

(* One whole step of the zoom, from above 0 or to it, adds or takes away   *)
(* what Added says.                                                        *)
LEMMA WholeStep ==
  ASSUME NEW z \in 0 .. MaxZoom, NEW old \in 0 .. MaxZoom,
         move = View!Added[View!Whole(old)]
  PROVE  /\ View!Whole(z) = View!Whole(old) + 1 => View!ZoomedIn(z) = View!Added[View!Whole(z)]
         /\ View!Whole(z + 2) = View!Whole(old) => View!ZoomedOut(z) = View!Added[View!Whole(z)]
         /\ View!Whole(z + 2) = View!Whole(z) + 1
<1> DEFINE k == View!Whole(z)
           l == View!Whole(old)
<1>1. MaxZoom \in Nat
  BY UiAssumption DEF SizesAreNumbers
<1>2. k \in 0 .. MaxZoom /\ l \in 0 .. MaxZoom /\ View!Whole(z + 2) = k + 1 /\ ~ k < 0 /\ ~ z < 0
  BY <1>1 DEF View!Whole
<1> HIDE DEF k, l
<1>3. ASSUME k = l + 1
      PROVE  View!ZoomedIn(z) = View!Added[k]
  <2>1. k \in 1 .. MaxZoom /\ k - 1 = l
    BY <1>1, <1>2, <1>3
  <2>2. View!Added[k] = View!Added[l] + View!Shifted[k]
    BY <2>1, AddedAdds
  <2> QED
    BY <1>2, <2>2 DEF View!ZoomedIn, View!Pinned, k, l
<1>4. ASSUME k + 1 = l
      PROVE  View!ZoomedOut(z) = View!Added[k]
  <2>1. l \in 1 .. MaxZoom /\ l - 1 = k
    BY <1>1, <1>2, <1>4
  <2>2. View!Added[l] = View!Added[k] + View!Shifted[l] /\ View!Added[k] \in Nat
        /\ View!Shifted[l] \in Nat
    BY <1>2, <2>1, AddedAdds
  <2>3. View!ZoomedOut(z) = move - View!Shifted[l]
    BY <1>2, <1>4 DEF View!ZoomedOut, View!Pinned
  <2>4. move = View!Added[l]
    BY DEF l
  <2> QED
    BY <2>2, <2>3, <2>4
<1> QED
  BY <1>2, <1>3, <1>4 DEF k, l

(* Every event that zooms does so by one step, or by a part of one. *)
LEMMA ZoomStays == ZoomInv /\ [View!ViewNext]_viewVars => ZoomInv'
<1> SUFFICES ASSUME ZoomInv, [View!ViewNext]_viewVars
             PROVE  ZoomInv'
  OBVIOUS
<1>1. MaxZoom \in Nat
  BY UiAssumption DEF SizesAreNumbers
<1>2. ASSUME UNCHANGED View!moving
      PROVE  ZoomInv'
  BY <1>2 DEF ZoomInv, View!moving, View!ZoomReturns, View!Whole
<1>3. ASSUME NEW z \in -MaxZoom .. MaxZoom, View!ZoomTo(z),
             ~ low /\ z >= 0 => move' = View!Added[View!Whole(z)]
      PROVE  ZoomInv'
  <2>1. zoom' = z /\ low' = (low \/ z < 0)
    BY <1>3 DEF View!ZoomTo
  <2>2. ~ low' => ~ low /\ z >= 0
    <3>1. ~ z < 0 => z >= 0
      BY <1>1
    <3> QED
      BY <2>1, <3>1, Zenon
  <2>3. View!ZoomReturns'
    BY <1>3, <2>1, <2>2 DEF View!ZoomReturns, View!Whole
  <2> QED
    BY <2>1, <2>2, <2>3 DEF ZoomInv
<1>4. ASSUME ~ low
      PROVE  zoom \in 0 .. MaxZoom /\ move = View!Added[View!Whole(zoom)]
  BY <1>1, <1>4 DEF ZoomInv, View!ZoomReturns
<1>5. zoom \in Int /\ zoom <= MaxZoom /\ zoom >= -MaxZoom
  BY <1>1 DEF ZoomInv
<1>6. CASE View!ZoomKey
  <2>1. CASE zoom + 2 =< MaxZoom /\ View!ZoomTo(zoom + 2) /\ move' = View!ZoomedIn(zoom + 2)
    <3>1. ASSUME ~ low
          PROVE  move' = View!Added[View!Whole(zoom + 2)]
      <4>1. zoom + 2 \in 0 .. MaxZoom
        BY <1>4, <2>1, <3>1
      <4>2. View!Whole(zoom + 2) = View!Whole(zoom) + 1
        BY <1>4, <3>1, WholeStep
      <4> QED
        BY <1>4, <2>1, <3>1, <4>1, <4>2, WholeStep
    <3>2. zoom + 2 \in -MaxZoom .. MaxZoom
      BY <1>1, <1>5, <2>1
    <3> QED
      BY <1>3, <2>1, <3>1, <3>2
  <2>2. CASE zoom - 2 >= -MaxZoom /\ View!ZoomTo(zoom - 2) /\ move' = View!ZoomedOut(zoom - 2)
    <3>1. ASSUME ~ low, zoom - 2 >= 0
          PROVE  move' = View!Added[View!Whole(zoom - 2)]
      <4>1. zoom - 2 \in 0 .. MaxZoom /\ (zoom - 2) + 2 = zoom
        BY <1>1, <1>4, <3>1
      <4> QED
        BY <1>4, <2>2, <3>1, <4>1, WholeStep
    <3>2. zoom - 2 \in -MaxZoom .. MaxZoom
      BY <1>1, <1>5, <2>2
    <3> QED
      BY <1>3, <2>2, <3>1, <3>2
  <2> QED
    BY <1>6, <2>1, <2>2 DEF View!ZoomKey
<1>7. CASE View!Magnify
  <2>1. PICK z \in {zoom - 1, zoom + 1} \cap (-MaxZoom .. MaxZoom) :
            /\ View!ZoomTo(z)
            /\ move' = IF View!Whole(z) < View!Whole(zoom) THEN View!ZoomedOut(z)
                       ELSE IF View!Whole(z) > View!Whole(zoom) THEN View!ZoomedIn(z) ELSE move
    BY <1>7 DEF View!Magnify
  <2>2. ASSUME ~ low, z >= 0
        PROVE  move' = View!Added[View!Whole(z)]
    <3>1. z \in 0 .. MaxZoom /\ zoom \in 0 .. MaxZoom /\ (z = zoom - 1 \/ z = zoom + 1)
      BY <1>1, <1>4, <2>2
    <3>2. /\ View!Whole(z) \in Int /\ View!Whole(zoom) \in Int
          /\ View!Whole(z) < View!Whole(zoom) => View!Whole(z + 2) = View!Whole(zoom)
          /\ View!Whole(z) > View!Whole(zoom) => View!Whole(z) = View!Whole(zoom) + 1
      BY <1>1, <3>1 DEF View!Whole
    <3>3. CASE View!Whole(z) < View!Whole(zoom)
      BY <1>4, <2>1, <2>2, <3>1, <3>2, <3>3, WholeStep
    <3>4. CASE View!Whole(z) > View!Whole(zoom)
      <4>1. move' = View!ZoomedIn(z)
        BY <2>1, <3>2, <3>4
      <4> QED
        BY <1>4, <2>2, <3>1, <3>2, <3>4, <4>1, WholeStep
    <3>5. CASE View!Whole(z) = View!Whole(zoom)
      <4>1. move' = move
        BY <2>1, <3>2, <3>5
      <4> QED
        BY <1>4, <2>2, <3>5, <4>1
    <3> QED
      BY <3>2, <3>3, <3>4, <3>5
  <2> QED
    BY <1>3, <2>1, <2>2
<1>8. ASSUME ~ View!ZoomKey, ~ View!Magnify
      PROVE  UNCHANGED View!moving
  BY <1>8 DEF View!ViewNext, View!Draw, View!Arrive, View!WritePending, View!NonePending,
              View!Pan, View!Escape, View!NoEvent, View!moving, viewVars
<1> QED
  BY <1>2, <1>6, <1>7, <1>8

(* However far a viewer zooms and however many reads are under way, main   *)
(* waits for an event only when it has drawn every page there is at the    *)
(* zoom it is at, and back at a zoom it is at the place it was, unless it  *)
(* has been below the zoom 0.                                              *)
THEOREM ViewerDrawsAll == ViewSpec => []ViewerDraws
<1>1. ViewInv /\ ZoomInv => ViewerDraws
  BY DEF ViewInv, ZoomInv, ViewerDraws
<1>2. View!ViewInit => ViewInv /\ ZoomInv
  BY ViewBegins, ZoomBegins
<1>3. ViewInv /\ ZoomInv /\ [View!ViewNext]_viewVars => (ViewInv /\ ZoomInv)'
  BY ViewStays, ZoomStays
<1> QED
  BY <1>1, <1>2, <1>3, PTL DEF ViewSpec

(***************************************************************************)
(* The layout of texts.                                                    *)
(***************************************************************************)

(* This module counts with a definition of its own, too.                   *)
LEMMA LayoutCounts == \A S : Layout!Cardinality(S) = Cardinality(S)
  BY DEF Layout!Cardinality, Cardinality

(* The glyphs among the first characters of a text.                        *)
GlyphsIn(t, j) == {k \in 1 .. j - 1 : t.chars[k] = "letter"}

(* A text is what has a place, a size and characters.                      *)
TextsOf == [x : Int, scale : Nat \ {0}, chars : Seq({"space", "return", "letter"})]

(* They are finitely many; a further character is one more if it is a      *)
(* letter.                                                                 *)
LEMMA GlyphsCounted ==
  ASSUME NEW t, NEW j \in Nat \ {0}
  PROVE  /\ IsFiniteSet(GlyphsIn(t, j)) /\ Cardinality(GlyphsIn(t, j)) \in Nat
         /\ Cardinality(GlyphsIn(t, 1)) = 0
         /\ Cardinality(GlyphsIn(t, j + 1)) =
                Cardinality(GlyphsIn(t, j)) + (IF t.chars[j] = "letter" THEN 1 ELSE 0)
<1>1. IsFiniteSet(GlyphsIn(t, j)) /\ Cardinality(GlyphsIn(t, j)) \in Nat
  <2>1. IsFiniteSet(1 .. j - 1) /\ GlyphsIn(t, j) \subseteq 1 .. j - 1
    BY FS_Interval DEF GlyphsIn
  <2> QED
    BY <2>1, FS_Subset, FS_CardinalityType
<1>2. GlyphsIn(t, 1) = {}
  BY DEF GlyphsIn
<1>3. j \notin GlyphsIn(t, j)
  BY DEF GlyphsIn
<1>4. CASE t.chars[j] = "letter"
  <2>1. GlyphsIn(t, j + 1) = GlyphsIn(t, j) \union {j}
    BY <1>4 DEF GlyphsIn
  <2>2. Cardinality(GlyphsIn(t, j) \union {j}) = Cardinality(GlyphsIn(t, j)) + 1
    BY <1>1, <1>3, FS_AddElement
  <2> QED
    BY <1>1, <1>2, <1>3, <1>4, <2>1, <2>2, FS_EmptySet
<1>5. CASE t.chars[j] # "letter"
  <2>1. GlyphsIn(t, j + 1) = GlyphsIn(t, j)
    BY <1>5 DEF GlyphsIn
  <2> QED
    BY <1>1, <1>2, <1>5, <2>1, FS_EmptySet
<1> QED
  BY <1>4, <1>5

(* What is counted of a text are the glyphs among all of its characters.   *)
LEMMA GlyphsOfAre ==
  ASSUME NEW t, t.chars \in Seq({"space", "return", "letter"})
  PROVE  /\ Layout!GlyphsOf(t) = Cardinality(GlyphsIn(t, Len(t.chars) + 1))
         /\ Layout!GlyphsOf(t) \in Nat
<1>1. DOMAIN t.chars = 1 .. (Len(t.chars) + 1) - 1 /\ Len(t.chars) + 1 \in Nat \ {0}
  OBVIOUS
<1>2. {j \in DOMAIN t.chars : t.chars[j] = "letter"} = GlyphsIn(t, Len(t.chars) + 1)
  BY <1>1 DEF GlyphsIn
<1> QED
  BY <1>1, <1>2, LayoutCounts, GlyphsCounted DEF Layout!GlyphsOf, Layout!Letter

(* The texts that can be given.                                            *)
LEMMA TextsAre ==
  ASSUME NEW ts \in Texts
  PROVE  /\ ts \in Seq(TextsOf) /\ Len(ts) \in Nat \ {0}
         /\ \A n \in 1 .. Len(ts) : /\ ts[n].x \in Int /\ ts[n].scale \in Nat \ {0}
                                    /\ ts[n].chars \in Seq({"space", "return", "letter"})
                                    /\ Len(ts[n].chars) \in Nat
<1>1. ts \in Seq(TextsOf) /\ ts # <<>>
  BY UiAssumption DEF TextsHaveSizes, TextsOf
<1>2. \A n \in 1 .. Len(ts) : ts[n] \in TextsOf
  BY <1>1
<1> QED
  BY <1>1, <1>2 DEF TextsOf

(* Counted adds the glyphs of one text to those of the texts before it.    *)
LEMMA CountedAdds ==
  ASSUME NEW ts \in Texts
  PROVE  /\ Layout!Counted(ts) \in [0 .. Len(ts) -> Nat]
         /\ Layout!Counted(ts)[0] = 0
         /\ \A n \in 1 .. Len(ts) :
                Layout!Counted(ts)[n] = Layout!Counted(ts)[n - 1] + Layout!GlyphsOf(ts[n])
<1>1. \A n \in 1 .. Len(ts) : Layout!GlyphsOf(ts[n]) \in Nat
  BY TextsAre, GlyphsOfAre
<1>2. Len(ts) \in Nat
  BY TextsAre
<1> DEFINE next == [n \in 1 .. Len(ts) |-> [m \in Nat |-> m + Layout!GlyphsOf(ts[n])]]
<1>3. next \in [1 .. Len(ts) -> [Nat -> Nat]]
  BY <1>1
<1>4. PICK f : Recurs(f, Len(ts), Nat, 0, next)
  <2> HIDE DEF next
  <2> QED
    BY <1>2, <1>3, Recursion, Zenon
<1>5. ASSUME NEW i \in 1 .. Len(ts)
      PROVE  f[i] = f[i - 1] + Layout!GlyphsOf(ts[i])
  <2>1. i - 1 \in 0 .. Len(ts)
    BY <1>2
  <2>2. f[i - 1] \in Nat
    BY <1>4, <2>1 DEF Recurs
  <2> QED
    BY <1>4, <2>2 DEF Recurs
<1>6. f = [i \in 0 .. Len(ts) |-> IF i = 0 THEN 0 ELSE f[i - 1] + Layout!GlyphsOf(ts[i])]
  <2> HIDE DEF next
  <2> QED
    BY <1>2, <1>4, <1>5 DEF Recurs
<1>7. LET g == Layout!Counted(ts)
      IN  g = [i \in 0 .. Len(ts) |-> IF i = 0 THEN 0 ELSE g[i - 1] + Layout!GlyphsOf(ts[i])]
  BY <1>6 DEF Layout!Counted
<1> DEFINE g == Layout!Counted(ts)
<1>8. g = [i \in 0 .. Len(ts) |-> IF i = 0 THEN 0 ELSE g[i - 1] + Layout!GlyphsOf(ts[i])]
  BY <1>7
<1> HIDE DEF g
<1>9. g[0] = 0 /\ \A n \in 1 .. Len(ts) : g[n] = g[n - 1] + Layout!GlyphsOf(ts[n])
  BY <1>2, <1>8
<1>10. \A n \in 0 .. Len(ts) : g[n] \in Nat
  <2> DEFINE S == {n \in 0 .. Len(ts) : g[n] \in Nat}
  <2>1. 0 \in S /\ \A n \in 0 .. Len(ts) - 1 : n \in S => n + 1 \in S
    BY <1>1, <1>2, <1>9
  <2>2. 0 .. Len(ts) \subseteq S
    <3> HIDE DEF S
    <3> QED
      BY <1>2, <2>1, UpTo
  <2> QED
    BY <2>2
<1>11. g \in [0 .. Len(ts) -> Nat]
  BY <1>8, <1>10
<1> QED
  BY <1>9, <1>11 DEF g

(* How many glyphs are before a place in the texts, a character or a text  *)
(* further on.                                                             *)
LEMMA GlyphsAdd ==
  ASSUME text \in Texts, NEW n \in 1 .. Len(text), NEW j \in 1 .. Len(text[n].chars) + 1
  PROVE  /\ Layout!GlyphsUpTo(n, j) \in Nat
         /\ Layout!GlyphsUpTo(1, 1) = 0
         /\ j <= Len(text[n].chars) =>
                Layout!GlyphsUpTo(n, j + 1) =
                    Layout!GlyphsUpTo(n, j) + (IF text[n].chars[j] = "letter" THEN 1 ELSE 0)
         /\ Layout!GlyphsUpTo(n, Len(text[n].chars) + 1) = Layout!Counted(text)[n]
         /\ Layout!GlyphsUpTo(n + 1, 1) = Layout!Counted(text)[n]
<1> DEFINE C == Layout!Counted(text)
           t == text[n]
<1>1. /\ n \in Nat \ {0} /\ j \in Nat \ {0} /\ Len(text) \in Nat /\ n - 1 \in 0 .. Len(text)
      /\ t.chars \in Seq({"space", "return", "letter"}) /\ Len(t.chars) \in Nat
  BY TextsAre
<1>2. /\ C \in [0 .. Len(text) -> Nat] /\ C[0] = 0
      /\ C[n] = C[n - 1] + Layout!GlyphsOf(t)
  BY CountedAdds
<1> HIDE DEF C
<1>3. \A m, k : Layout!GlyphsUpTo(m, k) = C[m - 1] + Cardinality(GlyphsIn(text[m], k))
  BY LayoutCounts DEF Layout!GlyphsUpTo, Layout!Letter, GlyphsIn, C
<1>4. C[n - 1] \in Nat
  BY <1>1, <1>2
<1>5. Layout!GlyphsUpTo(n, j) \in Nat
  BY <1>1, <1>3, <1>4, GlyphsCounted
<1>6. Layout!GlyphsUpTo(1, 1) = 0
  <2>1. C[1 - 1] = 0 /\ Cardinality(GlyphsIn(text[1], 1)) = 0
    BY <1>1, <1>2, GlyphsCounted
  <2> QED
    BY <1>3, <2>1
<1>7. Layout!GlyphsUpTo(n, j + 1) =
          Layout!GlyphsUpTo(n, j) + (IF t.chars[j] = "letter" THEN 1 ELSE 0)
  <2>1. /\ Cardinality(GlyphsIn(t, j)) \in Nat
        /\ Cardinality(GlyphsIn(t, j + 1)) =
               Cardinality(GlyphsIn(t, j)) + (IF t.chars[j] = "letter" THEN 1 ELSE 0)
    BY <1>1, GlyphsCounted
  <2> QED
    BY <1>3, <1>4, <2>1
<1>8. Layout!GlyphsUpTo(n, Len(t.chars) + 1) = C[n]
  BY <1>1, <1>2, <1>3, GlyphsOfAre
<1>9. Layout!GlyphsUpTo(n + 1, 1) = C[n]
  <2>1. C[n] \in Nat /\ C[(n + 1) - 1] = C[n]
    BY <1>1, <1>2
  <2>2. Cardinality(GlyphsIn(text[n + 1], 1)) = 0
    BY <1>1, GlyphsCounted
  <2> QED
    BY <1>3, <2>1, <2>2
<1> QED
  BY <1>5, <1>6, <1>7, <1>8, <1>9 DEF C

(* A sequence in which element m + 1 is e.                                 *)
Overwritten(b, m, e) == SubSeq(b, 1, m) \o <<e>> \o SubSeq(b, m + 2, Len(b))

(* In w, element m + 1 is e, and the others are those of b.                *)
Writes(w, S, b, m, e) ==
    /\ w \in Seq(S)
    /\ Len(w) = IF m = Len(b) THEN m + 1 ELSE Len(b)
    /\ w[m + 1] = e
    /\ \A k \in 1 .. Len(w) : k # m + 1 => k \in 1 .. Len(b) /\ w[k] = b[k]

(* A point that is written takes the place of the one that was there.      *)
LEMMA PointWritten ==
  ASSUME NEW S, NEW b \in Seq(S), NEW m \in 0 .. Len(b), NEW e \in S
  PROVE  Writes(Overwritten(b, m, e), S, b, m, e)
<1> DEFINE p == SubSeq(b, 1, m)
           q == SubSeq(b, m + 2, Len(b))
           c == p \o <<e>> \o q
<1>1. p \in Seq(S) /\ Len(p) = m /\ \A k \in 1 .. m : p[k] = b[k]
  OBVIOUS
<1>g. q \in Seq(S) /\ Len(q) \in Nat
  OBVIOUS
<1>2. /\ m = Len(b) => Len(q) = 0
      /\ m # Len(b) => Len(q) = Len(b) - (m + 1)
      /\ \A k \in 1 .. Len(q) : q[k] = b[m + 1 + k]
  OBVIOUS
<1>3. Len(b) \in Nat /\ m \in Nat /\ m <= Len(b)
  OBVIOUS
<1> HIDE DEF p, q
<1> DEFINE r == p \o <<e>>
<1>a. r \in Seq(S) /\ Len(r) = m + 1 /\ r[m + 1] = e /\ \A k \in 1 .. m : r[k] = p[k]
  BY <1>1
<1>b. c = r \o q
  OBVIOUS
<1> HIDE DEF r, c
<1>c. c \in Seq(S) /\ Len(c) = Len(r) + Len(q)
  <2>1. r \o q \in Seq(S) /\ Len(r \o q) = Len(r) + Len(q)
    BY <1>g, <1>a
  <2> QED
    BY <1>b, <2>1, Zenon
<1>d. \A i \in 1 .. Len(r) + Len(q) : c[i] = IF i <= Len(r) THEN r[i] ELSE q[i - Len(r)]
  <2>1. \A i \in 1 .. Len(r) + Len(q) :
            (r \o q)[i] = IF i <= Len(r) THEN r[i] ELSE q[i - Len(r)]
    BY <1>g, <1>3, <1>a, ConcatProperties
  <2> QED
    BY <1>b, <2>1, Zenon
<1>e. c[m + 1] = e /\ \A k \in 1 .. m : c[k] = p[k]
  <2>1. m + 1 \in 1 .. Len(r) + Len(q) /\ m + 1 <= Len(r)
    BY <1>g, <1>3, <1>a
  <2>2. c[m + 1] = e
    BY <1>a, <1>d, <2>1
  <2>3. ASSUME NEW k \in 1 .. m
        PROVE  c[k] = p[k]
    <3>1. k \in 1 .. Len(r) + Len(q) /\ k <= Len(r)
      BY <1>g, <1>3, <1>a
    <3> QED
      BY <1>a, <1>d, <3>1
  <2> QED
    BY <2>2, <2>3
<1>f. ASSUME NEW k \in 1 .. Len(q)
      PROVE  c[m + 1 + k] = q[k]
  <2>1. /\ m + 1 + k \in 1 .. Len(r) + Len(q) /\ ~ m + 1 + k <= Len(r)
        /\ (m + 1 + k) - Len(r) = k
    BY <1>g, <1>3, <1>a
  <2> QED
    BY <1>d, <2>1
<1>4. /\ c \in Seq(S) /\ Len(c) = m + 1 + Len(q) /\ c[m + 1] = e
      /\ \A k \in 1 .. m : c[k] = p[k]
      /\ \A k \in 1 .. Len(q) : c[m + 1 + k] = q[k]
  BY <1>g, <1>3, <1>a, <1>c, <1>e, <1>f
<1>5. Len(c) = IF m = Len(b) THEN m + 1 ELSE Len(b)
  <2>1. Len(c) = m + 1 + Len(q) /\ (m = Len(b) => Len(q) = 0)
        /\ (m # Len(b) => Len(q) = Len(b) - (m + 1))
    BY <1>2, <1>4
  <2> QED
    BY <1>3, <2>1
<1>6. ASSUME NEW k \in 1 .. Len(c), k # m + 1
      PROVE  k \in 1 .. Len(b) /\ c[k] = b[k]
  <2>1. k \in 1 .. Len(b) /\ k \in Nat
    BY <1>3, <1>5, <1>6
  <2>2. CASE k <= m
    BY <1>1, <1>4, <2>1, <2>2
  <2>3. CASE k > m + 1
    <3>1. k - (m + 1) \in 1 .. Len(q) /\ m + 1 + (k - (m + 1)) = k
      BY <1>g, <1>2, <1>3, <1>4, <2>1, <2>3
    <3>2. c[k] = q[k - (m + 1)] /\ q[k - (m + 1)] = b[k]
      BY <1>2, <1>4, <3>1
    <3> QED
      BY <2>1, <3>2
  <2> QED
    BY <1>3, <1>6, <2>1, <2>2, <2>3
<1> QED
  <2>1. Overwritten(b, m, e) = c
    BY DEF c, p, q, Overwritten
  <2> QED
    BY <1>4, <1>5, <1>6, <2>1 DEF Writes

(* A place in the texts, before which there are m glyphs.                  *)
Placed(i, j, m) == /\ i \in 1 .. Len(text) /\ j \in 1 .. Len(text[i].chars) + 1
                   /\ m = Layout!GlyphsUpTo(i, j)

(* A marker is such a place, and the buffer has been written up to it.     *)
Marked(marker) ==
    /\ marker \in [i : Nat, j : Nat, map : Nat, width : Int]
    /\ Placed(marker.i, marker.j, marker.map)
    /\ marker.map <= Len(buffer)

(* What the layout has come by are places of the texts, each with the      *)
(* number of glyphs before it; and each point in the buffer is of the      *)
(* glyph of its number.                                                    *)
CountsInv ==
    /\ text \in Texts /\ limit \in Int
    /\ textAt \in Nat \X Nat /\ textFresh \in BOOLEAN
    /\ penX \in Int /\ penY \in Int /\ lineHeight \in Nat \ {0}
    /\ textMap \in 0 .. Len(buffer)
    /\ Len(buffer) <= Layout!Counted(text)[Len(text)]
    /\ buffer \in Seq([x : Int, y : Int, n : Nat, j : Nat])
    /\ \A k \in 1 .. Len(buffer) : Placed(buffer[k].n, buffer[k].j, k - 1)
    /\ Layout!Done => textMap = Layout!Counted(text)[Len(text)]
    /\ ~ Layout!Done => Placed(textAt[1], textAt[2], textMap)
    /\ ~ textFresh => ~ Layout!Done
    /\ Marked(line) /\ Marked(word)

(* Point k is followed by what is at (x, y): that is below it, or right of *)
(* it.                                                                     *)
FollowedBy(k, x, y) ==
    \/ y > buffer[k].y
    \/ y = buffer[k].y /\ x >= buffer[k].x + Layout!Advance(buffer[k].n)

(* Texts that do not grow: the layout goes back only to a place before the *)
(* one it is at, with the next line begun, and where a text seems to be    *)
(* larger than the line it is at the line's marker.                        *)
FallingInv ==
    Layout!Falling =>
        /\ word.map <= textMap
        /\ ~ Layout!Done => \/ Layout!Size(textAt[1]) <= lineHeight
                            \/ textAt = <<line.i, line.j>>
        /\ ~ textFresh => Layout!Size(textAt[1]) <= lineHeight
        /\ \A k \in 1 .. textMap : buffer[k].y <= penY
        /\ textMap > 0 => FollowedBy(textMap, penX, penY)
        /\ \A k \in 2 .. textMap : FollowedBy(k - 1, buffer[k].x, buffer[k].y)

LayoutInv == CountsInv /\ FallingInv

(* The place that has been marked has the marker's number of glyphs.       *)
LEMMA LayoutBegins == Layout!LayoutInit => LayoutInv
<1> SUFFICES ASSUME Layout!LayoutInit PROVE LayoutInv
  OBVIOUS
<1>1. /\ text \in Texts /\ limit \in Int /\ Len(text) \in Nat \ {0} /\ 1 \in 1 .. Len(text)
      /\ text[1].x \in Int /\ text[1].scale \in Nat \ {0} /\ Len(text[1].chars) \in Nat
  BY TextsAre, UiAssumption DEF TextsHaveSizes, Layout!LayoutInit
<1>2. 1 \in 1 .. Len(text[1].chars) + 1
  BY <1>1
<1>3. Layout!GlyphsUpTo(1, 1) = 0
  BY <1>1, <1>2, GlyphsAdd
<1>4. Layout!Counted(text)[Len(text)] \in Nat
  BY <1>1, CountedAdds
<1>5. Placed(1, 1, 0)
  BY <1>1, <1>2, <1>3 DEF Placed
<1>6. buffer = <<>> /\ Len(buffer) = 0
  BY DEF Layout!LayoutInit
<1>7. line = [i |-> 1, j |-> 1, map |-> 0, width |-> 0] /\ word = line
  BY DEF Layout!LayoutInit, Layout!Marker
<1>8. Marked(line) /\ Marked(word)
  BY <1>5, <1>6, <1>7 DEF Marked
<1>9. ~ Layout!Done /\ textAt = <<1, 1>> /\ textFresh = TRUE /\ textMap = 0
  BY <1>1 DEF Layout!Done, Layout!LayoutInit
<1>10. /\ penX \in Int /\ penY \in Int /\ lineHeight \in Nat \ {0}
       /\ Layout!Size(textAt[1]) <= lineHeight
  BY <1>1 DEF Layout!LayoutInit, Layout!Size
<1>11. CountsInv
  BY <1>1, <1>4, <1>5, <1>6, <1>8, <1>9, <1>10 DEF CountsInv
<1>12. FallingInv
  BY <1>7, <1>9, <1>10 DEF FallingInv
<1> QED
  BY <1>11, <1>12 DEF LayoutInv

(* As long as the texts stay, their places, sizes and widths do.           *)
LEMMA SameText ==
  ASSUME text' = text
  PROVE  /\ \A i, j, m : Placed(i, j, m)' <=> Placed(i, j, m)
         /\ \A n : Layout!Size(n)' = Layout!Size(n) /\ Layout!Advance(n)' = Layout!Advance(n)
         /\ Layout!Falling' <=> Layout!Falling
<1>1. \A i, j : Layout!GlyphsUpTo(i, j)' = Layout!GlyphsUpTo(i, j)
  BY DEF Layout!GlyphsUpTo, Layout!Letter
<1>2. \A i, j, m : Placed(i, j, m)' <=> Placed(i, j, m)
  BY <1>1 DEF Placed
<1> QED
  BY <1>2 DEF Layout!Size, Layout!Advance, Layout!Falling

(* Every step leaves the texts and the width.                              *)
LEMMA TextStays == Layout!LayoutNext => text' = text /\ limit' = limit
  BY DEF Layout!LayoutNext, Layout!Grow, Layout!Enter, Layout!Boundary, Layout!Wrap,
     Layout!Break, Layout!AddGlyph, Layout!Leave

(* What is at the place of a layout.                                       *)
LEMMA AtPlace ==
  ASSUME CountsInv, ~ Layout!Done
  PROVE  /\ textAt = <<textAt[1], textAt[2]>>
         /\ textAt[1] \in 1 .. Len(text) /\ textAt[2] \in 1 .. Len(text[textAt[1]].chars) + 1
         /\ textMap = Layout!GlyphsUpTo(textAt[1], textAt[2])
         /\ text[textAt[1]].x \in Int /\ text[textAt[1]].scale \in Nat \ {0}
         /\ Len(text[textAt[1]].chars) \in Nat /\ Len(text) \in Nat
         /\ Layout!Size(textAt[1]) \in Nat \ {0} /\ Layout!Advance(textAt[1]) \in Nat
         /\ Layout!Size(textAt[1]) \div 2 \in Nat \ {0}
<1>1. Placed(textAt[1], textAt[2], textMap) /\ textAt \in Nat \X Nat /\ text \in Texts
  BY DEF CountsInv
<1>2. /\ text[textAt[1]].x \in Int /\ text[textAt[1]].scale \in Nat \ {0}
      /\ Len(text[textAt[1]].chars) \in Nat /\ Len(text) \in Nat
  BY <1>1, TextsAre DEF Placed
<1>3. /\ Layout!Size(textAt[1]) \in Nat \ {0} /\ Layout!Advance(textAt[1]) \in Nat
      /\ Layout!Size(textAt[1]) \div 2 \in Nat \ {0}
  <2> DEFINE s == text[textAt[1]].scale
  <2>1. s \in Nat \ {0} /\ Glyph \in Nat
    BY <1>2, UiAssumption DEF TextsHaveSizes
  <2>2. Layout!Size(textAt[1]) = 4 * s /\ Layout!Advance(textAt[1]) = Glyph * s
    BY DEF Layout!Size, Layout!Advance
  <2> HIDE DEF s
  <2>3. 4 * s \in Nat \ {0} /\ Glyph * s \in Nat
    BY <2>1
  <2>4. (4 * s) \div 2 \in Nat \ {0}
    BY <2>1
  <2> QED
    BY <2>2, <2>3, <2>4
<1> QED
  BY <1>1, <1>2, <1>3 DEF Placed

(* A new line leaves numbers.                                              *)
LEMMA NewLineIs ==
  ASSUME CountsInv, ~ Layout!Done, Layout!NewLine(textAt[1])
  PROVE  /\ penX' \in Int /\ penY' \in Int /\ penY' > penY
         /\ lineHeight' = Layout!Size(textAt[1]) /\ lineHeight' \in Nat \ {0}
<1> DEFINE h == Layout!Size(textAt[1])
<1>1. /\ penX' = 4 * text[textAt[1]].x /\ penY' = penY + lineHeight + (h \div 2)
      /\ lineHeight' = h
  BY DEF Layout!NewLine
<1>2. /\ text[textAt[1]].x \in Int /\ penY \in Int /\ lineHeight \in Nat \ {0}
      /\ h \in Nat \ {0} /\ h \div 2 \in Nat \ {0}
  BY AtPlace DEF CountsInv
<1> HIDE DEF h
<1> QED
  BY <1>1, <1>2 DEF h

(* No step brings a count out of step with its place.                      *)
LEMMA CountsStay == CountsInv /\ [Layout!LayoutNext]_textVars => CountsInv'
<1> SUFFICES ASSUME CountsInv, [Layout!LayoutNext]_textVars
             PROVE  CountsInv'
  OBVIOUS
<1>1. CASE UNCHANGED textVars
  <2>1. text' = text
    BY <1>1 DEF textVars
  <2>2. Marked(line)' /\ Marked(word)'
    BY <1>1, <2>1, SameText DEF textVars, CountsInv, Marked
  <2> QED
    BY <1>1, <2>1, <2>2, SameText DEF textVars, CountsInv, Layout!Done
<1> SUFFICES ASSUME Layout!LayoutNext
             PROVE  CountsInv'
  BY <1>1
<1>2. text' = text /\ limit' = limit
  BY TextStays
<1>3. ASSUME NEW m, Marked(m), Len(buffer') >= Len(buffer), Len(buffer') \in Nat
      PROVE  /\ m.map <= Len(buffer') /\ m \in [i : Nat, j : Nat, map : Nat, width : Int]
             /\ Placed(m.i, m.j, m.map)'
  <2>1. Len(buffer) \in Nat /\ m.map \in Nat
    BY <1>3 DEF CountsInv, Marked
  <2> QED
    BY <1>2, <1>3, <2>1, SameText DEF Marked
<1>4. ASSUME /\ buffer' = buffer
             /\ textAt' \in Nat \X Nat /\ textFresh' \in BOOLEAN
             /\ penX' \in Int /\ penY' \in Int /\ lineHeight' \in Nat \ {0}
             /\ textMap' \in 0 .. Len(buffer)
             /\ Layout!Done' => textMap' = Layout!Counted(text)[Len(text)]
             /\ ~ Layout!Done' => Placed(textAt'[1], textAt'[2], textMap')
             /\ ~ textFresh' => ~ Layout!Done'
             /\ line' \in [i : Nat, j : Nat, map : Nat, width : Int]
             /\ Placed(line'.i, line'.j, line'.map) /\ line'.map <= Len(buffer)
             /\ word' \in [i : Nat, j : Nat, map : Nat, width : Int]
             /\ Placed(word'.i, word'.j, word'.map) /\ word'.map <= Len(buffer)
      PROVE  CountsInv'
  <2>1. Marked(line)' /\ Marked(word)'
    BY <1>2, <1>4, SameText DEF Marked
  <2>2. \A k \in 1 .. Len(buffer') : Placed(buffer[k].n, buffer[k].j, k - 1)'
    BY <1>2, <1>4, SameText DEF CountsInv
  <2>3. ~ Layout!Done' => Placed(textAt[1], textAt[2], textMap)'
    BY <1>2, <1>4, SameText
  <2> QED
    BY <1>2, <1>4, <2>1, <2>2, <2>3 DEF CountsInv
<1>5. /\ textAt \in Nat \X Nat /\ textFresh \in BOOLEAN /\ Len(buffer) \in Nat
      /\ penX \in Int /\ penY \in Int /\ lineHeight \in Nat \ {0}
      /\ textMap \in 0 .. Len(buffer)
      /\ line \in [i : Nat, j : Nat, map : Nat, width : Int]
      /\ Placed(line.i, line.j, line.map) /\ line.map <= Len(buffer)
      /\ word \in [i : Nat, j : Nat, map : Nat, width : Int]
      /\ Placed(word.i, word.j, word.map) /\ word.map <= Len(buffer)
  BY DEF CountsInv, Marked
<1>6. ASSUME NEW m, Placed(m.i, m.j, m.map), m.map <= Len(buffer),
             m \in [i : Nat, j : Nat, map : Nat, width : Int],
             Layout!GoTo(m)
      PROVE  /\ textAt' \in Nat \X Nat /\ textFresh' \in BOOLEAN
             /\ textMap' \in 0 .. Len(buffer)
             /\ ~ Layout!Done' /\ Placed(textAt'[1], textAt'[2], textMap')
  <2>1. textAt' = <<m.i, m.j>> /\ textMap' = m.map /\ textFresh' = TRUE
    BY <1>6 DEF Layout!GoTo
  <2>2. m.i \in 1 .. Len(text) /\ m.i \in Nat /\ m.j \in Nat /\ m.map \in Nat
    BY <1>6 DEF Placed
  <2>3. Len(text) \in Nat
    BY TextsAre DEF CountsInv
  <2>4. textAt'[1] = m.i /\ textAt'[2] = m.j
    BY <2>1
  <2>5. textAt' \in Nat \X Nat /\ textFresh' \in BOOLEAN
    BY <2>1, <2>2
  <2>6. textMap' \in 0 .. Len(buffer)
    BY <1>5, <1>6, <2>1, <2>2
  <2>7. Placed(textAt'[1], textAt'[2], textMap')
    BY <1>6, <2>1, <2>4
  <2>8. ~ (textAt'[1] > Len(text))
    BY <2>2, <2>3, <2>4
  <2>9. ~ Layout!Done'
    BY <1>2, <2>8 DEF Layout!Done
  <2> QED
    BY <2>5, <2>6, <2>7, <2>9
<1>7. CASE Layout!Grow
  <2>1. ~ Layout!Done /\ Layout!GoTo(line) /\ lineHeight' = Layout!Size(textAt[1])
        /\ penX' = penX /\ penY' = penY /\ line' = line /\ word' = word /\ buffer' = buffer
    BY <1>7 DEF Layout!Grow
  <2>2. lineHeight' \in Nat \ {0}
    BY <2>1, AtPlace
  <2>3. /\ textAt' \in Nat \X Nat /\ textFresh' \in BOOLEAN
        /\ textMap' \in 0 .. Len(buffer)
        /\ ~ Layout!Done' /\ Placed(textAt'[1], textAt'[2], textMap')
    BY <1>5, <1>6, <2>1
  <2> QED
    BY <1>4, <1>5, <2>1, <2>2, <2>3
<1>8. CASE Layout!Enter
  <2>1. UNCHANGED <<textAt, penX, penY, lineHeight, textMap, line, word, buffer>>
        /\ textFresh' = FALSE /\ ~ Layout!Done
    BY <1>8 DEF Layout!Enter, Layout!layout
  <2>2. ~ Layout!Done' /\ Placed(textAt[1], textAt[2], textMap)
    BY <1>2, <2>1 DEF Layout!Done, CountsInv
  <2> QED
    BY <1>4, <1>5, <2>1, <2>2
<1>9. ASSUME NEW c, Layout!Inside(c)
      PROVE  /\ ~ Layout!Done /\ textFresh = FALSE
             /\ Placed(textAt[1], textAt[2], textMap)
             /\ textAt[2] + 1 \in 1 .. Len(text[textAt[1]].chars) + 1
             /\ textAt[1] \in Nat /\ textAt[2] \in Nat /\ textAt[1] <= Len(text)
             /\ c = text[textAt[1]].chars[textAt[2]]
             /\ Layout!GlyphsUpTo(textAt[1], textAt[2] + 1) =
                    textMap + (IF c = "letter" THEN 1 ELSE 0)
  <2>1. /\ ~ Layout!Done /\ ~ textFresh /\ textAt[2] <= Len(text[textAt[1]].chars)
        /\ c = text[textAt[1]].chars[textAt[2]]
    BY <1>9 DEF Layout!Inside
  <2>2. Placed(textAt[1], textAt[2], textMap) /\ text \in Texts
    BY <2>1 DEF CountsInv
  <2>3. Layout!GlyphsUpTo(textAt[1], textAt[2] + 1) =
            textMap + (IF c = "letter" THEN 1 ELSE 0)
    BY <2>1, <2>2, GlyphsAdd DEF Placed
  <2>4. /\ textAt[1] \in 1 .. Len(text) /\ Len(text) \in Nat
        /\ textAt[2] \in 1 .. Len(text[textAt[1]].chars) + 1
        /\ Len(text[textAt[1]].chars) \in Nat
    BY <2>1, AtPlace
  <2>5. /\ textAt[1] \in Nat /\ textAt[2] \in Nat /\ textAt[1] <= Len(text)
        /\ textAt[2] + 1 \in 1 .. Len(text[textAt[1]].chars) + 1
    BY <2>1, <2>4
  <2>6. textFresh = FALSE
    BY <1>5, <2>1
  <2> QED
    BY <2>1, <2>2, <2>3, <2>5, <2>6
<1>10. CASE Layout!Boundary
  <2>0. PICK c \in {"space", "return"} :
            Layout!Inside(c) /\ penX' \in Int /\ penY' \in Int /\ lineHeight' \in Nat \ {0}
    <3>1. CASE Layout!SpaceOver
      <4>1. Layout!Inside("space") /\ penX' = penX + text[textAt[1]].scale
            /\ penY' = penY /\ lineHeight' = lineHeight
        BY <3>1 DEF Layout!SpaceOver, Layout!Space
      <4>2. text[textAt[1]].scale \in Nat
        BY <1>9, <4>1, AtPlace
      <4> QED
        BY <1>5, <4>1, <4>2
    <3>2. CASE Layout!Inside("return") /\ Layout!NewLine(textAt[1])
      <4>1. ~ Layout!Done
        BY <3>2 DEF Layout!Inside
      <4> QED
        BY <3>2, <4>1, NewLineIs
    <3> QED
      BY <1>10, <3>1, <3>2 DEF Layout!Boundary, Layout!Return
  <2>1. /\ textAt' = <<textAt[1], textAt[2] + 1>>
        /\ word' = [i |-> textAt[1], j |-> textAt[2] + 1, map |-> textMap, width |-> 0]
        /\ UNCHANGED <<textFresh, textMap, line, buffer>>
    BY <1>10 DEF Layout!Boundary, Layout!Next1, Layout!Marker
  <2>2. /\ ~ Layout!Done /\ textAt[1] \in Nat /\ textAt[2] \in Nat /\ textAt[1] <= Len(text)
        /\ Placed(textAt[1], textAt[2] + 1, textMap)
    <3>0. textMap \in Nat /\ c # "letter"
      BY <1>5, <2>0
    <3>1. Layout!GlyphsUpTo(textAt[1], textAt[2] + 1) = textMap
      <4>1. Layout!GlyphsUpTo(textAt[1], textAt[2] + 1) =
                textMap + (IF c = "letter" THEN 1 ELSE 0)
        BY <1>9, <2>0
      <4> QED
        BY <3>0, <4>1
    <3> QED
      BY <1>9, <2>0, <3>1 DEF Placed
  <2>3. ~ Layout!Done'
    BY <1>2, <2>1, <2>2 DEF Layout!Done
  <2>4. /\ word' \in [i : Nat, j : Nat, map : Nat, width : Int]
        /\ word'.i = textAt[1] /\ word'.j = textAt[2] + 1 /\ word'.map = textMap
    BY <1>5, <2>1, <2>2
  <2> QED
    BY <1>4, <1>5, <2>0, <2>1, <2>2, <2>3, <2>4
<1>11. CASE Layout!Wrap
  <2>1. /\ Layout!Inside("letter") /\ Layout!NewLine(textAt[1]) /\ Layout!GoTo(word)
        /\ line' = word /\ word' = word /\ buffer' = buffer
    BY <1>11 DEF Layout!Wrap, Layout!Letter
  <2>2. penX' \in Int /\ penY' \in Int /\ lineHeight' \in Nat \ {0}
    BY <1>9, <2>1, NewLineIs
  <2>3. /\ textAt' \in Nat \X Nat /\ textFresh' \in BOOLEAN
        /\ textMap' \in 0 .. Len(buffer)
        /\ ~ Layout!Done' /\ Placed(textAt'[1], textAt'[2], textMap')
    BY <1>5, <1>6, <2>1
  <2> QED
    BY <1>4, <1>5, <2>1, <2>2, <2>3
<1>12. CASE Layout!Break
  <2>1. /\ Layout!Inside("letter") /\ Layout!NewLine(textAt[1])
        /\ line' = [i |-> textAt[1], j |-> textAt[2], map |-> textMap, width |-> 0]
        /\ word' = line' /\ UNCHANGED <<textAt, textFresh, textMap, buffer>>
    BY <1>12 DEF Layout!Break, Layout!Letter, Layout!Marker
  <2>2. penX' \in Int /\ penY' \in Int /\ lineHeight' \in Nat \ {0}
    BY <1>9, <2>1, NewLineIs
  <2>3. /\ line' \in [i : Nat, j : Nat, map : Nat, width : Int]
        /\ line'.i = textAt[1] /\ line'.j = textAt[2] /\ line'.map = textMap
    BY <1>5, <1>9, <2>1
  <2>4. ~ Layout!Done' /\ Placed(textAt[1], textAt[2], textMap)
    BY <1>2, <1>9, <2>1 DEF Layout!Done
  <2> QED
    BY <1>4, <1>5, <2>1, <2>2, <2>3, <2>4
<1>13. CASE Layout!Leave
  <2>1. /\ ~ Layout!Done /\ textAt[2] > Len(text[textAt[1]].chars)
        /\ textAt' = <<textAt[1] + 1, 1>> /\ textFresh' = TRUE
        /\ UNCHANGED <<penX, penY, lineHeight, textMap, line, word, buffer>>
    BY <1>13 DEF Layout!Leave, Layout!layout
  <2>2. /\ text \in Texts /\ Len(text) \in Nat /\ textAt[1] \in 1 .. Len(text)
        /\ Len(text[textAt[1]].chars) \in Nat
        /\ textAt[2] \in 1 .. Len(text[textAt[1]].chars) + 1
        /\ textMap = Layout!GlyphsUpTo(textAt[1], textAt[2])
    BY <2>1, AtPlace DEF CountsInv
  <2>3. textAt[2] = Len(text[textAt[1]].chars) + 1
    BY <2>1, <2>2
  <2>4. /\ textMap = Layout!Counted(text)[textAt[1]]
        /\ textMap = Layout!GlyphsUpTo(textAt[1] + 1, 1)
    BY <2>2, <2>3, GlyphsAdd
  <2>5. Layout!Done' <=> textAt[1] = Len(text)
    BY <1>2, <2>1, <2>2 DEF Layout!Done
  <2>6. ~ Layout!Done' => Placed(textAt[1] + 1, 1, textMap)
    <3> SUFFICES ASSUME ~ Layout!Done' PROVE Placed(textAt[1] + 1, 1, textMap)
      OBVIOUS
    <3>1. textAt[1] + 1 \in 1 .. Len(text)
      BY <2>2, <2>5
    <3>2. Len(text[textAt[1] + 1].chars) \in Nat
      BY <2>2, <3>1, TextsAre
    <3> QED
      BY <2>4, <3>1, <3>2 DEF Placed
  <2>7. Layout!Done' => textMap' = Layout!Counted(text)[Len(text)]
    BY <2>1, <2>4, <2>5
  <2> QED
    <3>1. textAt' \in Nat \X Nat
      BY <2>1, <2>2
    <3>2. textFresh' \in BOOLEAN /\ (~ textFresh' => ~ Layout!Done')
      BY <2>1
    <3> QED
      BY <1>4, <1>5, <2>1, <2>6, <2>7, <3>1, <3>2
<1>14. CASE Layout!AddGlyph
  <2> DEFINE e == [x |-> penX, y |-> penY, n |-> textAt[1], j |-> textAt[2]]
             S == [x : Int, y : Int, n : Nat, j : Nat]
             a == Layout!Advance(textAt[1])
  <2>1. /\ Layout!Inside("letter") /\ textMap < Layout!Counted(text)[Len(text)]
        /\ buffer' = Overwritten(buffer, textMap, e)
        /\ textMap' = textMap + 1 /\ penX' = penX + a
        /\ word' = [word EXCEPT !.width = @ + a]
        /\ textAt' = <<textAt[1], textAt[2] + 1>>
        /\ UNCHANGED <<textFresh, penY, lineHeight, line>>
    BY <1>14 DEF Layout!AddGlyph, Layout!Letter, Layout!Next1, Overwritten
  <2>0. /\ Layout!Inside("letter") /\ textMap < Layout!Counted(text)[Len(text)]
        /\ textMap' = textMap + 1 /\ penX' = penX + a
        /\ word' = [word EXCEPT !.width = @ + a]
        /\ textAt' = <<textAt[1], textAt[2] + 1>>
        /\ UNCHANGED <<textFresh, penY, lineHeight, line>>
    BY <2>1
  <2>2. e \in S /\ buffer \in Seq(S) /\ a \in Nat
    BY <1>5, <1>9, <2>0, AtPlace DEF CountsInv
  <2>a. e.n = textAt[1] /\ e.j = textAt[2]
    OBVIOUS
  <2> HIDE DEF e, S, a
  <2>3. /\ buffer' \in Seq(S) /\ buffer'[textMap + 1] = e
        /\ Len(buffer') = IF textMap = Len(buffer) THEN textMap + 1 ELSE Len(buffer)
        /\ \A k \in 1 .. Len(buffer') : k # textMap + 1 =>
               k \in 1 .. Len(buffer) /\ buffer'[k] = buffer[k]
    <3>1. textMap \in 0 .. Len(buffer)
      BY <1>5
    <3>2. Writes(Overwritten(buffer, textMap, e), S, buffer, textMap, e)
      BY <2>2, <3>1, PointWritten
    <3> QED
      BY <2>1, <3>2 DEF Writes
  <2>4. /\ Placed(textAt[1], textAt[2], textMap) /\ Placed(textAt[1], textAt[2] + 1, textMap + 1)
        /\ ~ Layout!Done
    <3>1. Layout!GlyphsUpTo(textAt[1], textAt[2] + 1) = textMap + 1
      BY <1>9, <2>0
    <3> QED
      BY <1>9, <2>0, <3>1 DEF Placed
  <2>5. textAt[1] \in Nat /\ textAt[2] \in Nat /\ textMap \in Nat
    BY <1>5, <1>9, <2>0
  <2>6. /\ Len(buffer') >= Len(buffer) /\ Len(buffer') \in Nat /\ textMap' \in 0 .. Len(buffer')
    <3>1. Len(buffer') = IF textMap = Len(buffer) THEN textMap + 1 ELSE Len(buffer)
      BY <2>3
    <3>2. textMap \in 0 .. Len(buffer) /\ Len(buffer) \in Nat /\ textMap' = textMap + 1
      BY <1>5, <2>0
    <3> QED
      BY <3>1, <3>2
  <2>7. Len(buffer') <= Layout!Counted(text)[Len(text)]
    <3>1. Layout!Counted(text)[Len(text)] \in Nat /\ Len(buffer) <= Layout!Counted(text)[Len(text)]
      <4>1. Len(text) \in 0 .. Len(text)
        BY TextsAre DEF CountsInv
      <4> QED
        BY <4>1, CountedAdds DEF CountsInv
    <3>2. Len(buffer') = IF textMap = Len(buffer) THEN textMap + 1 ELSE Len(buffer)
      BY <2>3
    <3>3. /\ textMap \in Nat /\ Len(buffer) \in Nat
          /\ textMap < Layout!Counted(text)[Len(text)]
      BY <1>5, <2>0
    <3> QED
      BY <3>1, <3>2, <3>3
  <2>8. \A k \in 1 .. Len(buffer') : Placed(buffer[k].n, buffer[k].j, k - 1)'
    <3>1. ASSUME NEW k \in 1 .. Len(buffer')
          PROVE  Placed(buffer'[k].n, buffer'[k].j, k - 1)
      <4>1. CASE k = textMap + 1
        <5>1. buffer'[k].n = textAt[1] /\ buffer'[k].j = textAt[2] /\ k - 1 = textMap
          BY <2>a, <2>3, <2>5, <4>1
        <5> QED
          BY <2>4, <5>1
      <4>2. CASE k # textMap + 1
        BY <2>3, <4>2 DEF CountsInv
      <4> QED
        BY <4>1, <4>2
    <3> QED
      BY <1>2, <3>1, SameText
  <2>9. word' \in [i : Nat, j : Nat, map : Nat, width : Int]
        /\ word'.i = word.i /\ word'.j = word.j /\ word'.map = word.map
    <3>1. word' = [word EXCEPT !.width = @ + a]
      BY <2>0
    <3>2. word \in [i : Nat, j : Nat, map : Nat, width : Int] /\ word.width + a \in Int
      BY <1>5, <2>2
    <3> QED
      BY <3>1, <3>2
  <2>10. Marked(line)' /\ Marked(word)'
    <3>1. Placed(line.i, line.j, line.map)' /\ Placed(word.i, word.j, word.map)'
      BY <1>2, <1>5, <2>0, <2>9, SameText
    <3>2. line'.map <= Len(buffer') /\ word'.map <= Len(buffer')
      <4>1. line.map \in Nat /\ word.map \in Nat /\ Len(buffer) \in Nat
        BY <1>5
      <4> QED
        <5>1. /\ line' = line /\ line.map <= Len(buffer) /\ word.map <= Len(buffer)
              /\ word'.map = word.map
          BY <1>5, <2>0, <2>9
        <5> QED
          BY <2>6, <4>1, <5>1
    <3> QED
      BY <1>5, <2>0, <2>9, <3>1, <3>2 DEF Marked
  <2>11. ~ Layout!Done' /\ Placed(textAt[1], textAt[2], textMap)'
    <3>1. ~ Layout!Done'
      BY <1>2, <2>0, <2>4 DEF Layout!Done
    <3> QED
      BY <1>2, <2>0, <2>4, <3>1, SameText
  <2>12. textAt' \in Nat \X Nat /\ penX' \in Int
    <3>1. textAt' = <<textAt[1], textAt[2] + 1>> /\ penX' = penX + a
      BY <2>0
    <3> QED
      BY <1>5, <2>2, <2>5, <3>1
  <2> QED
    BY <1>2, <1>5, <2>0, <2>3, <2>6, <2>7, <2>8, <2>10, <2>11, <2>12 DEF CountsInv, S
<1> QED
  BY <1>7, <1>8, <1>10, <1>11, <1>12, <1>13, <1>14 DEF Layout!LayoutNext

(* No text that is smaller than the one before it brings the glyphs out of *)
(* order.                                                                  *)
LEMMA FallingStays == LayoutInv /\ [Layout!LayoutNext]_textVars => FallingInv'
<1> SUFFICES ASSUME CountsInv, FallingInv, [Layout!LayoutNext]_textVars
             PROVE  FallingInv'
  BY DEF LayoutInv
<1>0. text' = text
  BY TextStays DEF textVars
<1>1. CASE UNCHANGED textVars
  <2>1. /\ FollowedBy(textMap, penX, penY)' <=> FollowedBy(textMap, penX, penY)
        /\ \A k : FollowedBy(k - 1, buffer[k].x, buffer[k].y)'
                  <=> FollowedBy(k - 1, buffer[k].x, buffer[k].y)
    BY <1>0, <1>1, SameText DEF textVars, FollowedBy
  <2>2. Layout!Size(textAt[1])' = Layout!Size(textAt[1])
    BY <1>0, <1>1, SameText DEF textVars
  <2>3. Layout!Done' <=> Layout!Done
    BY <1>1 DEF textVars, Layout!Done
  <2> QED
    BY <1>0, <1>1, <2>1, <2>2, <2>3, SameText DEF textVars, FallingInv
<1> SUFFICES ASSUME Layout!LayoutNext, Layout!Falling'
             PROVE  FallingInv'
  BY <1>1 DEF FallingInv
<1>2. /\ Layout!Falling
      /\ \A n : Layout!Size(n)' = Layout!Size(n) /\ Layout!Advance(n)' = Layout!Advance(n)
  BY <1>0, SameText
<1>3. /\ word.map <= textMap /\ word.map \in Nat /\ textMap \in Nat /\ textMap <= Len(buffer)
      /\ ~ Layout!Done => \/ Layout!Size(textAt[1]) <= lineHeight
                          \/ textAt = <<line.i, line.j>>
      /\ ~ textFresh => Layout!Size(textAt[1]) <= lineHeight
      /\ ~ textFresh => ~ Layout!Done
      /\ \A k \in 1 .. textMap : buffer[k].y <= penY
      /\ textMap > 0 => FollowedBy(textMap, penX, penY)
      /\ \A k \in 2 .. textMap : FollowedBy(k - 1, buffer[k].x, buffer[k].y)
  BY <1>2 DEF FallingInv, CountsInv, Marked
<1>4. /\ penX \in Int /\ penY \in Int /\ lineHeight \in Nat \ {0} /\ Len(buffer) \in Nat
      /\ \A k \in 1 .. Len(buffer) : /\ buffer[k].x \in Int /\ buffer[k].y \in Int
                                     /\ buffer[k].n \in Nat
                                     /\ Layout!Advance(buffer[k].n) \in Int
  <2>1. ASSUME NEW k \in 1 .. Len(buffer)
        PROVE  /\ buffer[k].x \in Int /\ buffer[k].y \in Int /\ buffer[k].n \in Nat
               /\ Layout!Advance(buffer[k].n) \in Int
    <3> DEFINE S == [x : Int, y : Int, n : Nat, j : Nat]
    <3>0. buffer \in Seq(S)
      BY DEF CountsInv
    <3> HIDE DEF S
    <3>a. buffer[k] \in S
      BY <3>0
    <3>1. buffer[k] \in [x : Int, y : Int, n : Nat, j : Nat]
      BY <3>a DEF S
    <3>2. buffer[k].n \in 1 .. Len(text) /\ text \in Texts
      BY DEF CountsInv, Placed
    <3>3. text[buffer[k].n].scale \in Nat /\ Glyph \in Nat
      BY <3>2, TextsAre, UiAssumption DEF TextsHaveSizes
    <3> QED
      BY <3>1, <3>3 DEF Layout!Advance
  <2> QED
    BY <2>1 DEF CountsInv
<1>5. ASSUME buffer' = buffer, textMap' \in 0 .. textMap, penY' \in Int, penX' \in Int,
             \/ penY' > penY
             \/ penY' = penY /\ penX' >= penX /\ textMap' = textMap,
             word'.map <= textMap',
             ~ Layout!Done' => \/ Layout!Size(textAt'[1]) <= lineHeight'
                               \/ textAt' = <<line'.i, line'.j>>,
             ~ textFresh' => Layout!Size(textAt'[1]) <= lineHeight'
      PROVE  FallingInv'
  <2>0. penY \in Int /\ penY' \in Int /\ penY <= penY'
    BY <1>4, <1>5
  <2>1. ASSUME NEW k \in 1 .. textMap'
        PROVE  buffer'[k].y <= penY'
    <3>1. k \in 1 .. textMap /\ k \in 1 .. Len(buffer)
      BY <1>3, <1>4, <1>5
    <3>2. buffer[k].y <= penY /\ buffer[k].y \in Int
      BY <1>3, <1>4, <3>1
    <3> DEFINE y == buffer[k].y
    <3>3. buffer'[k].y = y
      BY <1>5
    <3> HIDE DEF y
    <3> QED
      BY <2>0, <3>2, <3>3 DEF y
  <2>2. textMap' > 0 => FollowedBy(textMap, penX, penY)'
    <3> SUFFICES ASSUME textMap' > 0 PROVE FollowedBy(textMap, penX, penY)'
      OBVIOUS
    <3>1. textMap' \in 1 .. textMap /\ textMap' \in 1 .. Len(buffer)
      BY <1>3, <1>4, <1>5
    <3>2. CASE penY' > penY
      <4>1. penY' > buffer[textMap'].y
        BY <1>3, <1>4, <1>5, <3>1, <3>2
      <4> QED
        BY <1>5, <4>1 DEF FollowedBy
    <3>3. CASE penY' = penY /\ penX' >= penX /\ textMap' = textMap
      <4>1. FollowedBy(textMap, penX, penY)
        BY <1>3, <3>1, <3>3
      <4> DEFINE a == Layout!Advance(buffer[textMap].n)
                 b == buffer[textMap]
      <4>2. a \in Int /\ b.x \in Int
        BY <1>4, <3>1, <3>3
      <4>3. penY > b.y \/ (penY = b.y /\ penX >= b.x + a)
        BY <4>1 DEF FollowedBy
      <4>4. FollowedBy(textMap, penX, penY)'
                <=> penY' > b.y \/ (penY' = b.y /\ penX' >= b.x + a)
        BY <1>2, <1>5, <3>3 DEF FollowedBy
      <4> HIDE DEF a, b
      <4> QED
        BY <1>4, <1>5, <3>3, <4>2, <4>3, <4>4
    <3> QED
      BY <1>5, <3>2, <3>3
  <2>3. \A k \in 2 .. textMap' : FollowedBy(k - 1, buffer[k].x, buffer[k].y)'
    <3> SUFFICES ASSUME NEW k \in 2 .. textMap'
                 PROVE  FollowedBy(k - 1, buffer[k].x, buffer[k].y)'
      OBVIOUS
    <3>1. k \in 2 .. textMap
      BY <1>3, <1>5
    <3>2. FollowedBy(k - 1, buffer[k].x, buffer[k].y)
      BY <1>3, <3>1
    <3> QED
      BY <1>2, <1>5, <3>2 DEF FollowedBy
  <2> QED
    BY <1>2, <1>5, <2>1, <2>2, <2>3 DEF FallingInv
<1>6. CASE Layout!Grow
  <2>1. /\ ~ Layout!Done /\ Layout!Size(textAt[1]) > lineHeight
        /\ lineHeight' = Layout!Size(textAt[1])
        /\ textAt' = <<line.i, line.j>> /\ textMap' = line.map /\ textFresh' = TRUE
        /\ penX' = penX /\ penY' = penY /\ line' = line /\ word' = word /\ buffer' = buffer
    BY <1>6 DEF Layout!Grow, Layout!GoTo
  <2>2. Layout!Size(textAt[1]) \in Nat
    BY <2>1, AtPlace
  <2>3. textAt = <<line.i, line.j>>
    BY <1>3, <1>4, <2>1, <2>2
  <2>4. textMap = line.map
    <3>1. textMap = Layout!GlyphsUpTo(textAt[1], textAt[2])
      BY <2>1, AtPlace
    <3>2. line.map = Layout!GlyphsUpTo(line.i, line.j)
      BY DEF CountsInv, Marked, Placed
    <3> QED
      BY <2>3, <3>1, <3>2
  <2>5. textMap' = textMap /\ textMap' \in 0 .. textMap
    BY <1>3, <2>1, <2>4
  <2>6. Layout!Size(textAt'[1]) <= lineHeight'
    BY <2>1, <2>2, <2>3
  <2>7. penX' >= penX /\ penX' \in Int /\ penY' \in Int /\ penY' = penY
    BY <1>4, <2>1
  <2>8. word'.map <= textMap'
    BY <1>3, <2>1, <2>5
  <2> QED
    BY <1>5, <2>1, <2>5, <2>6, <2>7, <2>8
<1>7. CASE Layout!Enter
  <2>1. UNCHANGED <<textAt, penX, penY, lineHeight, textMap, line, word, buffer>>
        /\ Layout!Size(textAt[1]) <= lineHeight
    BY <1>7 DEF Layout!Enter, Layout!layout
  <2>2. /\ textMap' \in 0 .. textMap /\ penX' >= penX /\ penX' \in Int /\ penY' \in Int
        /\ word'.map <= textMap'
    BY <1>3, <1>4, <2>1
  <2> QED
    BY <1>5, <2>1, <2>2
<1>8. ASSUME NEW c, Layout!Inside(c)
      PROVE  /\ ~ Layout!Done /\ Layout!Size(textAt[1]) <= lineHeight
             /\ textFresh = FALSE
             /\ Layout!NewLine(textAt[1]) =>
                    /\ penX' \in Int /\ penY' \in Int /\ penY' > penY
                    /\ Layout!Size(textAt[1]) <= lineHeight'
  <2>1. ~ Layout!Done /\ ~ textFresh /\ textFresh \in BOOLEAN
    BY <1>8 DEF Layout!Inside, CountsInv
  <2>2. Layout!Size(textAt[1]) \in Nat
    BY <2>1, AtPlace
  <2> QED
    BY <1>3, <2>1, <2>2, NewLineIs
<1>9. CASE Layout!Boundary
  <2>1. /\ textAt' = <<textAt[1], textAt[2] + 1>>
        /\ word' = [i |-> textAt[1], j |-> textAt[2] + 1, map |-> textMap, width |-> 0]
        /\ UNCHANGED <<textFresh, textMap, line, buffer>>
    BY <1>9 DEF Layout!Boundary, Layout!Next1, Layout!Marker
  <2>2. word'.map <= textMap' /\ textMap' \in 0 .. textMap /\ textMap' = textMap
    BY <1>3, <2>1
  <2>3. /\ penX' \in Int /\ penY' \in Int
        /\ \/ penY' > penY
           \/ penY' = penY /\ penX' >= penX
        /\ Layout!Size(textAt[1]) <= lineHeight'
    <3>1. CASE Layout!SpaceOver
      <4>1. Layout!Inside("space") /\ penX' = penX + text[textAt[1]].scale
            /\ penY' = penY /\ lineHeight' = lineHeight
        BY <3>1 DEF Layout!SpaceOver, Layout!Space
      <4>2. text[textAt[1]].scale \in Nat
        BY <1>8, <4>1, AtPlace
      <4>3. penX' \in Int /\ penY' \in Int /\ penX' >= penX
        BY <1>4, <4>1, <4>2
      <4>4. Layout!Size(textAt[1]) <= lineHeight
        BY <1>8, <4>1
      <4> QED
        BY <4>1, <4>3, <4>4
    <3>2. CASE Layout!Inside("return") /\ Layout!NewLine(textAt[1])
      BY <1>8, <3>2
    <3> QED
      BY <1>9, <3>1, <3>2 DEF Layout!Boundary, Layout!Return
  <2>4. Layout!Size(textAt'[1]) <= lineHeight'
    BY <2>1, <2>3
  <2> QED
    BY <1>5, <2>1, <2>2, <2>3, <2>4
<1>10. CASE Layout!Wrap
  <2>1. /\ Layout!Inside("letter") /\ Layout!NewLine(textAt[1])
        /\ textAt' = <<word.i, word.j>> /\ textMap' = word.map /\ textFresh' = TRUE
        /\ line' = word /\ word' = word /\ buffer' = buffer
    BY <1>10 DEF Layout!Wrap, Layout!Letter, Layout!GoTo
  <2>2. penX' \in Int /\ penY' \in Int /\ penY' > penY
    BY <1>8, <2>1
  <2>3. textMap' \in 0 .. textMap /\ word'.map <= textMap'
    BY <1>3, <2>1
  <2> QED
    BY <1>5, <2>1, <2>2, <2>3
<1>11. CASE Layout!Break
  <2>1. /\ Layout!Inside("letter") /\ Layout!NewLine(textAt[1])
        /\ line' = [i |-> textAt[1], j |-> textAt[2], map |-> textMap, width |-> 0]
        /\ word' = line' /\ UNCHANGED <<textAt, textFresh, textMap, buffer>>
    BY <1>11 DEF Layout!Break, Layout!Letter, Layout!Marker
  <2>2. penX' \in Int /\ penY' \in Int /\ penY' > penY
        /\ Layout!Size(textAt'[1]) <= lineHeight'
    BY <1>8, <2>1
  <2>3. textMap' \in 0 .. textMap /\ word'.map <= textMap'
    BY <1>3, <2>1
  <2> QED
    BY <1>5, <2>1, <2>2, <2>3
<1>12. CASE Layout!Leave
  <2>1. /\ ~ Layout!Done /\ ~ textFresh
        /\ textAt' = <<textAt[1] + 1, 1>> /\ textFresh' = TRUE
        /\ UNCHANGED <<penX, penY, lineHeight, textMap, line, word, buffer>>
    BY <1>12 DEF Layout!Leave, Layout!layout
  <2>2. ~ Layout!Done' => Layout!Size(textAt'[1]) <= lineHeight'
    <3> SUFFICES ASSUME ~ Layout!Done' PROVE Layout!Size(textAt'[1]) <= lineHeight'
      OBVIOUS
    <3>1. /\ text \in Texts /\ Len(text) \in Nat /\ textAt[1] \in 1 .. Len(text)
          /\ text[textAt[1]].scale \in Nat
      BY <2>1, AtPlace DEF CountsInv
    <3>2. textAt[1] + 1 \in 2 .. Len(text) /\ (textAt[1] + 1) - 1 = textAt[1]
      BY <1>0, <2>1, <3>1 DEF Layout!Done
    <3>3. text[textAt[1] + 1].scale \in Nat
      BY <3>1, <3>2, TextsAre
    <3>4. text[textAt[1] + 1].scale <= text[textAt[1]].scale
      BY <1>2, <3>2 DEF Layout!Falling
    <3>5. Layout!Size(textAt[1] + 1) <= Layout!Size(textAt[1])
      BY <3>1, <3>3, <3>4 DEF Layout!Size
    <3>6. Layout!Size(textAt[1]) <= lineHeight
      BY <1>3, <2>1
    <3>7. Layout!Size(textAt[1] + 1) \in Nat /\ Layout!Size(textAt[1]) \in Nat
      BY <3>1, <3>3 DEF Layout!Size
    <3> QED
      BY <1>4, <2>1, <3>5, <3>6, <3>7
  <2>3. /\ textMap' \in 0 .. textMap /\ penX' >= penX /\ penX' \in Int /\ penY' \in Int
        /\ word'.map <= textMap'
    BY <1>3, <1>4, <2>1
  <2> QED
    BY <1>5, <2>1, <2>2, <2>3
<1>13. CASE Layout!AddGlyph
  <2> DEFINE e == [x |-> penX, y |-> penY, n |-> textAt[1], j |-> textAt[2]]
             S == [x : Int, y : Int, n : Nat, j : Nat]
             a == Layout!Advance(textAt[1])
             b == buffer'
  <2>1. /\ Layout!Inside("letter")
        /\ b = Overwritten(buffer, textMap, e)
    BY <1>13 DEF Layout!AddGlyph, Layout!Letter, Overwritten
  <2>2. /\ textMap' = textMap + 1 /\ penX' = penX + a
        /\ word' = [word EXCEPT !.width = @ + a]
        /\ textAt' = <<textAt[1], textAt[2] + 1>>
        /\ UNCHANGED <<textFresh, penY, lineHeight, line>>
    BY <1>13 DEF Layout!AddGlyph, Layout!Next1
  <2>3. e \in S /\ a \in Nat
    <3>1. textAt \in Nat \X Nat
      BY DEF CountsInv
    <3> QED
      BY <1>4, <1>8, <2>1, <3>1, AtPlace
  <2>4. e.x = penX /\ e.y = penY /\ e.n = textAt[1]
    OBVIOUS
  <2>5. buffer \in Seq(S) /\ textMap \in 0 .. Len(buffer)
    BY DEF CountsInv
  <2> HIDE DEF e, S, a, b
  <2>6. /\ b[textMap + 1] = e
        /\ \A k \in 1 .. Len(b) : k # textMap + 1 => b[k] = buffer[k]
        /\ Len(b) = IF textMap = Len(buffer) THEN textMap + 1 ELSE Len(buffer)
    <3>1. Writes(Overwritten(buffer, textMap, e), S, buffer, textMap, e)
      BY <2>3, <2>5, PointWritten
    <3> QED
      BY <2>1, <3>1 DEF Writes
  <2>7. \A k \in 1 .. textMap : b[k] = buffer[k] /\ k \in 1 .. Len(buffer)
    <3>1. \A k \in 1 .. textMap : k \in 1 .. Len(b) /\ k # textMap + 1 /\ k \in 1 .. Len(buffer)
      <4>1. Len(b) = IF textMap = Len(buffer) THEN textMap + 1 ELSE Len(buffer)
        BY <2>6
      <4> QED
        BY <1>3, <1>4, <4>1
    <3> QED
      BY <2>6, <3>1
  <2>8. \A k \in 1 .. textMap' : b[k].y <= penY'
    <3> SUFFICES ASSUME NEW k \in 1 .. textMap' PROVE b[k].y <= penY'
      OBVIOUS
    <3>1. CASE k = textMap + 1
      BY <1>4, <2>2, <2>4, <2>6, <3>1
    <3>2. CASE k # textMap + 1
      <4>1. k \in 1 .. textMap
        BY <1>3, <2>2, <3>2
      <4> QED
        BY <1>3, <2>2, <2>7, <4>1
    <3> QED
      BY <3>1, <3>2
  <2>9. FollowedBy(textMap, penX, penY)'
    <3>1. b[textMap'] = e
      BY <2>2, <2>6
    <3>2. FollowedBy(textMap, penX, penY)' <=>
              \/ penY' > b[textMap'].y
              \/ penY' = b[textMap'].y
                 /\ penX' >= b[textMap'].x + Glyph * text[b[textMap'].n].scale
      BY <1>0 DEF FollowedBy, Layout!Advance, b
    <3>3. FollowedBy(textMap, penX, penY)' <=> penY' > e.y \/ (penY' = e.y /\ penX' >= e.x + a)
      BY <2>4, <3>1, <3>2 DEF a, Layout!Advance
    <3>4. penY' = e.y /\ penX' = e.x + a /\ e.x \in Int /\ a \in Nat
      BY <1>4, <2>2, <2>3, <2>4
    <3> QED
      BY <3>3, <3>4
  <2>10. \A k \in 2 .. textMap' : FollowedBy(k - 1, buffer[k].x, buffer[k].y)'
    <3> SUFFICES ASSUME NEW k \in 2 .. textMap'
                 PROVE  FollowedBy(k - 1, buffer[k].x, buffer[k].y)'
      OBVIOUS
    <3>0. k - 1 \in 1 .. textMap
      BY <1>3, <2>2
    <3>1. b[k - 1] = buffer[k - 1]
      BY <2>7, <3>0
    <3>2. FollowedBy(k - 1, buffer[k].x, buffer[k].y)' <=> FollowedBy(k - 1, b[k].x, b[k].y)
      BY <1>2, <3>1 DEF FollowedBy, b
    <3>3. CASE k = textMap + 1
      <4>1. k - 1 = textMap /\ textMap > 0 /\ b[k].x = penX /\ b[k].y = penY
        BY <1>3, <2>4, <2>6, <3>0, <3>3
      <4>2. FollowedBy(textMap, penX, penY)
        BY <1>3, <4>1
      <4> QED
        BY <3>2, <4>1, <4>2
    <3>4. CASE k # textMap + 1
      <4>1. k \in 2 .. textMap /\ k \in 1 .. textMap
        BY <1>3, <2>2, <3>4
      <4> QED
        BY <1>3, <2>7, <3>2, <4>1
    <3> QED
      BY <3>3, <3>4
  <2>11. word'.map <= textMap'
    <3>1. word'.map = word.map
      <4>1. word \in [i : Nat, j : Nat, map : Nat, width : Int]
        BY DEF CountsInv, Marked
      <4> QED
        BY <2>2, <4>1
    <3> QED
      BY <1>3, <2>2, <3>1
  <2>12. Layout!Size(textAt[1])' <= lineHeight'
    BY <1>2, <1>8, <2>1, <2>2
  <2> QED
    BY <2>8, <2>9, <2>10, <2>11, <2>12 DEF FallingInv, b
<1> QED
  BY <1>6, <1>7, <1>9, <1>10, <1>11, <1>12, <1>13 DEF Layout!LayoutNext

(* However many texts of any sizes are laid out in lines of any width,     *)
(* the place in the buffer is always that of the glyph, a finished layout  *)
(* has filled the buffer, and where texts do not grow its glyphs are in    *)
(* their order on the lines.                                               *)
THEOREM LayoutIsSound == LayoutSpec => []LayoutSound
<1>1. LayoutInv => LayoutSound
  <2> SUFFICES ASSUME LayoutInv PROVE LayoutSound
    OBVIOUS
  <2>1. ~ Layout!Done => textMap = Layout!GlyphsUpTo(textAt[1], textAt[2])
    BY DEF LayoutInv, CountsInv, Placed
  <2>2. Layout!Done => textMap = Len(buffer) /\ textMap = Layout!Counted(text)[Len(text)]
    <3>1. /\ textMap \in 0 .. Len(buffer) /\ Len(buffer) \in Nat
          /\ Len(buffer) <= Layout!Counted(text)[Len(text)]
      BY DEF LayoutInv, CountsInv
    <3> QED
      BY <3>1 DEF LayoutInv, CountsInv
  <2>3. ASSUME Layout!Falling, NEW k \in 1 .. textMap
        PROVE  /\ Layout!GlyphsUpTo(buffer[k].n, buffer[k].j) = k - 1
               /\ k > 1 => \/ buffer[k].y > buffer[k - 1].y
                           \/ /\ buffer[k].y = buffer[k - 1].y
                              /\ buffer[k].x >= buffer[k - 1].x
                                                + Layout!Advance(buffer[k - 1].n)
    <3>1. k \in 1 .. Len(buffer) /\ (k > 1 => k \in 2 .. textMap)
      <4>1. textMap \in 0 .. Len(buffer) /\ Len(buffer) \in Nat
        BY DEF LayoutInv, CountsInv
      <4> QED
        BY <4>1
    <3>2. k > 1 => FollowedBy(k - 1, buffer[k].x, buffer[k].y)
      BY <2>3, <3>1 DEF LayoutInv, FallingInv
    <3> QED
      BY <3>1, <3>2 DEF LayoutInv, CountsInv, Placed, FollowedBy
  <2> QED
    BY <2>1, <2>2, <2>3 DEF LayoutSound, Layout!GlyphsPlaced
<1>2. LayoutInv /\ [Layout!LayoutNext]_textVars => LayoutInv'
  BY CountsStay, FallingStays DEF LayoutInv
<1> QED
  BY <1>1, <1>2, LayoutBegins, PTL DEF LayoutSpec

(***************************************************************************)
(* The pyramid of an image.                                                *)
(***************************************************************************)

(* Half of a number, rounded up, of a number and of half of a power.       *)
LEMMA CeilingIs ==
  ASSUME NEW n \in Nat \ {0}
  PROVE  /\ Pyramid!Ceiling(n) \in Nat \ {0}
         /\ \A k \in Nat : k < Pyramid!Ceiling(n) => 2 * k < n
         /\ \A k \in Nat : n <= 2 * k => Pyramid!Ceiling(n) <= k
  BY DEF Pyramid!Ceiling

(* Powers doubles, and grows beyond any side.                              *)
LEMMA PowersDouble ==
  LET N == PagesWide + PagesHigh
  IN  /\ Pyramid!Powers \in [0 .. N -> Nat] /\ Pyramid!Powers[0] = 1
      /\ \A n \in 1 .. N : Pyramid!Powers[n] = 2 * Pyramid!Powers[n - 1]
      /\ \A n \in 0 .. N : Pyramid!Powers[n] > n
<1> DEFINE N == PagesWide + PagesHigh
           next == [n \in 1 .. N |-> [m \in Nat |-> 2 * m]]
           P == Pyramid!Powers
<1>1. N \in Nat
  BY UiAssumption DEF SizesAreNumbers
<1>2. next \in [1 .. N -> [Nat -> Nat]]
  OBVIOUS
<1>3. PICK f : Recurs(f, N, Nat, 1, next)
  <2> HIDE DEF next, N
  <2> QED
    BY <1>1, <1>2, Recursion, Zenon
<1>4. ASSUME NEW i \in 1 .. N
      PROVE  f[i] = 2 * f[i - 1]
  <2>1. i - 1 \in 0 .. N
    BY <1>1
  <2>2. f[i - 1] \in Nat
    BY <1>3, <2>1 DEF Recurs
  <2> QED
    BY <1>3, <2>2 DEF Recurs
<1>5. f = [i \in 0 .. N |-> IF i = 0 THEN 1 ELSE 2 * f[i - 1]]
  <2> HIDE DEF next, N
  <2> QED
    BY <1>1, <1>3, <1>4 DEF Recurs
<1>6. P = [i \in 0 .. N |-> IF i = 0 THEN 1 ELSE 2 * P[i - 1]]
  BY <1>5 DEF Pyramid!Powers
<1> HIDE DEF P, N
<1>7. P[0] = 1 /\ \A n \in 1 .. N : P[n] = 2 * P[n - 1]
  BY <1>1, <1>6
<1>8. \A n \in 0 .. N : P[n] \in Nat /\ P[n] > n
  <2> DEFINE S == {n \in 0 .. N : P[n] \in Nat /\ P[n] > n}
  <2>1. 0 \in S
    BY <1>1, <1>7
  <2>2. ASSUME NEW n \in 0 .. N - 1, n \in S
        PROVE  n + 1 \in S
    <3>1. n + 1 \in 1 .. N /\ (n + 1) - 1 = n
      BY <1>1
    <3>2. P[n + 1] = 2 * P[n] /\ P[n] \in Nat /\ P[n] > n
      BY <1>7, <2>2, <3>1
    <3> QED
      BY <1>1, <3>1, <3>2
  <2>3. 0 .. N \subseteq S
    <3> HIDE DEF S
    <3> QED
      BY <1>1, <2>1, <2>2, UpTo
  <2> QED
    BY <2>3
<1>9. P \in [0 .. N -> Nat]
  BY <1>6, <1>8
<1> QED
  BY <1>7, <1>8, <1>9 DEF P, N

(* There is a finest level, on which the image is at most two to its power *)
(* pages wide and high.                                                    *)
LEMMA LevelsExist ==
  /\ Pyramid!Levels \in 0 .. PagesWide + PagesHigh
  /\ Pyramid!Powers[Pyramid!Levels] >= PagesWide
  /\ Pyramid!Powers[Pyramid!Levels] >= PagesHigh
<1> DEFINE N == PagesWide + PagesHigh
           P == Pyramid!Powers
           Fits(n) == P[n] >= PagesWide /\ P[n] >= PagesHigh
           U == {n \in 1 .. N : Fits(n)}
<1>1. PagesWide \in Nat \ {0} /\ PagesHigh \in Nat \ {0} /\ N \in Nat \ {0}
  BY UiAssumption DEF SizesAreNumbers
<1>2. P \in [0 .. N -> Nat] /\ P[N] > N
  <2>1. N \in 0 .. N
    BY <1>1
  <2> QED
    BY <2>1, PowersDouble
<1> HIDE DEF P
<1>3. Fits(N) /\ N \in U
  BY <1>1, <1>2
<1>4. \E n \in 0 .. N : Fits(n) /\ \A m \in 0 .. n - 1 : ~ Fits(m)
  <2>1. CASE Fits(0)
    BY <1>1, <2>1
  <2>2. CASE ~ Fits(0)
    <3>1. PICK s \in U : \A r \in U : s <= r
      <4>1. U \in SUBSET (1 .. N) /\ U # {}
        BY <1>3
      <4> HIDE DEF U, N
      <4> QED
        BY <1>1, <4>1, LeastExists
    <3>2. ASSUME NEW m \in 0 .. s - 1
          PROVE  ~ Fits(m)
      <4>1. s \in 1 .. N
        OBVIOUS
      <4>2. CASE m = 0
        BY <2>2, <4>2
      <4>3. CASE m # 0
        <5>1. m \in 1 .. N /\ ~ s <= m
          BY <1>1, <4>1, <4>3
        <5> QED
          BY <3>1, <5>1
      <4> QED
        BY <4>2, <4>3
    <3> QED
      BY <1>1, <3>1, <3>2
  <2> QED
    BY <2>1, <2>2
<1>5. \E n \in 0 .. N : /\ P[n] >= PagesWide /\ P[n] >= PagesHigh
                        /\ \A m \in 0 .. n - 1 : P[m] < PagesWide \/ P[m] < PagesHigh
  <2>1. PICK n \in 0 .. N : Fits(n) /\ \A m \in 0 .. n - 1 : ~ Fits(m)
    BY <1>4
  <2>2. ASSUME NEW m \in 0 .. n - 1
        PROVE  P[m] < PagesWide \/ P[m] < PagesHigh
    <3>1. m \in 0 .. N
      BY <1>1
    <3>2. P[m] \in Nat
      BY <1>2, <3>1
    <3> QED
      BY <1>1, <2>1, <3>2
  <2> QED
    BY <2>1, <2>2
<1> QED
  BY <1>5 DEF Pyramid!Levels, P

(* The sides of the levels can be computed: each is half of the one below. *)
LEMMA SidesExist ==
  ASSUME NEW side \in Nat \ {0}
  PROVE  \E f : f = [level \in 0 .. Pyramid!Levels |->
                        IF level = Pyramid!Levels THEN side
                                                  ELSE Pyramid!Ceiling(f[level + 1])]
<1> DEFINE L == Pyramid!Levels
           V == Nat \ {0}
           next == [i \in 1 .. L |-> [n \in V |-> Pyramid!Ceiling(n)]]
<1>1. L \in Nat
  BY LevelsExist, UiAssumption DEF SizesAreNumbers
<1> HIDE DEF L
<1>2. PICK g : Recurs(g, L, V, side, next)
  <2>1. next \in [1 .. L -> [V -> V]]
    BY CeilingIs
  <2>2. side \in V
    OBVIOUS
  <2> HIDE DEF next, V
  <2> QED
    BY <1>1, <2>1, <2>2, Recursion
<1>3. /\ g \in [0 .. L -> V] /\ g[0] = side
      /\ \A i \in 1 .. L : g[i] = Pyramid!Ceiling(g[i - 1])
  <2>1. g \in [0 .. L -> V] /\ g[0] = side /\ \A i \in 1 .. L : g[i] = next[i][g[i - 1]]
    BY <1>2 DEF Recurs
  <2>2. ASSUME NEW i \in 1 .. L
        PROVE  g[i] = Pyramid!Ceiling(g[i - 1])
    <3>1. i - 1 \in 0 .. L
      BY <1>1
    <3>2. g[i - 1] \in V
      BY <2>1, <3>1
    <3> QED
      BY <2>1, <3>2
  <2> QED
    BY <2>1, <2>2
<1> DEFINE f == [level \in 0 .. L |-> g[L - level]]
<1>4. f = [level \in 0 .. L |-> IF level = L THEN side ELSE Pyramid!Ceiling(f[level + 1])]
  <2> DEFINE h == [level \in 0 .. L |-> IF level = L THEN side
                                                   ELSE Pyramid!Ceiling(f[level + 1])]
  <2>1. ASSUME NEW level \in 0 .. L
        PROVE  f[level] = h[level]
    <3>1. CASE level = L
      <4>1. L - level = 0
        BY <1>1, <3>1
      <4> QED
        BY <1>3, <3>1, <4>1
    <3>2. CASE level # L
      <4>1. L - level \in 1 .. L /\ level + 1 \in 0 .. L /\ (L - level) - 1 = L - (level + 1)
        BY <1>1, <3>2
      <4>2. f[level + 1] = g[L - (level + 1)] /\ f[level] = g[L - level]
        BY <4>1
      <4>3. g[L - level] = Pyramid!Ceiling(g[L - (level + 1)])
        BY <1>3, <4>1
      <4>4. h[level] = Pyramid!Ceiling(f[level + 1])
        BY <3>2
      <4> HIDE DEF f, h
      <4> QED
        BY <4>2, <4>3, <4>4
    <3> QED
      BY <3>1, <3>2
  <2> QED
    BY <2>1
<1> HIDE DEF f
<1> QED
  BY <1>4 DEF L

(* They end with one page.                                                 *)
LEMMA SidesHalve ==
  ASSUME NEW side \in Nat \ {0}, NEW F,
         side <= Pyramid!Powers[Pyramid!Levels],
         F = [level \in 0 .. Pyramid!Levels |->
                  IF level = Pyramid!Levels THEN side ELSE Pyramid!Ceiling(F[level + 1])]
  PROVE  /\ F \in [0 .. Pyramid!Levels -> Nat \ {0}] /\ F[0] = 1
         /\ \A level \in 1 .. Pyramid!Levels : F[level - 1] = Pyramid!Ceiling(F[level])
<1> DEFINE L == Pyramid!Levels
           P == Pyramid!Powers
           V == Nat \ {0}
<1>1. /\ L \in Nat /\ side <= P[L] /\ P[0] = 1
      /\ \A n \in 1 .. L : P[n] = 2 * P[n - 1]
      /\ \A n \in 0 .. L : P[n] \in Nat
  <2>1. PagesWide + PagesHigh \in Nat /\ L \in 0 .. PagesWide + PagesHigh
    BY LevelsExist, UiAssumption DEF SizesAreNumbers
  <2>2. 1 .. L \subseteq 1 .. PagesWide + PagesHigh /\ 0 .. L \subseteq 0 .. PagesWide + PagesHigh
    BY <2>1
  <2> HIDE DEF L
  <2>3. L \in Nat
    BY <2>1
  <2> QED
    BY <2>2, <2>3, PowersDouble DEF L
<1> HIDE DEF L, P
<1>5. F = [level \in 0 .. L |-> IF level = L THEN side ELSE Pyramid!Ceiling(F[level + 1])]
  BY DEF L
<1>6. /\ F[L] = side
      /\ \A level \in 1 .. L : F[level - 1] = Pyramid!Ceiling(F[level])
  <2>1. F[L] = side
    <3>1. L \in 0 .. L
      BY <1>1
    <3> QED
      BY <1>5, <3>1
  <2>2. ASSUME NEW level \in 1 .. L
        PROVE  F[level - 1] = Pyramid!Ceiling(F[level])
    <3>1. level - 1 \in 0 .. L /\ level - 1 # L /\ (level - 1) + 1 = level
      BY <1>1
    <3> QED
      BY <1>5, <3>1
  <2> QED
    BY <2>1, <2>2
<1>7. \A i \in 0 .. L : F[L - i] \in V /\ F[L - i] <= P[L - i]
  <2> DEFINE S == {i \in 0 .. L : F[L - i] \in V /\ F[L - i] <= P[L - i]}
  <2>1. 0 \in S
    BY <1>1, <1>6
  <2>2. ASSUME NEW i \in 0 .. L - 1, i \in S
        PROVE  i + 1 \in S
    <3> DEFINE m == L - i
    <3>1. m \in 1 .. L /\ L - (i + 1) = m - 1 /\ i + 1 \in 0 .. L /\ m - 1 \in 0 .. L
      BY <1>1
    <3>2. F[m] \in V /\ F[m] <= P[m]
      BY <2>2
    <3>3. F[m - 1] = Pyramid!Ceiling(F[m]) /\ P[m] = 2 * P[m - 1] /\ P[m - 1] \in Nat
      BY <1>1, <1>6, <3>1
    <3>4. F[m - 1] \in V /\ F[m - 1] <= P[m - 1]
      BY <3>2, <3>3, CeilingIs
    <3> HIDE DEF m
    <3> QED
      BY <3>1, <3>4
  <2>3. 0 .. L \subseteq S
    <3> HIDE DEF S
    <3> QED
      BY <1>1, <2>1, <2>2, UpTo
  <2> QED
    BY <2>3
<1>8. \A level \in 0 .. L : F[level] \in V /\ F[level] <= P[level]
  <2> SUFFICES ASSUME NEW level \in 0 .. L PROVE F[level] \in V /\ F[level] <= P[level]
    OBVIOUS
  <2>1. L - level \in 0 .. L /\ L - (L - level) = level
    BY <1>1
  <2> QED
    BY <1>7, <2>1
<1>9. F[0] = 1
  <2>1. 0 \in 0 .. L
    BY <1>1
  <2>2. F[0] \in V /\ F[0] <= P[0] /\ P[0] = 1
    BY <1>1, <1>8, <2>1
  <2> QED
    BY <2>2
<1>10. F \in [0 .. L -> V]
  BY <1>5, <1>8
<1> QED
  BY <1>6, <1>9, <1>10 DEF L

(* The sides of the levels of the image.                                   *)
LEMMA LevelsHalve ==
  /\ Pyramid!Levels \in Nat
  /\ Pyramid!Wide \in [0 .. Pyramid!Levels -> Nat \ {0}]
  /\ Pyramid!High \in [0 .. Pyramid!Levels -> Nat \ {0}]
  /\ Pyramid!Wide[0] = 1 /\ Pyramid!High[0] = 1
  /\ \A level \in 1 .. Pyramid!Levels :
         /\ Pyramid!Wide[level - 1] = Pyramid!Ceiling(Pyramid!Wide[level])
         /\ Pyramid!High[level - 1] = Pyramid!Ceiling(Pyramid!High[level])
<1>1. /\ PagesWide \in Nat \ {0} /\ PagesHigh \in Nat \ {0}
      /\ Pyramid!Levels \in Nat
      /\ PagesWide <= Pyramid!Powers[Pyramid!Levels]
      /\ PagesHigh <= Pyramid!Powers[Pyramid!Levels]
  <2>1. PagesWide \in Nat \ {0} /\ PagesHigh \in Nat \ {0}
    BY UiAssumption DEF SizesAreNumbers
  <2>2. Pyramid!Levels \in 0 .. PagesWide + PagesHigh
    BY LevelsExist
  <2>3. Pyramid!Powers[Pyramid!Levels] \in Nat
    BY <2>2, PowersDouble
  <2> QED
    BY <2>1, <2>2, <2>3, LevelsExist
<1>2. /\ Pyramid!Wide \in [0 .. Pyramid!Levels -> Nat \ {0}] /\ Pyramid!Wide[0] = 1
      /\ \A level \in 1 .. Pyramid!Levels :
             Pyramid!Wide[level - 1] = Pyramid!Ceiling(Pyramid!Wide[level])
  <2>1. Pyramid!Wide = [level \in 0 .. Pyramid!Levels |->
                         IF level = Pyramid!Levels THEN PagesWide
                                                   ELSE Pyramid!Ceiling(Pyramid!Wide[level + 1])]
    BY <1>1, SidesExist DEF Pyramid!Wide
  <2> QED
    BY <1>1, <2>1, SidesHalve
<1>3. /\ Pyramid!High \in [0 .. Pyramid!Levels -> Nat \ {0}] /\ Pyramid!High[0] = 1
      /\ \A level \in 1 .. Pyramid!Levels :
             Pyramid!High[level - 1] = Pyramid!Ceiling(Pyramid!High[level])
  <2>1. Pyramid!High = [level \in 0 .. Pyramid!Levels |->
                         IF level = Pyramid!Levels THEN PagesHigh
                                                   ELSE Pyramid!Ceiling(Pyramid!High[level + 1])]
    BY <1>1, SidesExist DEF Pyramid!High
  <2> QED
    BY <1>1, <2>1, SidesHalve
<1> QED
  BY <1>1, <1>2, <1>3

(* A page has its place on its level.                                      *)
LEMMA PagesAre ==
  /\ \A p \in Pyramid!AllPages :
         /\ p = <<p[1], p[2], p[3]>> /\ p[3] \in 0 .. Pyramid!Levels
         /\ p[1] \in 0 .. Pyramid!Wide[p[3]] - 1 /\ p[2] \in 0 .. Pyramid!High[p[3]] - 1
         /\ p[1] \in Nat /\ p[2] \in Nat /\ p[3] \in Nat
         /\ Pyramid!Wide[p[3]] \in Nat /\ Pyramid!High[p[3]] \in Nat
  /\ \A level \in 0 .. Pyramid!Levels :
         /\ Pyramid!Pages(level) \subseteq Pyramid!AllPages
         /\ \A x \in 0 .. Pyramid!Wide[level] - 1, y \in 0 .. Pyramid!High[level] - 1 :
                <<x, y, level>> \in Pyramid!AllPages
<1>1. ASSUME NEW p \in Pyramid!AllPages
      PROVE  /\ p = <<p[1], p[2], p[3]>> /\ p[3] \in 0 .. Pyramid!Levels
             /\ p[1] \in 0 .. Pyramid!Wide[p[3]] - 1 /\ p[2] \in 0 .. Pyramid!High[p[3]] - 1
             /\ p[1] \in Nat /\ p[2] \in Nat /\ p[3] \in Nat
             /\ Pyramid!Wide[p[3]] \in Nat /\ Pyramid!High[p[3]] \in Nat
  <2>1. PICK level \in 0 .. Pyramid!Levels : p \in Pyramid!Pages(level)
    BY DEF Pyramid!AllPages
  <2>2. PICK x \in 0 .. Pyramid!Wide[level] - 1, y \in 0 .. Pyramid!High[level] - 1 :
            p = <<x, y, level>>
    BY <2>1 DEF Pyramid!Pages
  <2>3. Pyramid!Wide[level] \in Nat /\ Pyramid!High[level] \in Nat /\ level \in Nat
    BY LevelsHalve
  <2> QED
    BY <2>2, <2>3
<1>2. ASSUME NEW level \in 0 .. Pyramid!Levels
      PROVE  /\ Pyramid!Pages(level) \subseteq Pyramid!AllPages
             /\ \A x \in 0 .. Pyramid!Wide[level] - 1, y \in 0 .. Pyramid!High[level] - 1 :
                    <<x, y, level>> \in Pyramid!AllPages
  BY DEF Pyramid!AllPages, Pyramid!Pages
<1> QED
  BY <1>1, <1>2

(***************************************************************************)
(* The units are given the rows in turn.                                   *)
(***************************************************************************)

(* What division leaves.                                                   *)
LEMMA Division ==
  ASSUME NEW n \in Nat, NEW k \in Nat \ {0}
  PROVE  \E q \in Nat : n = q * k + (n % k) /\ n % k \in 0 .. k - 1
<1> DEFINE q == n \div k
<1>1. q \in Nat /\ n = q * k + (n % k) /\ n % k \in 0 .. k - 1
  OBVIOUS
<1> HIDE DEF q
<1> QED
  BY <1>1

(* It is the only such rest.                                               *)
LEMMA ModIs ==
  ASSUME NEW n \in Nat, NEW k \in Nat \ {0}, NEW q \in Nat, NEW r \in 0 .. k - 1, n = q * k + r
  PROVE  n % k = r
  OBVIOUS

(* Of what is smaller it leaves everything.                                *)
LEMMA SmallMod ==
  ASSUME NEW k \in Nat \ {0}, NEW r \in 0 .. k - 1
  PROVE  r % k = r
  OBVIOUS

(* The rest of the next number.                                            *)
LEMMA NextMod ==
  ASSUME NEW n \in Nat, NEW k \in Nat \ {0}
  PROVE  ((n % k) + 1) % k = (n + 1) % k
<1>1. PICK q \in Nat : n = q * k + (n % k) /\ n % k \in 0 .. k - 1
  BY Division
<1>2. CASE (n % k) + 1 = k
  <2>1. n + 1 = (q + 1) * k + 0 /\ k = 1 * k + 0
    BY <1>1, <1>2
  <2>2. n + 1 \in Nat /\ k \in Nat /\ q + 1 \in Nat /\ 1 \in Nat /\ 0 \in 0 .. k - 1
    OBVIOUS
  <2>3. (n + 1) % k = 0
    BY ONLY <2>1, <2>2, k \in Nat \ {0}, ModIs, ZenonT(20)
  <2>4. k % k = 0
    BY ModIs
  <2> QED
    BY <1>2, <2>3, <2>4
<1>3. CASE (n % k) + 1 < k
  <2> DEFINE r == (n % k) + 1
  <2>1. n + 1 = q * k + r /\ r = 0 * k + r
    BY <1>1
  <2>2. r \in 0 .. k - 1 /\ r \in Nat /\ n + 1 \in Nat /\ 0 \in Nat
    BY <1>1, <1>3
  <2> HIDE DEF r
  <2>3. r % k = r
    BY <2>2, SmallMod
  <2>4. (n + 1) % k = r
    BY ONLY <2>1, <2>2, k \in Nat \ {0}, q \in Nat, ModIs, Zenon
  <2> QED
    BY <2>3, <2>4 DEF r
<1> QED
  BY <1>1, <1>2, <1>3

(* The rest does not change when a multiple is added.                      *)
LEMMA SameMod ==
  ASSUME NEW n \in Nat, NEW d \in Nat, NEW k \in Nat \ {0}, d % k = 0
  PROVE  (n + d) % k = n % k
<1>1. PICK q \in Nat : n = q * k + (n % k) /\ n % k \in 0 .. k - 1
  BY Division
<1>2. PICK p \in Nat : d = p * k + (d % k)
  BY Division
<1>3. (q + p) * k = q * k + p * k
  OBVIOUS
<1>4. d = p * k
  BY <1>2
<1>5. n + d = (q + p) * k + (n % k)
  <2> DEFINE a == q * k
             b == p * k
             r == n % k
  <2>1. a \in Nat /\ b \in Nat /\ r \in Nat /\ n = a + r /\ d = b
    BY <1>1, <1>4
  <2>2. (q + p) * k = a + b
    BY <1>3
  <2> HIDE DEF a, b, r
  <2>3. n + d = (a + b) + r
    BY <2>1
  <2> QED
    BY <2>2, <2>3 DEF r
<1>6. n + d \in Nat /\ q + p \in Nat
  OBVIOUS
<1> QED
  BY ONLY <1>1, <1>5, <1>6, k \in Nat \ {0}, ModIs, Zenon

(* The rows of a level that are sound.                                     *)
LEMMA SoundIs ==
  ASSUME NEW n \in Nat \ {0}
  PROVE  /\ \A level \in 0 .. Pyramid!Levels : \A row \in Pyramid!Sound(n)[level] :
                level < Pyramid!Levels =>
                    /\ Pyramid!OnTime(n, level, row)
                    /\ \A r \in 0 .. Pyramid!High[level + 1] - 1 :
                           r = 2 * row \/ r = 2 * row + 1 => r \in Pyramid!Sound(n)[level + 1]
         /\ n = 1 => \A level \in 0 .. Pyramid!Levels :
                         Pyramid!Sound(n)[level] = 0 .. Pyramid!High[level] - 1
<1> DEFINE L == Pyramid!Levels
           H(level) == 0 .. Pyramid!High[level] - 1
           V == SUBSET Nat
           Below(level, S) == {row \in H(level) : /\ Pyramid!OnTime(n, level, row)
                                                  /\ {2 * row, 2 * row + 1} \cap H(level + 1)
                                                         \subseteq S}
           next == [i \in 1 .. L |-> [S \in V |-> Below(L - i, S)]]
           Rows(f) == [level \in 0 .. L |-> IF level = L THEN H(level)
                                                         ELSE Below(level, f[level + 1])]
<1>1. L \in Nat /\ \A level \in 0 .. L : Pyramid!High[level] \in Nat /\ H(level) \in V
  BY LevelsHalve
<1>2. \E f : f = Rows(f)
  <2>1. next \in [1 .. L -> [V -> V]]
    BY <1>1
  <2>2. H(L) \in V
    BY <1>1
  <2>3. PICK g : Recurs(g, L, V, H(L), next)
    <3> HIDE DEF next, V, L, H
    <3> QED
      BY <1>1, <2>1, <2>2, Recursion
  <2>4. /\ g \in [0 .. L -> V] /\ g[0] = H(L)
        /\ \A i \in 1 .. L : g[i] = Below(L - i, g[i - 1])
    <3>1. g \in [0 .. L -> V] /\ g[0] = H(L) /\ \A i \in 1 .. L : g[i] = next[i][g[i - 1]]
      BY <2>3 DEF Recurs
    <3>2. ASSUME NEW i \in 1 .. L
          PROVE  g[i] = Below(L - i, g[i - 1])
      <4>1. i - 1 \in 0 .. L
        BY <1>1
      <4>2. g[i - 1] \in V
        BY <3>1, <4>1
      <4> HIDE DEF Below, V
      <4> QED
        BY <3>1, <4>2
    <3> QED
      BY <3>1, <3>2
  <2> DEFINE f == [level \in 0 .. L |-> g[L - level]]
  <2>5. ASSUME NEW level \in 0 .. L
        PROVE  f[level] = Rows(f)[level]
    <3>1. CASE level = L
      <4>1. L - level = 0
        BY <1>1, <3>1
      <4> HIDE DEF H, Below, L
      <4> QED
        BY <2>4, <3>1, <4>1
    <3>2. CASE level # L
      <4>1. /\ L - level \in 1 .. L /\ level + 1 \in 0 .. L
            /\ (L - level) - 1 = L - (level + 1) /\ L - (L - level) = level
        BY <1>1, <3>2
      <4>2. f[level + 1] = g[L - (level + 1)] /\ f[level] = g[L - level]
        BY <4>1
      <4>3. g[L - level] = Below(level, g[L - (level + 1)])
        <5> HIDE DEF Below, L
        <5> QED
          BY <2>4, <4>1
      <4>4. Rows(f)[level] = Below(level, f[level + 1])
        <5> HIDE DEF Below, H, f, L
        <5> QED
          BY <3>2
      <4> HIDE DEF f, Below, Rows
      <4> QED
        BY <4>2, <4>3, <4>4
    <3> QED
      BY <3>1, <3>2
  <2>6. f = Rows(f)
    <3>1. f = [level \in 0 .. L |-> f[level]]
      OBVIOUS
    <3>2. Rows(f) = [level \in 0 .. L |-> Rows(f)[level]]
      <4> HIDE DEF f, Below, H, L
      <4> QED
        OBVIOUS
    <3> HIDE DEF f, Rows, L
    <3> QED
      BY <2>5, <3>1, <3>2
  <2> HIDE DEF f, Rows
  <2> QED
    BY <2>6
<1> DEFINE s == Pyramid!Sound(n)
<1>3. s = Rows(s)
  BY <1>2 DEF Pyramid!Sound
<1> HIDE DEF s
<1>4. s[L] = H(L) /\ \A level \in 0 .. L : level # L => s[level] = Below(level, s[level + 1])
  <2>1. L \in 0 .. L
    BY <1>1
  <2> HIDE DEF Below, H, L
  <2> QED
    BY <1>3, <2>1
<1>5. ASSUME NEW level \in 0 .. L, NEW row \in s[level], level < L
      PROVE  /\ Pyramid!OnTime(n, level, row)
             /\ \A r \in H(level + 1) : r = 2 * row \/ r = 2 * row + 1 => r \in s[level + 1]
  <2>1. row \in Below(level, s[level + 1])
    <3>1. level # L
      BY <1>1, <1>5
    <3> HIDE DEF Below
    <3> QED
      BY <1>4, <3>1
  <2> HIDE DEF H
  <2> QED
    BY <2>1
<1>6. ASSUME n = 1
      PROVE  \A level \in 0 .. L : s[level] = H(level)
  <2> DEFINE S == {i \in 0 .. L : s[L - i] = H(L - i)}
  <2>1. 0 \in S
    BY <1>1, <1>4
  <2>2. ASSUME NEW i \in 0 .. L - 1, i \in S
        PROVE  i + 1 \in S
    <3> DEFINE level == L - (i + 1)
    <3>1. level \in 0 .. L /\ level # L /\ level + 1 = L - i /\ i + 1 \in 0 .. L
      BY <1>1
    <3>2. s[level] = Below(level, s[level + 1]) /\ s[level + 1] = H(level + 1)
      <4> HIDE DEF level, Below, H
      <4> QED
        BY <1>4, <2>2, <3>1
    <3>3. ASSUME NEW row \in H(level)
          PROVE  Pyramid!OnTime(n, level, row)
      <4> DEFINE m == Pyramid!High[level] - 1 - row
      <4>1. m \in Nat
        BY <1>1, <3>1
      <4>2. m % 1 = 0
        <5> HIDE DEF m
        <5> QED
          BY <4>1
      <4> QED
        BY <1>6, <4>2 DEF Pyramid!OnTime
    <3>4. Below(level, H(level + 1)) = H(level)
      <4> HIDE DEF level, H
      <4> QED
        BY <3>3
    <3> HIDE DEF level, H
    <3> QED
      BY <3>1, <3>2, <3>4 DEF level
  <2>3. 0 .. L \subseteq S
    <3> HIDE DEF S
    <3> QED
      BY <1>1, <2>1, <2>2, UpTo
  <2> SUFFICES ASSUME NEW level \in 0 .. L PROVE s[level] = H(level)
    OBVIOUS
  <2>4. L - level \in 0 .. L /\ L - (L - level) = level
    BY <1>1
  <2> HIDE DEF H
  <2> QED
    BY <2>3, <2>4
<1> QED
  BY <1>5, <1>6 DEF s

(***************************************************************************)
(* What the tasks of the pool are for: a row of a level is made of the     *)
(* next one, or it is encoded.                                             *)
(***************************************************************************)

Jobs == {j \in [kind : {"resample", "encode"}, level : 0 .. Pyramid!Levels, row : Nat] :
            /\ j.row < Pyramid!High[j.level]
            /\ j.kind = "resample" => j.level < Pyramid!Levels}

(* The task of a job of which the pages before page c are done.            *)
Work(j, c) ==
    IF j.kind = "resample"
    THEN [kind |-> "resample", level |-> j.level + 1, y |-> 2 * j.row, x |-> 2 * c]
    ELSE [kind |-> "encode", level |-> j.level, y |-> j.row, x |-> c]

Tasks == {Work(j, 0) : j \in Jobs}
Works == {Work(j, c) : j \in Jobs, c \in Nat}

(* The stages of make_tile: a level is made, or encoded, in each.          *)
Stage(j) == IF j.kind = "resample" THEN Pyramid!Levels - 1 - j.level
                                   ELSE 2 * Pyramid!Levels - j.level
Now == IF main.step = "done" THEN 2 * Pyramid!Levels + 1
       ELSE IF main.step \in {"resample", "syncResample"} THEN Pyramid!Levels - main.level
       ELSE 2 * Pyramid!Levels - main.level

(* The rows of this stage that were given to the pool.                     *)
Given == IF main.step = "syncResample" THEN Pyramid!High[main.level - 1]
         ELSE IF main.step = "syncEncode" THEN Pyramid!High[main.level]
         ELSE IF main.step = "resample" THEN main.y \div 2
         ELSE main.y

Units == 1 .. MaxUnits
Slot(n) == (n % units) + 1
Queued(u, j) == \E i \in 1 .. Len(tileQueue[u]) : tileQueue[u][i] = Work(j, 0)
Doing(u, j, c) == doing[u] = Work(j, c)
Has(u, j) == Queued(u, j) \/ \E c \in Nat : Doing(u, j, c)

(* A job is with the unit whose turn it was; one of an earlier stage is    *)
(* not one of those that are over in time.                                 *)
Fit(j, u, base) ==
    /\ Stage(j) <= Now
    /\ Stage(j) = Now => j.row < Given /\ u = Slot(base + j.row)
    /\ Stage(j) < Now => ~ Pyramid!OnTime(units, j.level, j.row)

(* The result that make_tile waits for is that of the last row, and its    *)
(* unit has nothing to do after it.                                        *)
LastIs(base) ==
    main.step \in {"syncResample", "syncEncode"} =>
        \E l \in Jobs :
            /\ Stage(l) = Now /\ l.row = Pyramid!High[l.level] - 1 /\ sync.task = Work(l, 0)
            /\ LET u == Slot(base + l.row)
                   q == tileQueue[u]
               IN  /\ q # <<>> => q[Len(q)] = Work(l, 0) /\ sync.state \in {"wait", "awaited"}
                   /\ q = <<>> /\ doing[u] # Pyramid!Idle =>
                          /\ \E c \in Nat : Doing(u, l, c)
                          /\ sync.state \in {"running", "awaited"}
                   /\ q = <<>> /\ doing[u] = Pyramid!Idle => sync.state \in {"done", "failed"}

(* The units took their turns from base on in this stage.                  *)
Turns(base) ==
    /\ index = Slot(base + Given)
    /\ \A u \in Units, j \in Jobs : Has(u, j) => Fit(j, u, base)
    /\ LastIs(base)

(* No unit has a job twice. *)
OnceEach ==
    \A u \in Units :
        /\ \A i, k \in 1 .. Len(tileQueue[u]) : tileQueue[u][i] = tileQueue[u][k] => i = k
        /\ \A j \in Jobs, c \in Nat : Doing(u, j, c) => ~ Queued(u, j)

(* A page is done when its job was given and no unit has it before it.     *)
Ahead(u, j, x) == Queued(u, j) \/ \E c \in 0 .. x : Doing(u, j, c)
Over(j, x) == \/ Stage(j) < Now
              \/ Stage(j) = Now /\ j.row < Given /\ \A u \in Units : ~ Ahead(u, j, x)

(* While levels are made, the pages of sound rows are right once they are  *)
(* made; while they are encoded, those that are over in time are right     *)
(* tiles once they are done, and right before.                             *)
RightMade(j, p, over) ==
    /\ Now < Pyramid!Levels /\ (IF j.kind = "resample" THEN over ELSE j.level = Pyramid!Levels)
    => raw[p] = "right"
RightTiled(j, p, over) ==
    Now >= Pyramid!Levels /\ j.kind = "encode" /\ Pyramid!OnTime(units, j.level, j.row)
    => IF over THEN tile[p] = "right" /\ raw[p] = "none" ELSE raw[p] = "right"

PagesInv ==
    \A j \in Jobs : \A x \in 0 .. Pyramid!Wide[j.level] - 1 :
        j.row \in Pyramid!Sound(units)[j.level] =>
            /\ RightMade(j, <<x, j.row, j.level>>, Over(j, x))
            /\ RightTiled(j, <<x, j.row, j.level>>, Over(j, x))

IsEven(n) == \E k \in Nat : n = 2 * k

TilesTyped ==
    /\ main \in [step : {"split", "resample", "syncResample", "encode", "syncEncode", "done"},
                 level : 0 .. Pyramid!Levels, y : Nat]
    /\ main.step = "split" => main.y = 0
    /\ main.step \in {"resample", "syncResample"} => main.level > 0
    /\ main.step = "resample" => main.y < Pyramid!High[main.level] /\ IsEven(main.y)
    /\ main.step = "encode" => main.y < Pyramid!High[main.level]
    /\ main.step = "done" => main.y = 0
    /\ index \in 1 .. units
    /\ tileQueue \in [Units -> Seq(Tasks)]
    /\ doing \in [Units -> Works \union {Pyramid!Idle}]
    /\ sync \in [task : Tasks \union {Pyramid!Idle},
                 state : {"wait", "awaited", "running", "done", "failed"}]
    /\ DOMAIN raw = Pyramid!AllPages /\ DOMAIN tile = Pyramid!AllPages

(* The invariant, as long as make_tile has not thrown: it has not begun,   *)
(* or it has, or is over.                                                  *)
AtRest ==
    /\ main.step = "split" /\ TilesTyped /\ index = 1
    /\ \A u \in Units : tileQueue[u] = <<>> /\ doing[u] = Pyramid!Idle

Busy(base) == main.step # "split" /\ TilesTyped /\ OnceEach /\ PagesInv /\ Turns(base)

TilesInv == /\ units \in 1 .. MaxUnits
            /\ main.step = "threw" \/ AtRest \/ \E base \in Nat : Busy(base)

(* A job, and the level it makes.                                          *)
LEMMA JobsAre ==
  ASSUME NEW j \in Jobs
  PROVE  /\ j.kind \in {"resample", "encode"} /\ j.level \in Nat /\ j.row \in Nat
         /\ j = [kind |-> j.kind, level |-> j.level, row |-> j.row]
         /\ Pyramid!Levels \in Nat /\ j.level <= Pyramid!Levels
         /\ j.level \in 0 .. Pyramid!Levels
         /\ Pyramid!High[j.level] \in Nat \ {0} /\ Pyramid!Wide[j.level] \in Nat \ {0}
         /\ j.row < Pyramid!High[j.level]
         /\ j.kind = "resample" =>
                /\ j.level < Pyramid!Levels /\ j.level + 1 \in 0 .. Pyramid!Levels
                /\ Pyramid!High[j.level + 1] \in Nat \ {0}
                /\ Pyramid!Wide[j.level + 1] \in Nat \ {0}
                /\ Pyramid!High[j.level] = Pyramid!Ceiling(Pyramid!High[j.level + 1])
                /\ Pyramid!Wide[j.level] = Pyramid!Ceiling(Pyramid!Wide[j.level + 1])
<1>1. /\ j \in [kind : {"resample", "encode"}, level : 0 .. Pyramid!Levels, row : Nat]
      /\ j.row < Pyramid!High[j.level]
      /\ j.kind = "resample" => j.level < Pyramid!Levels
  BY DEF Jobs
<1>2. Pyramid!Levels \in Nat
  BY LevelsHalve
<1>3. j.level \in 0 .. Pyramid!Levels /\ Pyramid!High[j.level] \in Nat \ {0}
      /\ Pyramid!Wide[j.level] \in Nat \ {0}
  BY <1>1, LevelsHalve
<1>4. ASSUME j.level < Pyramid!Levels
      PROVE  /\ j.level + 1 \in 0 .. Pyramid!Levels
             /\ Pyramid!High[j.level + 1] \in Nat \ {0}
             /\ Pyramid!Wide[j.level + 1] \in Nat \ {0}
             /\ Pyramid!High[j.level] = Pyramid!Ceiling(Pyramid!High[j.level + 1])
             /\ Pyramid!Wide[j.level] = Pyramid!Ceiling(Pyramid!Wide[j.level + 1])
  <2>1. j.level + 1 \in 1 .. Pyramid!Levels /\ (j.level + 1) - 1 = j.level
        /\ j.level + 1 \in 0 .. Pyramid!Levels
    BY <1>2, <1>3, <1>4
  <2>2. /\ Pyramid!High[(j.level + 1) - 1] = Pyramid!Ceiling(Pyramid!High[j.level + 1])
        /\ Pyramid!Wide[(j.level + 1) - 1] = Pyramid!Ceiling(Pyramid!Wide[j.level + 1])
    BY <2>1, LevelsHalve
  <2> QED
    BY <2>1, <2>2, LevelsHalve
<1> QED
  BY <1>1, <1>2, <1>3, <1>4

(* A task tells which job it is for and how far it is.                     *)
LEMMA WorkIs ==
  ASSUME NEW j \in Jobs, NEW k \in Jobs, NEW c \in Nat, NEW d \in Nat
  PROVE  /\ Work(j, c) = Work(k, d) => j = k /\ c = d
         /\ Work(j, c) # Pyramid!Idle
         /\ [Work(j, c) EXCEPT !.x = 0] = Work(j, 0)
         /\ Work(j, c).kind = j.kind
<1>1. ASSUME Work(j, c) = Work(k, d)
      PROVE  j = k /\ c = d
  <2>1. j.kind = k.kind /\ j.level = k.level /\ j.row = k.row /\ c = d
    BY <1>1, JobsAre DEF Work
  <2> QED
    BY <2>1, JobsAre
<1>2. Work(j, c).kind = j.kind /\ Pyramid!Idle.kind = "none"
  BY JobsAre DEF Work, Pyramid!Idle
<1>3. Work(j, c) # Pyramid!Idle
  BY <1>2, JobsAre
<1>4. [Work(j, c) EXCEPT !.x = 0] = Work(j, 0)
  BY JobsAre DEF Work
<1> QED
  BY <1>1, <1>2, <1>3, <1>4

(* The stages follow each other, one for each kind and level.              *)
LEMMA StagesAre ==
  ASSUME NEW j \in Jobs, NEW k \in Jobs
  PROVE  /\ Stage(j) \in Nat /\ Stage(j) <= 2 * Pyramid!Levels
         /\ Stage(j) < Pyramid!Levels <=> j.kind = "resample"
         /\ Stage(j) = Stage(k) => j.kind = k.kind /\ j.level = k.level
  BY JobsAre DEF Stage

(* Where make_tile is: how many rows it has given of which stage.          *)
LEMMA MainIs ==
  ASSUME TilesTyped
  PROVE  /\ Now \in Nat /\ Given \in Nat
         /\ main.step \in {"resample", "syncResample"} => Now < Pyramid!Levels
         /\ main.step \in {"encode", "syncEncode", "done"} => Now >= Pyramid!Levels
         /\ main.step = "done" => Now = 2 * Pyramid!Levels + 1 /\ Given = 0
         /\ main.step = "resample" => main.y = 2 * Given
<1>1. /\ main.level \in 0 .. Pyramid!Levels /\ main.y \in Nat /\ Pyramid!Levels \in Nat
      /\ main.step \in {"resample", "syncResample"} => main.level > 0
      /\ Pyramid!High[main.level] \in Nat
      /\ main.step = "done" => main.y = 0
      /\ main.step \in {"split", "resample", "syncResample", "encode", "syncEncode", "done"}
  BY LevelsHalve DEF TilesTyped
<1>2. main.level > 0 => Pyramid!High[main.level - 1] \in Nat
  <2>1. main.level > 0 => main.level - 1 \in 0 .. Pyramid!Levels
    BY <1>1
  <2> QED
    BY <2>1, LevelsHalve
<1>3. Now \in Nat /\ (main.step \in {"resample", "syncResample"} => Now < Pyramid!Levels)
      /\ (main.step \in {"encode", "syncEncode", "done"} => Now >= Pyramid!Levels)
      /\ (main.step = "done" => Now = 2 * Pyramid!Levels + 1)
  BY <1>1 DEF Now
<1>4. main.step = "resample" => main.y \div 2 \in Nat /\ main.y = 2 * (main.y \div 2)
  BY <1>1 DEF TilesTyped, IsEven
<1>5. Given \in Nat /\ (main.step = "done" => Given = 0)
      /\ (main.step = "resample" => main.y = 2 * Given)
  BY <1>1, <1>2, <1>4 DEF Given
<1> QED
  BY <1>3, <1>5

(* The units take turns, and rows that are multiples apart have one unit.  *)
LEMMA SlotsAre ==
  ASSUME units \in 1 .. MaxUnits, NEW n \in Nat
  PROVE  /\ Slot(n) \in 1 .. units /\ Slot(n) \in Units
         /\ Slot(n + 1) = (Slot(n) % units) + 1
         /\ n < units => Slot(n) = n + 1
         /\ \A d \in Nat : d % units = 0 => Slot(n + d) = Slot(n)
<1>1. units \in Nat \ {0} /\ MaxUnits \in Nat
  BY UiAssumption DEF SizesAreNumbers
<1>2. n % units \in 0 .. units - 1
  BY <1>1
<1>3. Slot(n) \in 1 .. units /\ Slot(n) \in Units
  BY <1>1, <1>2 DEF Slot, Units
<1>4. Slot(n + 1) = (Slot(n) % units) + 1
  BY <1>1, NextMod DEF Slot
<1>5. n < units => Slot(n) = n + 1
  BY <1>1, SmallMod DEF Slot
<1>6. \A d \in Nat : d % units = 0 => Slot(n + d) = Slot(n)
  BY <1>1, SameMod DEF Slot
<1> QED
  BY <1>3, <1>4, <1>5, <1>6

(* Who has what.                                                           *)
LEMMA UnitsAre ==
  ASSUME TilesTyped, NEW u \in Units
  PROVE  /\ tileQueue[u] \in Seq(Tasks) /\ Len(tileQueue[u]) \in Nat
         /\ \A i \in 1 .. Len(tileQueue[u]) : \E h \in Jobs : tileQueue[u][i] = Work(h, 0)
         /\ doing[u] = Pyramid!Idle \/ \E h \in Jobs, c \in Nat : doing[u] = Work(h, c)
         /\ u \in DOMAIN tileQueue /\ u \in DOMAIN doing
<1>1. tileQueue[u] \in Seq(Tasks) /\ doing[u] \in Works \union {Pyramid!Idle}
      /\ DOMAIN tileQueue = Units /\ DOMAIN doing = Units
  BY DEF TilesTyped
<1>2. \A i \in 1 .. Len(tileQueue[u]) : tileQueue[u][i] \in Tasks
  BY <1>1
<1> QED
  BY <1>1, <1>2 DEF Tasks, Works

(* Nothing is different where nothing has changed.                         *)
LEMMA NothingMoves ==
  ASSUME UNCHANGED <<units, main>>
  PROVE  /\ Now' = Now /\ Given' = Given
         /\ \A n \in Nat : Slot(n)' = Slot(n)
         /\ \A j \in Jobs, u \in Units, base \in Nat : Fit(j, u, base)' <=> Fit(j, u, base)
<1>1. Now' = Now /\ Given' = Given /\ \A n \in Nat : Slot(n)' = Slot(n)
  BY DEF Now, Given, Slot
<1>2. ASSUME NEW j \in Jobs, NEW u \in Units, NEW base \in Nat
      PROVE  Fit(j, u, base)' <=> Fit(j, u, base)
  <2>1. base + j.row \in Nat
    BY JobsAre
  <2> QED
    BY <1>1, <2>1 DEF Fit
<1> QED
  BY <1>1, <1>2

(* What a unit has after it has taken the next task.                       *)
LEMMA StartIs ==
  ASSUME TilesTyped, NEW u \in Units, Pyramid!Start(u)
  PROVE  \E h \in Jobs :
            /\ doing[u] = Pyramid!Idle /\ tileQueue[u] # <<>> /\ tileQueue[u][1] = Work(h, 0)
            /\ doing' = [doing EXCEPT ![u] = Work(h, 0)]
            /\ tileQueue' = [tileQueue EXCEPT ![u] = Tail(@)]
            /\ Pyramid!Became(Work(h, 0), "running")
            /\ UNCHANGED <<units, index, raw, tile, main>>
<1>1. /\ doing[u] = Pyramid!Idle /\ tileQueue[u] # <<>>
      /\ doing' = [doing EXCEPT ![u] = Head(tileQueue[u])]
      /\ tileQueue' = [tileQueue EXCEPT ![u] = Tail(@)]
      /\ Pyramid!Became(Head(tileQueue[u]), "running")
      /\ UNCHANGED <<units, index, raw, tile, main>>
  BY DEF Pyramid!Start, Pyramid!files
<1>2. tileQueue[u] \in Seq(Tasks)
  BY UnitsAre
<1>3. Head(tileQueue[u]) = tileQueue[u][1] /\ 1 \in 1 .. Len(tileQueue[u])
  BY <1>1, <1>2
<1>4. PICK h \in Jobs : tileQueue[u][1] = Work(h, 0)
  BY <1>3, UnitsAre
<1> QED
  BY <1>1, <1>3, <1>4

(* A queue without its first task.                                         *)
LEMMA QueueTaken ==
  ASSUME TilesTyped, NEW u \in Units, tileQueue[u] # <<>>,
         tileQueue' = [tileQueue EXCEPT ![u] = Tail(@)]
  PROVE  /\ tileQueue' \in [Units -> Seq(Tasks)]
         /\ Len(tileQueue'[u]) = Len(tileQueue[u]) - 1 /\ Len(tileQueue[u]) \in Nat \ {0}
         /\ \A i \in 1 .. Len(tileQueue'[u]) : /\ tileQueue'[u][i] = tileQueue[u][i + 1]
                                               /\ i + 1 \in 1 .. Len(tileQueue[u])
         /\ tileQueue'[u] = <<>> <=> Len(tileQueue[u]) = 1
         /\ \A v \in Units : v # u => tileQueue'[v] = tileQueue[v]
         /\ \A j \in Jobs : Queued(u, j) <=> tileQueue[u][1] = Work(j, 0) \/ Queued(u, j)'
         /\ \A v \in Units, j \in Jobs : v # u => (Queued(v, j)' <=> Queued(v, j))
<1> DEFINE q == tileQueue[u]
<1>1. q \in Seq(Tasks) /\ q # <<>> /\ tileQueue \in [Units -> Seq(Tasks)]
  BY UnitsAre DEF TilesTyped
<1>2. tileQueue'[u] = Tail(q) /\ \A v \in Units : v # u => tileQueue'[v] = tileQueue[v]
  BY <1>1
<1>3. /\ Tail(q) \in Seq(Tasks) /\ Len(Tail(q)) = Len(q) - 1 /\ Len(q) \in Nat \ {0}
      /\ \A i \in 1 .. Len(Tail(q)) : Tail(q)[i] = q[i + 1]
      /\ Tail(q) = <<>> <=> Len(q) = 1
  <2> HIDE DEF q
  <2>1. /\ Tail(q) \in Seq(Tasks) /\ Len(Tail(q)) = Len(q) - 1 /\ Len(q) \in Nat \ {0}
        /\ \A i \in 1 .. Len(Tail(q)) : Tail(q)[i] = q[i + 1]
    BY <1>1
  <2>2. Tail(q) = <<>> <=> Len(Tail(q)) = 0
    BY <2>1, EmptySeq, Zenon
  <2> QED
    BY <2>1, <2>2
<1>4. tileQueue' \in [Units -> Seq(Tasks)]
  BY <1>1, <1>3
<1>5. \A i \in 1 .. Len(Tail(q)) : i + 1 \in 1 .. Len(q)
  <2> HIDE DEF q
  <2> QED
    BY <1>3
<1>6. ASSUME NEW j \in Jobs
      PROVE  Queued(u, j) <=> q[1] = Work(j, 0) \/ Queued(u, j)'
  <2>1. Queued(u, j)' <=> \E i \in 1 .. Len(Tail(q)) : q[i + 1] = Work(j, 0)
    <3>1. Queued(u, j)' <=> \E i \in 1 .. Len(tileQueue'[u]) : tileQueue'[u][i] = Work(j, 0)
      BY DEF Queued
    <3>2. Queued(u, j)' <=> \E i \in 1 .. Len(Tail(q)) : Tail(q)[i] = Work(j, 0)
      BY <1>2, <3>1, Zenon
    <3> HIDE DEF q
    <3> QED
      BY <1>3, <3>2, Zenon
  <2>2. Queued(u, j) <=> \E i \in 1 .. Len(q) : q[i] = Work(j, 0)
    BY DEF Queued
  <2>3. ASSUME NEW i \in 1 .. Len(q), q[i] = Work(j, 0), i # 1
        PROVE  i - 1 \in 1 .. Len(Tail(q)) /\ q[(i - 1) + 1] = Work(j, 0)
    <3> HIDE DEF q
    <3>1. i - 1 \in 1 .. Len(Tail(q)) /\ (i - 1) + 1 = i
      BY <1>3, <2>3
    <3> QED
      BY <2>3, <3>1
  <2>4. 1 \in 1 .. Len(q)
    <3> HIDE DEF q
    <3> QED
      BY <1>3
  <2> HIDE DEF q
  <2> QED
    BY <1>5, <2>1, <2>2, <2>3, <2>4
<1>7. \A v \in Units, j \in Jobs : v # u => (Queued(v, j)' <=> Queued(v, j))
  BY <1>2 DEF Queued
<1> QED
  BY <1>2, <1>3, <1>4, <1>5, <1>6, <1>7

(* A unit has what it has begun, nobody's jobs are others than before, and *)
(* no page is further than before.                                         *)
LEMMA StartMoves ==
  ASSUME TilesTyped, NEW u \in Units, NEW h \in Jobs,
         doing[u] = Pyramid!Idle, tileQueue[u] # <<>>, tileQueue[u][1] = Work(h, 0),
         doing' = [doing EXCEPT ![u] = Work(h, 0)],
         tileQueue' = [tileQueue EXCEPT ![u] = Tail(@)]
  PROVE  /\ doing' \in [Units -> Works \union {Pyramid!Idle}]
         /\ \A v \in Units, j \in Jobs : Has(v, j)' <=> Has(v, j)
         /\ \A v \in Units, j \in Jobs : \A x \in Nat : Ahead(v, j, x)' <=> Ahead(v, j, x)
         /\ \A v \in Units, j \in Jobs, c \in Nat :
                /\ v # u => (Doing(v, j, c)' <=> Doing(v, j, c))
                /\ Doing(u, j, c)' <=> j = h /\ c = 0
                /\ ~ Doing(u, j, c)
<1>1. doing \in [Units -> Works \union {Pyramid!Idle}] /\ Work(h, 0) \in Works
  <2>1. Work(h, 0) \in Works
    BY DEF Works
  <2> QED
    BY <2>1 DEF TilesTyped
<1>2. doing'[u] = Work(h, 0) /\ \A v \in Units : v # u => doing'[v] = doing[v]
  BY <1>1
<1>3. doing' \in [Units -> Works \union {Pyramid!Idle}]
  BY <1>1
<1>4. \A v \in Units, j \in Jobs, c \in Nat : v # u => (Doing(v, j, c)' <=> Doing(v, j, c))
  BY <1>2 DEF Doing
<1>5. \A j \in Jobs, c \in Nat : (Doing(u, j, c)' <=> j = h /\ c = 0) /\ ~ Doing(u, j, c)
  BY <1>2, WorkIs DEF Doing
<1>6. \A j \in Jobs : Queued(u, j) <=> j = h \/ Queued(u, j)'
  <2>1. \A j \in Jobs : tileQueue[u][1] = Work(j, 0) <=> j = h
    BY WorkIs
  <2> QED
    BY <2>1, QueueTaken
<1>7. \A v \in Units, j \in Jobs : v # u => (Queued(v, j)' <=> Queued(v, j))
  BY QueueTaken
<1>8. ASSUME NEW v \in Units, NEW j \in Jobs
      PROVE  Has(v, j)' <=> Has(v, j)
  <2>1. CASE v = u
    BY <1>5, <1>6, <2>1 DEF Has
  <2>2. CASE v # u
    BY <1>4, <1>7, <2>2 DEF Has
  <2> QED
    BY <2>1, <2>2
<1>9. ASSUME NEW v \in Units, NEW j \in Jobs, NEW x \in Nat
      PROVE  Ahead(v, j, x)' <=> Ahead(v, j, x)
  <2>1. 0 \in 0 .. x /\ 0 .. x \subseteq Nat
    OBVIOUS
  <2>2. CASE v = u
    BY <1>5, <1>6, <2>1, <2>2 DEF Ahead
  <2>3. CASE v # u
    BY <1>4, <1>7, <2>1, <2>3 DEF Ahead
  <2> QED
    BY <2>2, <2>3
<1> QED
  BY <1>3, <1>4, <1>5, <1>8, <1>9

(* What a unit has after a page, or when the row has ended.                *)
LEMMA WorkMoves ==
  ASSUME TilesTyped, NEW u \in Units, NEW h \in Jobs, NEW c \in Nat, NEW d,
         doing[u] = Work(h, c), d \in {Pyramid!Idle, Work(h, c + 1)},
         doing' = [doing EXCEPT ![u] = d], tileQueue' = tileQueue
  PROVE  /\ doing' \in [Units -> Works \union {Pyramid!Idle}] /\ doing'[u] = d
         /\ \A v \in Units, j \in Jobs : /\ Queued(v, j)' <=> Queued(v, j)
                                         /\ Has(v, j)' => Has(v, j)
<1>1. /\ doing \in [Units -> Works \union {Pyramid!Idle}] /\ c + 1 \in Nat
      /\ Work(h, c + 1) \in Works
  <2>1. c + 1 \in Nat
    OBVIOUS
  <2>2. Work(h, c + 1) \in Works
    BY <2>1 DEF Works
  <2> QED
    BY <2>1, <2>2 DEF TilesTyped
<1>2. doing'[u] = d /\ \A v \in Units : v # u => doing'[v] = doing[v]
  BY <1>1
<1>3. doing' \in [Units -> Works \union {Pyramid!Idle}]
  BY <1>1
<1>4. \A v \in Units, j \in Jobs : Queued(v, j)' <=> Queued(v, j)
  BY DEF Queued
<1>5. ASSUME NEW v \in Units, NEW j \in Jobs, Has(v, j)'
      PROVE  Has(v, j)
  <2>1. CASE v = u
    <3>1. Doing(u, h, c) /\ \A b \in Nat : Doing(u, j, b)' => j = h
      BY <1>1, <1>2, WorkIs DEF Doing
    <3> QED
      BY <1>4, <1>5, <2>1, <3>1 DEF Has
  <2>2. CASE v # u
    BY <1>2, <1>4, <1>5, <2>2 DEF Has, Doing
  <2> QED
    BY <2>1, <2>2
<1> QED
  BY <1>2, <1>3, <1>4, <1>5

(* What the result that is waited for becomes.                             *)
LEMMA BecameIs ==
  ASSUME TilesTyped, NEW h \in Jobs, NEW c \in Nat, NEW state \in {"running", "done", "failed"},
         Pyramid!Became(Work(h, c), state)
  PROVE  /\ sync' \in [task : Tasks \union {Pyramid!Idle},
                       state : {"wait", "awaited", "running", "done", "failed"}]
         /\ sync'.task = sync.task
         /\ sync.task # Work(h, 0) => sync' = sync
         /\ sync.task = Work(h, 0) => IF state = "running" /\ sync.state = "awaited"
                                      THEN sync' = sync ELSE sync'.state = state
<1>1. sync \in [task : Tasks \union {Pyramid!Idle},
                state : {"wait", "awaited", "running", "done", "failed"}]
  BY DEF TilesTyped
<1>2. [Work(h, c) EXCEPT !.x = 0] = Work(h, 0)
  BY WorkIs
<1>3. sync' = IF Work(h, 0) # sync.task THEN sync
              ELSE IF state = "running" /\ sync.state = "awaited" THEN sync
              ELSE [sync EXCEPT !.state = state]
  BY <1>2 DEF Pyramid!Became
<1> QED
  BY <1>1, <1>3

LEMMA TypedStays ==
  ASSUME TilesTyped, UNCHANGED <<units, index, main>>,
         tileQueue' \in [Units -> Seq(Tasks)],
         doing' \in [Units -> Works \union {Pyramid!Idle}],
         sync' \in [task : Tasks \union {Pyramid!Idle},
                    state : {"wait", "awaited", "running", "done", "failed"}],
         DOMAIN raw' = DOMAIN raw, DOMAIN tile' = DOMAIN tile
  PROVE  TilesTyped'
  BY DEF TilesTyped

(* A unit that is not that of the last row has another row.                *)
LEMMA NotLast ==
  ASSUME units \in 1 .. MaxUnits, TilesTyped, NEW base \in Nat, Turns(base),
         NEW l \in Jobs, Stage(l) = Now, NEW u \in Units, u # Slot(base + l.row),
         NEW h \in Jobs, Has(u, h)
  PROVE  Work(h, 0) # Work(l, 0)
<1>1. Fit(h, u, base)
  BY DEF Turns
<1>2. h # l
  BY <1>1 DEF Fit
<1> QED
  BY <1>2, WorkIs

(* The last row's result is as the unit leaves it: it takes a task, ...    *)
LEMMA LastStarts ==
  ASSUME units \in 1 .. MaxUnits, TilesTyped, OnceEach, NEW base \in Nat, Turns(base),
         NEW u \in Units, NEW h \in Jobs,
         doing[u] = Pyramid!Idle, tileQueue[u] # <<>>, tileQueue[u][1] = Work(h, 0),
         doing' = [doing EXCEPT ![u] = Work(h, 0)],
         tileQueue' = [tileQueue EXCEPT ![u] = Tail(@)],
         Pyramid!Became(Work(h, 0), "running"),
         UNCHANGED <<units, index, main>>
  PROVE  LastIs(base)'
<1> SUFFICES ASSUME main.step \in {"syncResample", "syncEncode"}
             PROVE  LastIs(base)'
  BY DEF LastIs
<1>1. LastIs(base)
  BY DEF Turns
<1>2. PICK l \in Jobs :
          /\ Stage(l) = Now /\ l.row = Pyramid!High[l.level] - 1 /\ sync.task = Work(l, 0)
          /\ LET v == Slot(base + l.row)
                 q == tileQueue[v]
             IN  /\ q # <<>> => q[Len(q)] = Work(l, 0) /\ sync.state \in {"wait", "awaited"}
                 /\ q = <<>> /\ doing[v] # Pyramid!Idle =>
                        (\E c \in Nat : Doing(v, l, c)) /\ sync.state \in {"running", "awaited"}
                 /\ q = <<>> /\ doing[v] = Pyramid!Idle => sync.state \in {"done", "failed"}
  BY <1>1 DEF LastIs
<1> DEFINE v == Slot(base + l.row)
           q == tileQueue[v]
<1>3. base + l.row \in Nat /\ v \in Units
  <2>1. base + l.row \in Nat
    BY JobsAre
  <2> QED
    BY <2>1, SlotsAre
<1>4. v' = v /\ Now' = Now
  <2> HIDE DEF v
  <2> QED
    BY <1>3, NothingMoves DEF v
<1>5. /\ sync'.task = sync.task
      /\ sync.task # Work(h, 0) => sync' = sync
      /\ sync.task = Work(h, 0) => IF sync.state = "awaited" THEN sync' = sync
                                   ELSE sync'.state = "running"
  BY BecameIs
<1>6. CASE u # v
  <2>1. Has(u, h)
    <3>1. 1 \in 1 .. Len(tileQueue[u])
      BY QueueTaken
    <3> QED
      BY <3>1 DEF Has, Queued
  <2>2. sync' = sync
    BY <1>2, <1>5, <1>6, <2>1, NotLast
  <2>3. tileQueue'[v] = tileQueue[v] /\ doing'[v] = doing[v]
    BY <1>3, <1>6, QueueTaken, UnitsAre
  <2> HIDE DEF v
  <2> QED
    BY <1>2, <1>4, <2>2, <2>3 DEF LastIs, Doing, v
<1>7. CASE u = v
  <2> HIDE DEF v
  <2>1. /\ q # <<>> /\ q[Len(q)] = Work(l, 0) /\ sync.state \in {"wait", "awaited"}
        /\ q[1] = Work(h, 0) /\ doing'[v] = Work(h, 0)
    BY <1>2, <1>3, <1>7, UnitsAre DEF v
  <2>2. /\ Len(tileQueue'[v]) = Len(q) - 1 /\ Len(q) \in Nat \ {0}
        /\ \A i \in 1 .. Len(tileQueue'[v]) : tileQueue'[v][i] = q[i + 1]
        /\ tileQueue'[v] = <<>> <=> Len(q) = 1
    BY <1>3, <1>7, <2>1, QueueTaken
  <2>3. CASE Len(q) = 1
    <3>1. Work(h, 0) = Work(l, 0) /\ h = l
      BY <2>1, <2>3, WorkIs
    <3>2. sync'.state \in {"running", "awaited"}
      BY <1>2, <1>5, <2>1, <3>1
    <3>3. Doing(v, l, 0)' /\ doing'[v] # Pyramid!Idle
      <4>1. Work(h, 0) # Pyramid!Idle
        BY WorkIs
      <4> QED
        BY <1>4, <2>1, <3>1, <4>1 DEF Doing
    <3> QED
      BY <1>2, <1>4, <1>5, <2>2, <2>3, <3>2, <3>3 DEF LastIs, v
  <2>4. CASE Len(q) # 1
    <3>1. 1 \in 1 .. Len(q) /\ Len(q) \in 1 .. Len(q) /\ Len(q) - 1 \in 1 .. Len(tileQueue'[v])
          /\ (Len(q) - 1) + 1 = Len(q)
      BY <2>2, <2>4
    <3>2. q[1] # q[Len(q)]
      BY <1>3, <2>4, <3>1 DEF OnceEach
    <3>3. sync' = sync
      BY <1>2, <1>5, <2>1, <3>2
    <3>4. tileQueue'[v] # <<>> /\ tileQueue'[v][Len(tileQueue'[v])] = Work(l, 0)
      BY <2>1, <2>2, <2>4, <3>1
    <3> QED
      BY <1>2, <1>4, <2>1, <3>3, <3>4 DEF LastIs, v
  <2> QED
    BY <2>3, <2>4
<1> QED
  BY <1>6, <1>7

(* ... goes on to the next page, or ends it.                               *)
LEMMA LastGoes ==
  ASSUME units \in 1 .. MaxUnits, TilesTyped, OnceEach, NEW base \in Nat, Turns(base),
         NEW u \in Units, NEW h \in Jobs, NEW c \in Nat, NEW d, doing[u] = Work(h, c),
         \/ d = Work(h, c + 1) /\ sync' = sync
         \/ d = Pyramid!Idle /\ \E state \in {"done", "failed"} : Pyramid!Became(Work(h, c), state),
         doing' = [doing EXCEPT ![u] = d], tileQueue' = tileQueue,
         UNCHANGED <<units, index, main>>
  PROVE  LastIs(base)'
<1> SUFFICES ASSUME main.step \in {"syncResample", "syncEncode"}
             PROVE  LastIs(base)'
  BY DEF LastIs
<1>1. LastIs(base)
  BY DEF Turns
<1>2. PICK l \in Jobs :
          /\ Stage(l) = Now /\ l.row = Pyramid!High[l.level] - 1 /\ sync.task = Work(l, 0)
          /\ LET v == Slot(base + l.row)
                 q == tileQueue[v]
             IN  /\ q # <<>> => q[Len(q)] = Work(l, 0) /\ sync.state \in {"wait", "awaited"}
                 /\ q = <<>> /\ doing[v] # Pyramid!Idle =>
                        (\E b \in Nat : Doing(v, l, b)) /\ sync.state \in {"running", "awaited"}
                 /\ q = <<>> /\ doing[v] = Pyramid!Idle => sync.state \in {"done", "failed"}
  BY <1>1 DEF LastIs
<1> DEFINE v == Slot(base + l.row)
           q == tileQueue[v]
<1>3. base + l.row \in Nat /\ v \in Units
  <2>1. base + l.row \in Nat
    BY JobsAre
  <2> QED
    BY <2>1, SlotsAre
<1>4. v' = v /\ Now' = Now
  <2> HIDE DEF v
  <2> QED
    BY <1>3, NothingMoves DEF v
<1>5. d = Pyramid!Idle => /\ sync'.task = sync.task
                          /\ sync.task # Work(h, 0) => sync' = sync
                          /\ sync.task = Work(h, 0) => sync'.state \in {"done", "failed"}
  <2>1. ASSUME NEW state \in {"done", "failed"}, Pyramid!Became(Work(h, c), state)
        PROVE  /\ sync'.task = sync.task
               /\ sync.task # Work(h, 0) => sync' = sync
               /\ sync.task = Work(h, 0) => sync'.state \in {"done", "failed"}
    BY <2>1, BecameIs
  <2>2. d = Pyramid!Idle => d # Work(h, c + 1)
    BY WorkIs
  <2> QED
    BY <2>1, <2>2
<1>6. d # Pyramid!Idle => d = Work(h, c + 1) /\ sync' = sync /\ c + 1 \in Nat
  OBVIOUS
<1>7. Has(u, h) /\ doing[u] # Pyramid!Idle /\ Doing(u, h, c) /\ u \in DOMAIN doing
  BY WorkIs, UnitsAre DEF Has, Doing
<1>8. CASE u # v
  <2>1. sync' = sync
    BY <1>2, <1>5, <1>6, <1>7, <1>8, NotLast
  <2>2. doing'[v] = doing[v]
    BY <1>3, <1>8, UnitsAre
  <2> HIDE DEF v
  <2> QED
    BY <1>2, <1>4, <2>1, <2>2 DEF LastIs, Doing, v
<1>9. CASE u = v
  <2> HIDE DEF v
  <2>1. doing'[v] = d
    BY <1>7, <1>9
  <2>2. CASE q # <<>>
    <3>1. sync.task # Work(h, 0)
      <4>1. Len(q) \in 1 .. Len(q)
        <5>1. q \in Seq(Tasks)
          BY <1>3, UnitsAre
        <5>2. Len(q) \in Nat \ {0}
          BY <2>2, <5>1, EmptySeq
        <5> QED
          BY <5>2
      <4>2. Queued(v, l)
        BY <1>2, <2>2, <4>1 DEF Queued, v
      <4>3. ~ Queued(v, h)
        BY <1>3, <1>7, <1>9 DEF OnceEach
      <4>4. h # l
        BY <4>2, <4>3
      <4> QED
        BY <1>2, <4>4, WorkIs
    <3>2. sync' = sync
      BY <1>5, <1>6, <3>1
    <3> QED
      BY <1>2, <1>4, <2>2, <3>2 DEF LastIs, v
  <2>3. CASE q = <<>>
    <3>1. PICK b \in Nat : Doing(v, l, b)
      BY <1>2, <1>7, <1>9, <2>3 DEF v
    <3>2. h = l /\ sync.task = Work(h, 0)
      <4>1. Work(h, c) = Work(l, b)
        BY <1>7, <1>9, <3>1 DEF Doing
      <4>2. h = l
        BY <4>1, WorkIs
      <4> QED
        BY <1>2, <4>2
    <3>3. sync.state \in {"running", "awaited"}
      BY <1>2, <1>7, <1>9, <2>3 DEF v
    <3>4. CASE d = Pyramid!Idle
      BY <1>2, <1>4, <1>5, <2>1, <2>3, <3>2, <3>4 DEF LastIs, v
    <3>5. CASE d # Pyramid!Idle
      <4>1. Doing(v, l, c + 1)'
        BY <1>4, <1>6, <2>1, <3>2, <3>5 DEF Doing
      <4> QED
        BY <1>2, <1>4, <1>6, <2>1, <2>3, <3>3, <3>5, <4>1 DEF LastIs, v
    <3> QED
      BY <3>4, <3>5
  <2> QED
    BY <2>2, <2>3
<1> QED
  BY <1>8, <1>9

(* The turns are as before, when nobody has anything new.                  *)
LEMMA TurnsStay ==
  ASSUME NEW base \in Nat, Turns(base), LastIs(base)', TilesTyped,
         UNCHANGED <<units, index, main>>,
         \A u \in Units, j \in Jobs : Has(u, j)' => Has(u, j)
  PROVE  Turns(base)'
<1>1. base + Given \in Nat
  BY MainIs
<1>2. index' = Slot(base + Given)'
  <2>1. index = Slot(base + Given)
    BY DEF Turns
  <2> QED
    BY <1>1, <2>1, NothingMoves DEF Slot
<1>3. ASSUME NEW u \in Units, NEW j \in Jobs, Has(u, j)'
      PROVE  Fit(j, u, base)'
  <2>1. Fit(j, u, base)
    BY <1>3 DEF Turns
  <2> QED
    BY <2>1, NothingMoves
<1> QED
  BY <1>2, <1>3 DEF Turns

(* The pages are as they should be when neither they nor what is done has  *)
(* changed.                                                                *)
LEMMA PagesStay ==
  ASSUME PagesInv, UNCHANGED <<units, raw, tile>>, Now' = Now,
         \A j \in Jobs : \A x \in 0 .. Pyramid!Wide[j.level] - 1 : Over(j, x)' <=> Over(j, x)
  PROVE  PagesInv'
<1> SUFFICES ASSUME NEW j \in Jobs, NEW x \in 0 .. Pyramid!Wide[j.level] - 1,
                    j.row \in Pyramid!Sound(units)[j.level]
             PROVE  /\ RightMade(j, <<x, j.row, j.level>>, Over(j, x))'
                    /\ RightTiled(j, <<x, j.row, j.level>>, Over(j, x))'
  BY Zenon DEF PagesInv
<1>1. /\ RightMade(j, <<x, j.row, j.level>>, Over(j, x))
      /\ RightTiled(j, <<x, j.row, j.level>>, Over(j, x))
  BY DEF PagesInv
<1>2. Over(j, x)' <=> Over(j, x)
  OBVIOUS
<1> QED
  BY <1>1, <1>2 DEF RightMade, RightTiled

(* What is over stays the same where nobody has moved.                     *)
LEMMA OverStays ==
  ASSUME UNCHANGED <<units, main>>, NEW j \in Jobs, NEW x \in Nat,
         \A u \in Units : Ahead(u, j, x)' <=> Ahead(u, j, x)
  PROVE  Over(j, x)' <=> Over(j, x)
<1>1. Now' = Now /\ Given' = Given
  BY NothingMoves
<1> QED
  BY <1>1 DEF Over

(* A unit takes a task.                                                    *)
LEMMA StartKeeps ==
  ASSUME units \in 1 .. MaxUnits, NEW base \in Nat, Busy(base), NEW u \in Units,
         Pyramid!Start(u)
  PROVE  Busy(base)'
<1>1. main.step # "split" /\ TilesTyped /\ OnceEach /\ PagesInv /\ Turns(base)
  BY DEF Busy
<1>2. PICK h \in Jobs :
          /\ doing[u] = Pyramid!Idle /\ tileQueue[u] # <<>> /\ tileQueue[u][1] = Work(h, 0)
          /\ doing' = [doing EXCEPT ![u] = Work(h, 0)]
          /\ tileQueue' = [tileQueue EXCEPT ![u] = Tail(@)]
          /\ Pyramid!Became(Work(h, 0), "running")
          /\ UNCHANGED <<units, index, raw, tile, main>>
  BY <1>1, StartIs
<1>7. \A j \in Jobs, c \in Nat : Doing(u, j, c)' => j = h
  <2> SUFFICES ASSUME NEW j \in Jobs, NEW c \in Nat, Doing(u, j, c)' PROVE j = h
    OBVIOUS
  <2>1. doing'[u] = Work(h, 0)
    BY <1>1, <1>2, UnitsAre
  <2>2. Work(j, c) = Work(h, 0)
    BY <2>1 DEF Doing
  <2> QED
    BY <2>2, WorkIs
<1>3. TilesTyped'
  <2>1. tileQueue' \in [Units -> Seq(Tasks)]
    BY <1>1, <1>2, QueueTaken
  <2>2. doing' \in [Units -> Works \union {Pyramid!Idle}]
    BY <1>1, <1>2, StartMoves
  <2>3. sync' \in [task : Tasks \union {Pyramid!Idle},
                   state : {"wait", "awaited", "running", "done", "failed"}]
    BY <1>1, <1>2, BecameIs
  <2> QED
    BY <1>1, <1>2, <2>1, <2>2, <2>3, TypedStays
<1>4. OnceEach'
  <2>1. ASSUME NEW v \in Units
        PROVE  /\ \A i, k \in 1 .. Len(tileQueue'[v]) :
                      tileQueue'[v][i] = tileQueue'[v][k] => i = k
               /\ \A j \in Jobs, c \in Nat : Doing(v, j, c)' => ~ Queued(v, j)'
    <3>1. CASE v # u
      <4>1. tileQueue'[v] = tileQueue[v] /\ \A j \in Jobs : Queued(v, j)' <=> Queued(v, j)
        BY <1>1, <1>2, <3>1, QueueTaken
      <4>2. \A j \in Jobs, c \in Nat : Doing(v, j, c)' <=> Doing(v, j, c)
        BY <1>1, <1>2, <3>1, StartMoves
      <4> QED
        BY <1>1, <4>1, <4>2 DEF OnceEach
    <3>2. CASE v = u
      <4>1. /\ Len(tileQueue[u]) \in Nat \ {0}
            /\ \A i \in 1 .. Len(tileQueue'[u]) : /\ tileQueue'[u][i] = tileQueue[u][i + 1]
                                                  /\ i + 1 \in 1 .. Len(tileQueue[u])
        BY <1>1, <1>2, QueueTaken
      <4>2. \A i, k \in 1 .. Len(tileQueue[u]) : tileQueue[u][i] = tileQueue[u][k] => i = k
        BY <1>1 DEF OnceEach
      <4>3. ASSUME NEW i \in 1 .. Len(tileQueue'[u]), NEW k \in 1 .. Len(tileQueue'[u]),
                   tileQueue'[u][i] = tileQueue'[u][k]
            PROVE  i = k
        <5>1. i + 1 = k + 1
          BY <4>1, <4>2, <4>3
        <5> QED
          BY <5>1
      <4>4. ~ Queued(u, h)'
        <5>0. tileQueue[u][1] = Work(h, 0)
          BY <1>2
        <5>1. ASSUME NEW i \in 1 .. Len(tileQueue'[u]), tileQueue'[u][i] = Work(h, 0)
              PROVE  FALSE
          <6>1. tileQueue[u][i + 1] = tileQueue[u][1] /\ 1 \in 1 .. Len(tileQueue[u])
            BY ONLY <4>1, <5>0, <5>1
          <6>2. i + 1 = 1
            BY <4>1, <4>2, <6>1
          <6> QED
            BY <6>2
        <5> QED
          BY <5>1 DEF Queued
      <4>5. \A j \in Jobs, c \in Nat : Doing(u, j, c)' => j = h
        BY <1>7
      <4> QED
        BY <3>2, <4>3, <4>4, <4>5
    <3> QED
      BY <3>1, <3>2
  <2> QED
    BY <2>1 DEF OnceEach
<1>5. PagesInv'
  <2>1. Now' = Now
    BY <1>2, NothingMoves
  <2>2. ASSUME NEW j \in Jobs, NEW x \in 0 .. Pyramid!Wide[j.level] - 1
        PROVE  Over(j, x)' <=> Over(j, x)
    <3>1. x \in Nat
      OBVIOUS
    <3>2. \A v \in Units : Ahead(v, j, x)' <=> Ahead(v, j, x)
      BY <1>1, <1>2, <3>1, StartMoves
    <3> QED
      BY <1>2, <3>1, <3>2, OverStays
  <2> QED
    BY <1>1, <1>2, <2>1, <2>2, PagesStay
<1>6. Turns(base)'
  <2>1. LastIs(base)'
    BY <1>1, <1>2, LastStarts
  <2>2. \A v \in Units, j \in Jobs : Has(v, j)' => Has(v, j)
    BY <1>1, <1>2, StartMoves
  <2> QED
    BY <1>1, <1>2, <2>1, <2>2, TurnsStay
<1> QED
  BY <1>1, <1>2, <1>3, <1>4, <1>5, <1>6 DEF Busy

(* A unit goes on in a row, or ends it: all but the pages.                 *)
LEMMA GoingKeeps ==
  ASSUME units \in 1 .. MaxUnits, NEW base \in Nat, Busy(base), NEW u \in Units,
         NEW h \in Jobs, NEW c \in Nat, NEW d, doing[u] = Work(h, c),
         \/ d = Work(h, c + 1) /\ sync' = sync
         \/ d = Pyramid!Idle /\ \E state \in {"done", "failed"} : Pyramid!Became(Work(h, c), state),
         doing' = [doing EXCEPT ![u] = d], UNCHANGED <<units, index, tileQueue, main>>,
         DOMAIN raw' = DOMAIN raw, DOMAIN tile' = DOMAIN tile, PagesInv'
  PROVE  Busy(base)'
<1>1. main.step # "split" /\ TilesTyped /\ OnceEach /\ Turns(base)
  BY DEF Busy
<1>2. d \in {Pyramid!Idle, Work(h, c + 1)}
  OBVIOUS
<1>6. /\ doing'[u] = d /\ Doing(u, h, c) /\ c + 1 \in Nat
      /\ \A v \in Units : v # u => doing'[v] = doing[v]
  BY <1>1, UnitsAre DEF Doing
<1>3. TilesTyped'
  <2>1. tileQueue' \in [Units -> Seq(Tasks)]
    BY <1>1 DEF TilesTyped
  <2>2. doing' \in [Units -> Works \union {Pyramid!Idle}]
    BY <1>1, <1>2, WorkMoves
  <2>3. sync' \in [task : Tasks \union {Pyramid!Idle},
                   state : {"wait", "awaited", "running", "done", "failed"}]
    <3>1. CASE sync' = sync
      BY <1>1, <3>1 DEF TilesTyped
    <3>2. ASSUME NEW state \in {"done", "failed"}, Pyramid!Became(Work(h, c), state)
          PROVE  sync' \in [task : Tasks \union {Pyramid!Idle},
                            state : {"wait", "awaited", "running", "done", "failed"}]
      BY <1>1, <3>2, BecameIs
    <3> QED
      BY <3>1, <3>2
  <2> QED
    BY <1>1, <2>1, <2>2, <2>3, TypedStays
<1>4. OnceEach'
  <2>1. ASSUME NEW v \in Units
        PROVE  /\ \A i, k \in 1 .. Len(tileQueue'[v]) :
                      tileQueue'[v][i] = tileQueue'[v][k] => i = k
               /\ \A j \in Jobs, b \in Nat : Doing(v, j, b)' => ~ Queued(v, j)'
    <3>1. \A j \in Jobs : Queued(v, j)' <=> Queued(v, j)
      BY <1>1, <1>2, WorkMoves
    <3>2. \A i, k \in 1 .. Len(tileQueue[v]) : tileQueue[v][i] = tileQueue[v][k] => i = k
      BY <1>1 DEF OnceEach
    <3>3. ASSUME NEW j \in Jobs, NEW b \in Nat, Doing(v, j, b)'
          PROVE  ~ Queued(v, j)
      <4>1. CASE v = u
        <5>1. j = h
          BY <1>2, <1>6, <3>3, <4>1, WorkIs DEF Doing
        <5> QED
          BY <1>1, <1>6, <4>1, <5>1 DEF OnceEach
      <4>2. CASE v # u
        <5>1. Doing(v, j, b)
          BY <1>6, <3>3, <4>2 DEF Doing
        <5> QED
          BY <1>1, <5>1 DEF OnceEach
      <4> QED
        BY <4>1, <4>2
    <3> QED
      BY <3>1, <3>2, <3>3
  <2> QED
    BY <2>1 DEF OnceEach
<1>5. Turns(base)'
  <2>1. LastIs(base)'
    BY <1>1, LastGoes
  <2>2. \A v \in Units, j \in Jobs : Has(v, j)' => Has(v, j)
    BY <1>1, <1>2, WorkMoves
  <2> QED
    BY <1>1, <2>1, <2>2, TurnsStay
<1> QED
  BY <1>1, <1>3, <1>4, <1>5 DEF Busy

(* Nobody is further, or less far, with the pages that are not this one,   *)
(* when a unit goes on, ...                                                *)
LEMMA OthersGo ==
  ASSUME TilesTyped, NEW u \in Units, NEW h \in Jobs, NEW c \in Nat,
         doing[u] = Work(h, c), doing' = [doing EXCEPT ![u] = Work(h, c + 1)],
         UNCHANGED <<units, tileQueue, main>>,
         NEW j \in Jobs, NEW x \in Nat, j # h \/ x # c
  PROVE  Over(j, x)' <=> Over(j, x)
<1>1. c + 1 \in Nat /\ u \in DOMAIN doing
  BY UnitsAre
<1>2. doing'[u] = Work(h, c + 1) /\ \A v \in Units : v # u => doing'[v] = doing[v]
  BY <1>1, UnitsAre
<1>3. \A v \in Units : Queued(v, j)' <=> Queued(v, j)
  BY DEF Queued
<1>4. ASSUME NEW v \in Units
      PROVE  Ahead(v, j, x)' <=> Ahead(v, j, x)
  <2>1. CASE v = u
    <3>1. \A b \in 0 .. x : Doing(u, j, b) <=> j = h /\ b = c
      BY WorkIs DEF Doing
    <3>2. \A b \in 0 .. x : Doing(u, j, b)' <=> j = h /\ b = c + 1
      BY <1>1, <1>2, WorkIs DEF Doing
    <3>3. (\E b \in 0 .. x : Doing(u, j, b)) <=> j = h /\ c <= x
      BY <3>1
    <3>4. (\E b \in 0 .. x : Doing(u, j, b)') <=> j = h /\ c + 1 <= x
      BY <1>1, <3>2
    <3> QED
      BY <1>3, <2>1, <3>3, <3>4 DEF Ahead
  <2>2. CASE v # u
    BY <1>2, <1>3, <2>2 DEF Ahead, Doing
  <2> QED
    BY <2>1, <2>2
<1> QED
  BY <1>4, OverStays

(* ... nor with the pages before this one, when it ends the row.            *)
LEMMA OthersEnd ==
  ASSUME TilesTyped, NEW u \in Units, NEW h \in Jobs, NEW c \in Nat,
         doing[u] = Work(h, c), doing' = [doing EXCEPT ![u] = Pyramid!Idle],
         UNCHANGED <<units, tileQueue, main>>,
         NEW j \in Jobs, NEW x \in Nat, j # h \/ x < c
  PROVE  Over(j, x)' <=> Over(j, x)
<1>1. c + 1 \in Nat /\ u \in DOMAIN doing
  BY UnitsAre
<1>2. doing'[u] = Pyramid!Idle /\ \A v \in Units : v # u => doing'[v] = doing[v]
  BY <1>1, UnitsAre
<1>3. \A v \in Units : Queued(v, j)' <=> Queued(v, j)
  BY DEF Queued
<1>4. ASSUME NEW v \in Units
      PROVE  Ahead(v, j, x)' <=> Ahead(v, j, x)
  <2>1. CASE v = u
    <3>1. \A b \in 0 .. x : Doing(u, j, b) <=> j = h /\ b = c
      BY WorkIs DEF Doing
    <3>2. \A b \in 0 .. x : ~ Doing(u, j, b)'
      BY <1>1, <1>2, WorkIs DEF Doing
    <3>3. (\E b \in 0 .. x : Doing(u, j, b)) <=> j = h /\ c <= x
      BY <3>1
    <3>4. (\E b \in 0 .. x : Doing(u, j, b)') <=> FALSE
      BY <1>1, <3>2
    <3> QED
      BY <1>3, <2>1, <3>3, <3>4 DEF Ahead
  <2>2. CASE v # u
    BY <1>2, <1>3, <2>2 DEF Ahead, Doing
  <2> QED
    BY <2>1, <2>2
<1> QED
  BY <1>4, OverStays

(* What the unit is at: a page of a row of some level.                     *)
LEMMA DoingIs ==
  ASSUME TilesTyped, NEW u \in Units, doing[u] # Pyramid!Idle
  PROVE  \E h \in Jobs, c \in Nat :
            /\ doing[u] = Work(h, c)
            /\ doing[u].kind = h.kind
            /\ h.kind = "resample" => /\ doing[u].level = h.level + 1 /\ doing[u].y = 2 * h.row
                                      /\ doing[u].x = 2 * c
            /\ h.kind = "encode" => /\ doing[u].level = h.level /\ doing[u].y = h.row
                                    /\ doing[u].x = c
<1>1. PICK h \in Jobs, c \in Nat : doing[u] = Work(h, c)
  BY UnitsAre
<1> QED
  BY <1>1, JobsAre DEF Work

(* A unit makes a page of the level above.                                 *)
LEMMA ResampleKeeps ==
  ASSUME units \in 1 .. MaxUnits, NEW base \in Nat, Busy(base), NEW u \in Units,
         Pyramid!ResamplePage(u)
  PROVE  Busy(base)'
<1>1. TilesTyped /\ OnceEach /\ PagesInv /\ Turns(base)
  BY DEF Busy
<1>2. doing[u].kind = "resample" /\ doing[u].kind # "none"
  BY DEF Pyramid!ResamplePage
<1>3. doing[u] # Pyramid!Idle
  BY <1>2 DEF Pyramid!Idle
<1>4. PICK h \in Jobs, c \in Nat :
          /\ doing[u] = Work(h, c) /\ doing[u].kind = h.kind
          /\ h.kind = "resample" => /\ doing[u].level = h.level + 1 /\ doing[u].y = 2 * h.row
                                    /\ doing[u].x = 2 * c
  BY <1>1, <1>3, DoingIs
<1> DEFINE p == <<c, h.row, h.level>>
           below == {b \in Pyramid!Pages(h.level + 1) : /\ b[1] \in {2 * c, 2 * c + 1}
                                                        /\ b[2] \in {2 * h.row, 2 * h.row + 1}}
<1>5. h.kind = "resample" /\ (2 * c) \div 2 = c /\ (2 * h.row) \div 2 = h.row
      /\ (h.level + 1) - 1 = h.level
  BY <1>2, <1>4, JobsAre
<1>14. raw' = [raw EXCEPT ![p] = IF \A b \in below : raw[b] = "right" THEN "right" ELSE "wrong"]
  BY <1>4, <1>5 DEF Pyramid!ResamplePage
<1>17. doing' = [doing EXCEPT ![u].x = @ + 2]
  BY DEF Pyramid!ResamplePage, Pyramid!Forward
<1>6. /\ 2 * c < Pyramid!Wide[h.level + 1] /\ tile' = tile
      /\ UNCHANGED <<units, index, tileQueue, main, sync>>
  BY <1>4, <1>5 DEF Pyramid!ResamplePage, Pyramid!Forward
<1>7. doing' = [doing EXCEPT ![u] = Work(h, c + 1)]
  <2>1. [doing[u] EXCEPT !.x = @ + 2] = Work(h, c + 1)
    BY <1>4, <1>5 DEF Work
  <2> QED
    BY <1>17, <2>1
<1>8. c \in 0 .. Pyramid!Wide[h.level] - 1 /\ p \in Pyramid!AllPages
  <2>1. c < Pyramid!Wide[h.level]
    <3>1. /\ Pyramid!Wide[h.level + 1] \in Nat \ {0} /\ Pyramid!Wide[h.level] \in Nat \ {0}
          /\ Pyramid!Wide[h.level] = Pyramid!Ceiling(Pyramid!Wide[h.level + 1])
      BY <1>5, JobsAre
    <3> QED
      BY <1>6, <3>1 DEF Pyramid!Ceiling
  <2>2. /\ c \in 0 .. Pyramid!Wide[h.level] - 1 /\ h.level \in 0 .. Pyramid!Levels
        /\ h.row \in 0 .. Pyramid!High[h.level] - 1
    BY <2>1, JobsAre
  <2> QED
    BY <2>2, PagesAre
<1>9. Fit(h, u, base)
  BY <1>1, <1>4 DEF Turns, Has, Doing
<1>10. Now' = Now /\ Now \in Nat
  BY <1>1, <1>6, NothingMoves, MainIs
(* What is below a page of a sound row is right. *)
<1>11. ASSUME h.row \in Pyramid!Sound(units)[h.level], Stage(h) = Now
       PROVE  raw'[p] = "right"
  <2>1. ASSUME NEW b \in below
        PROVE  raw[b] = "right"
    <3>1. PICK x \in 0 .. Pyramid!Wide[h.level + 1] - 1, y \in 0 .. Pyramid!High[h.level + 1] - 1 :
              b = <<x, y, h.level + 1>>
      BY DEF Pyramid!Pages
    <3>2. y \in Pyramid!Sound(units)[h.level + 1] /\ y \in Nat
      <4>1. /\ units \in Nat \ {0} /\ h.level \in 0 .. Pyramid!Levels
            /\ h.level < Pyramid!Levels /\ Pyramid!High[h.level + 1] \in Nat
        BY <1>5, JobsAre, UiAssumption DEF SizesAreNumbers
      <4>2. y = 2 * h.row \/ y = 2 * h.row + 1
        BY <3>1
      <4> QED
        BY <1>11, <4>1, <4>2, SoundIs
    <3>3. /\ h.level + 1 \in 0 .. Pyramid!Levels /\ h.level \in Nat /\ Pyramid!Levels \in Nat
          /\ y < Pyramid!High[h.level + 1] /\ Stage(h) < Pyramid!Levels
      BY <1>5, JobsAre, StagesAre
    <3>4. CASE h.level + 1 = Pyramid!Levels
      <4> DEFINE e == [kind |-> "encode", level |-> h.level + 1, row |-> y]
      <4>1. e \in Jobs
        BY <3>2, <3>3 DEF Jobs
      <4>2. RightMade(e, <<x, y, h.level + 1>>, Over(e, x))
        BY <1>1, <3>1, <3>2, <4>1 DEF PagesInv
      <4> QED
        BY <1>11, <3>1, <3>3, <3>4, <4>2 DEF RightMade
    <3>5. CASE h.level + 1 # Pyramid!Levels
      <4> DEFINE k == [kind |-> "resample", level |-> h.level + 1, row |-> y]
      <4>1. k \in Jobs
        BY <3>2, <3>3, <3>5 DEF Jobs
      <4>2. RightMade(k, <<x, y, h.level + 1>>, Over(k, x))
        BY <1>1, <3>1, <3>2, <4>1 DEF PagesInv
      <4>3. Stage(k) < Stage(h)
        BY <1>5, <3>3 DEF Stage
      <4>4. Over(k, x)
        BY <1>11, <4>3 DEF Over
      <4> QED
        BY <1>11, <3>1, <3>3, <4>2, <4>4 DEF RightMade
    <3> QED
      BY <3>4, <3>5
  <2>2. p \in DOMAIN raw
    BY <1>1, <1>8 DEF TilesTyped
  <2> HIDE DEF below, p
  <2> QED
    BY <1>14, <2>1, <2>2
<1>12. ASSUME NEW j \in Jobs, NEW x \in 0 .. Pyramid!Wide[j.level] - 1,
              j.row \in Pyramid!Sound(units)[j.level]
       PROVE  /\ RightMade(j, <<x, j.row, j.level>>, Over(j, x))'
              /\ RightTiled(j, <<x, j.row, j.level>>, Over(j, x))'
  <2> DEFINE q == <<x, j.row, j.level>>
  <2>1. /\ RightMade(j, q, Over(j, x)) /\ RightTiled(j, q, Over(j, x))
        /\ x \in Nat
    BY <1>1, <1>12 DEF PagesInv
  <2>2. CASE q # p
    <3>1. raw'[q] = raw[q] /\ tile'[q] = tile[q]
      <4> HIDE DEF q, p, below
      <4> QED
        BY <1>6, <1>14, <2>2
    <3>2. j # h \/ x # c
      BY <2>2
    <3>4. Over(j, x)' <=> Over(j, x)
      <4>1. doing[u] = Work(h, c)
        BY <1>4
      <4> QED
        BY <1>1, <1>6, <1>7, <2>1, <3>2, <4>1, OthersGo
    <3> QED
      BY <1>6, <1>10, <2>1, <3>1, <3>4 DEF RightMade, RightTiled
  <2>3. CASE q = p
    <3>1. x = c /\ j.row = h.row /\ j.level = h.level
      BY <2>3
    <3>2. /\ units \in Nat \ {0} /\ h.level \in 0 .. Pyramid!Levels /\ h.level < Pyramid!Levels
          /\ Stage(h) \in Nat /\ Stage(h) < Pyramid!Levels
      BY <1>5, JobsAre, StagesAre, UiAssumption DEF SizesAreNumbers
    <3>3. Pyramid!OnTime(units, h.level, h.row)
      BY <1>12, <3>1, <3>2, SoundIs
    <3>4. Stage(h) = Now /\ Now < Pyramid!Levels
      BY <1>9, <1>10, <3>2, <3>3 DEF Fit
    <3>5. raw'[q] = "right"
      BY <1>11, <1>12, <2>3, <3>1, <3>4
    <3> QED
      BY <1>10, <3>4, <3>5, LevelsHalve DEF RightMade, RightTiled
  <2> QED
    BY <2>2, <2>3
<1>13. PagesInv'
  <2>1. units' = units
    BY <1>6
  <2> QED
    BY <1>12, <2>1, Zenon DEF PagesInv
<1>15. DOMAIN raw' = DOMAIN raw /\ DOMAIN tile' = DOMAIN tile
  <2> HIDE DEF p, below
  <2> QED
    BY <1>6, <1>14
<1>16. doing[u] = Work(h, c) /\ UNCHANGED <<units, index, tileQueue, main>> /\ sync' = sync
  BY <1>4, <1>6
<1> QED
  BY <1>7, <1>13, <1>15, <1>16, GoingKeeps

(* A unit encodes a page.                                                  *)
LEMMA EncodeIs ==
  ASSUME TilesTyped, NEW u \in Units, Pyramid!EncodePage(u)
  PROVE  \E h \in Jobs, c \in Nat :
            /\ h.kind = "encode" /\ doing[u] = Work(h, c)
            /\ c \in 0 .. Pyramid!Wide[h.level] - 1
            /\ <<c, h.row, h.level>> \in Pyramid!AllPages
            /\ UNCHANGED <<units, index, tileQueue, main>>
            /\ \/ /\ raw[<<c, h.row, h.level>>] = "none" /\ UNCHANGED <<raw, tile>>
                  /\ doing' = [doing EXCEPT ![u] = Pyramid!Idle]
                  /\ Pyramid!Became(Work(h, c), "failed")
               \/ /\ tile' = [tile EXCEPT ![<<c, h.row, h.level>>] = raw[<<c, h.row, h.level>>]]
                  /\ raw' = [raw EXCEPT ![<<c, h.row, h.level>>] = "none"]
                  /\ doing' = [doing EXCEPT ![u] = Work(h, c + 1)] /\ sync' = sync
<1>1. doing[u].kind = "encode" /\ doing[u].kind # "none"
  BY DEF Pyramid!EncodePage
<1>2. doing[u] # Pyramid!Idle
  BY <1>1 DEF Pyramid!Idle
<1>3. PICK h \in Jobs, c \in Nat :
          /\ doing[u] = Work(h, c) /\ doing[u].kind = h.kind
          /\ h.kind = "encode" => /\ doing[u].level = h.level /\ doing[u].y = h.row
                                  /\ doing[u].x = c
  BY <1>2, DoingIs
<1> DEFINE p == <<c, h.row, h.level>>
<1>4. /\ doing[u].x = c /\ doing[u].y = h.row /\ doing[u].level = h.level
      /\ h.kind = "encode" /\ c < Pyramid!Wide[h.level]
  BY <1>1, <1>3 DEF Pyramid!EncodePage
<1>5. c \in 0 .. Pyramid!Wide[h.level] - 1 /\ p \in Pyramid!AllPages
  <2>1. /\ c \in 0 .. Pyramid!Wide[h.level] - 1 /\ h.level \in 0 .. Pyramid!Levels
        /\ h.row \in 0 .. Pyramid!High[h.level] - 1
    BY <1>4, JobsAre
  <2> QED
    BY <2>1, PagesAre
<1>6. [doing[u] EXCEPT !.x = @ + 1] = Work(h, c + 1)
  BY <1>3, <1>4 DEF Work
<1>7. \/ raw[p] = "none" /\ Pyramid!End(u, "failed")
      \/ /\ tile' = [tile EXCEPT ![p] = raw[p]] /\ raw' = [raw EXCEPT ![p] = "none"]
         /\ Pyramid!Forward(u, 1)
  BY <1>4 DEF Pyramid!EncodePage
<1>8. CASE raw[p] = "none" /\ Pyramid!End(u, "failed")
  <2>1. /\ doing' = [doing EXCEPT ![u] = Pyramid!Idle] /\ Pyramid!Became(Work(h, c), "failed")
        /\ UNCHANGED <<units, index, tileQueue, raw, tile, main>>
    BY <1>3, <1>8 DEF Pyramid!End, Pyramid!files
  <2> QED
    BY <1>3, <1>4, <1>5, <1>8, <2>1
<1>9. CASE /\ tile' = [tile EXCEPT ![p] = raw[p]] /\ raw' = [raw EXCEPT ![p] = "none"]
           /\ Pyramid!Forward(u, 1)
  <2>1. doing' = [doing EXCEPT ![u].x = @ + 1] /\ UNCHANGED <<units, index, tileQueue, main, sync>>
    BY <1>9 DEF Pyramid!Forward
  <2>2. doing' = [doing EXCEPT ![u] = Work(h, c + 1)]
    BY <1>6, <2>1
  <2> QED
    BY <1>3, <1>4, <1>5, <1>9, <2>1, <2>2
<1> QED
  BY <1>7, <1>8, <1>9

LEMMA EncodeKeeps ==
  ASSUME units \in 1 .. MaxUnits, NEW base \in Nat, Busy(base), NEW u \in Units,
         Pyramid!EncodePage(u)
  PROVE  Busy(base)'
<1>1. TilesTyped /\ OnceEach /\ PagesInv /\ Turns(base)
  BY DEF Busy
<1>2. PICK h \in Jobs, c \in Nat :
         /\ h.kind = "encode" /\ doing[u] = Work(h, c)
         /\ c \in 0 .. Pyramid!Wide[h.level] - 1
         /\ <<c, h.row, h.level>> \in Pyramid!AllPages
         /\ UNCHANGED <<units, index, tileQueue, main>>
         /\ \/ /\ raw[<<c, h.row, h.level>>] = "none" /\ UNCHANGED <<raw, tile>>
               /\ doing' = [doing EXCEPT ![u] = Pyramid!Idle]
               /\ Pyramid!Became(Work(h, c), "failed")
            \/ /\ tile' = [tile EXCEPT ![<<c, h.row, h.level>>] = raw[<<c, h.row, h.level>>]]
               /\ raw' = [raw EXCEPT ![<<c, h.row, h.level>>] = "none"]
               /\ doing' = [doing EXCEPT ![u] = Work(h, c + 1)] /\ sync' = sync
  BY <1>1, EncodeIs
<1> DEFINE p == <<c, h.row, h.level>>
<1>3. Fit(h, u, base) /\ Doing(u, h, c) /\ Ahead(u, h, c)
  <2>1. Doing(u, h, c) /\ c \in 0 .. c
    BY <1>2 DEF Doing
  <2> QED
    BY <1>1, <2>1 DEF Turns, Has, Ahead
<1>4. /\ Now' = Now /\ Given' = Given /\ Now \in Nat /\ Pyramid!Levels \in Nat
      /\ Now >= Pyramid!Levels /\ Stage(h) \in Nat
  <2>1. Stage(h) \in Nat /\ Stage(h) >= Pyramid!Levels /\ Pyramid!Levels \in Nat
    BY <1>2, StagesAre, JobsAre
  <2>2. Now' = Now /\ Given' = Given /\ Now \in Nat
    BY <1>1, <1>2, NothingMoves, MainIs
  <2> QED
    BY <1>3, <2>1, <2>2 DEF Fit
<1>9. doing[u] = Work(h, c) /\ UNCHANGED <<units, index, tileQueue, main>>
  BY <1>2
(* The page was made right, if its row is sound and in time. *)
<1>5. ASSUME h.row \in Pyramid!Sound(units)[h.level], Pyramid!OnTime(units, h.level, h.row)
      PROVE  raw[p] = "right" /\ Stage(h) = Now /\ h.row < Given /\ u = Slot(base + h.row)
  <2>1. Stage(h) = Now /\ h.row < Given /\ u = Slot(base + h.row)
    BY <1>3, <1>4, <1>5 DEF Fit
  <2>2. ~ Over(h, c)
    BY <1>3, <1>4, <2>1 DEF Over
  <2>3. RightTiled(h, p, Over(h, c))
    BY <1>1, <1>2, <1>5 DEF PagesInv
  <2> QED
    BY <1>2, <1>4, <1>5, <2>1, <2>2, <2>3 DEF RightTiled
<1>6. ASSUME NEW j \in Jobs, NEW x \in 0 .. Pyramid!Wide[j.level] - 1
      PROVE  RightMade(j, <<x, j.row, j.level>>, Over(j, x))'
  BY <1>4 DEF RightMade
<1>7. CASE /\ raw[p] = "none" /\ UNCHANGED <<raw, tile>>
           /\ doing' = [doing EXCEPT ![u] = Pyramid!Idle]
           /\ Pyramid!Became(Work(h, c), "failed")
  <2>1. ASSUME NEW j \in Jobs, NEW x \in 0 .. Pyramid!Wide[j.level] - 1,
               j.row \in Pyramid!Sound(units)[j.level]
        PROVE  RightTiled(j, <<x, j.row, j.level>>, Over(j, x))'
    <3>1. RightTiled(j, <<x, j.row, j.level>>, Over(j, x)) /\ x \in Nat
      BY <1>1, <2>1 DEF PagesInv
    <3>2. CASE j # h
      <4>1. Over(j, x)' <=> Over(j, x)
        BY <1>1, <1>7, <1>9, <3>1, <3>2, OthersEnd
      <4> QED
        BY <1>2, <1>4, <1>7, <3>1, <4>1 DEF RightTiled
    <3>3. CASE j = h
      <4>1. ~ Pyramid!OnTime(units, h.level, h.row)
        BY <1>5, <1>7, <2>1, <3>3
      <4> QED
        BY <1>2, <3>3, <4>1 DEF RightTiled
    <3> QED
      BY <3>2, <3>3
  <2>2. PagesInv'
    <3>1. units' = units
      BY <1>2
    <3> QED
      BY <1>6, <2>1, <3>1, Zenon DEF PagesInv
  <2> QED
    BY <1>7, <1>9, <2>2, GoingKeeps
<1>8. CASE /\ tile' = [tile EXCEPT ![p] = raw[p]] /\ raw' = [raw EXCEPT ![p] = "none"]
           /\ doing' = [doing EXCEPT ![u] = Work(h, c + 1)] /\ sync' = sync
  <2>1. ASSUME NEW j \in Jobs, NEW x \in 0 .. Pyramid!Wide[j.level] - 1,
               j.row \in Pyramid!Sound(units)[j.level]
        PROVE  RightTiled(j, <<x, j.row, j.level>>, Over(j, x))'
    <3> DEFINE q == <<x, j.row, j.level>>
    <3>1. RightTiled(j, q, Over(j, x)) /\ x \in Nat
      BY <1>1, <2>1 DEF PagesInv
    <3>2. CASE q # p
      <4>1. raw'[q] = raw[q] /\ tile'[q] = tile[q]
        <5> HIDE DEF q, p
        <5> QED
          BY <1>8, <3>2
      <4>2. j # h \/ x # c
        BY <3>2
      <4>3. Over(j, x)' <=> Over(j, x)
        BY <1>1, <1>8, <1>9, <3>1, <4>2, OthersGo
      <4> QED
        BY <1>2, <1>4, <3>1, <4>1, <4>3 DEF RightTiled
    <3>3. CASE q = p
      <4>1. x = c /\ j.row = h.row /\ j.level = h.level
        BY <3>3
      <4> SUFFICES ASSUME j.kind = "encode", Pyramid!OnTime(units, j.level, j.row)
                   PROVE  Over(j, x)' /\ tile'[q] = "right" /\ raw'[q] = "none"
        BY <1>2 DEF RightTiled
      <4>2. j = h
        BY <1>2, <4>1, JobsAre
      <4>3. raw[p] = "right" /\ Stage(h) = Now /\ h.row < Given /\ u = Slot(base + h.row)
        BY <1>5, <2>1, <4>2
      <4>4. p \in DOMAIN raw /\ p \in DOMAIN tile
        BY <1>1, <1>2 DEF TilesTyped
      <4>5. tile'[q] = "right" /\ raw'[q] = "none"
        <5> HIDE DEF p, q
        <5> QED
          BY <1>8, <3>3, <4>3, <4>4
      <4>6. ASSUME NEW v \in Units
            PROVE  ~ Ahead(v, h, c)'
        <5>1. CASE v # u
          <6>1. ~ Has(v, h)
            BY <1>1, <4>3, <5>1 DEF Turns, Fit
          <6>2. Has(v, h)' => Has(v, h)
            <7>1. Work(h, c + 1) \in {Pyramid!Idle, Work(h, c + 1)}
              OBVIOUS
            <7> QED
              BY <1>1, <1>8, <1>9, <7>1, WorkMoves
          <6> QED
            BY <6>1, <6>2 DEF Has, Ahead
        <5>2. CASE v = u
          <6>1. ~ Queued(u, h) /\ (Queued(u, h)' <=> Queued(u, h))
            BY <1>1, <1>2, <1>3 DEF OnceEach, Queued
          <6>2. doing'[u] = Work(h, c + 1) /\ c + 1 \in Nat
            BY <1>1, <1>8, UnitsAre
          <6>3. \A b \in 0 .. c : ~ Doing(u, h, b)'
            BY <6>2, WorkIs DEF Doing
          <6> QED
            BY <5>2, <6>1, <6>3 DEF Ahead
        <5> QED
          BY <5>1, <5>2
      <4>7. Over(j, x)'
        BY <1>4, <4>1, <4>2, <4>3, <4>6 DEF Over
      <4> QED
        BY <4>5, <4>7
    <3> QED
      BY <3>2, <3>3
  <2>2. PagesInv'
    <3>1. units' = units
      BY <1>2
    <3> QED
      BY <1>6, <2>1, <3>1, Zenon DEF PagesInv
  <2>3. DOMAIN raw' = DOMAIN raw /\ DOMAIN tile' = DOMAIN tile
    <3> HIDE DEF p
    <3> QED
      BY <1>8
  <2> QED
    BY <1>8, <1>9, <2>2, <2>3, GoingKeeps
<1> QED
  BY <1>2, <1>7, <1>8

(* A unit has come to the end of a row.                                    *)
LEMMA RowEndsKeeps ==
  ASSUME units \in 1 .. MaxUnits, NEW base \in Nat, Busy(base), NEW u \in Units,
         Pyramid!RowEnds(u)
  PROVE  Busy(base)'
<1>1. TilesTyped /\ PagesInv
  BY DEF Busy
<1>2. /\ doing[u] # Pyramid!Idle /\ doing[u].x >= Pyramid!Wide[doing[u].level]
      /\ doing' = [doing EXCEPT ![u] = Pyramid!Idle] /\ Pyramid!Became(doing[u], "done")
      /\ UNCHANGED <<units, index, tileQueue, raw, tile, main>>
  BY DEF Pyramid!RowEnds, Pyramid!End, Pyramid!files
<1>3. PICK h \in Jobs, c \in Nat :
          /\ doing[u] = Work(h, c) /\ doing[u].kind = h.kind
          /\ h.kind = "resample" => doing[u].level = h.level + 1 /\ doing[u].x = 2 * c
          /\ h.kind = "encode" => doing[u].level = h.level /\ doing[u].x = c
  BY <1>1, <1>2, DoingIs
(* It has made all its pages. *)
<1>4. c >= Pyramid!Wide[h.level]
  <2>1. CASE h.kind = "encode"
    BY <1>2, <1>3, <2>1
  <2>2. CASE h.kind = "resample"
    <3>1. 2 * c >= Pyramid!Wide[h.level + 1]
      BY <1>2, <1>3, <2>2
    <3>2. /\ Pyramid!Wide[h.level + 1] \in Nat \ {0} /\ Pyramid!Wide[h.level] \in Nat \ {0}
          /\ Pyramid!Wide[h.level] = Pyramid!Ceiling(Pyramid!Wide[h.level + 1])
      BY <2>2, JobsAre
    <3> QED
      BY <3>1, <3>2 DEF Pyramid!Ceiling
  <2> QED
    BY <2>1, <2>2, JobsAre
<1>5. ASSUME NEW j \in Jobs, NEW x \in 0 .. Pyramid!Wide[j.level] - 1
      PROVE  Over(j, x)' <=> Over(j, x)
  <2>1. x \in Nat /\ (j # h \/ x < c)
    BY <1>4, JobsAre
  <2> QED
    BY <1>1, <1>2, <1>3, <2>1, OthersEnd
<1>6. PagesInv'
  <2>1. Now' = Now
    BY <1>2, NothingMoves
  <2> QED
    BY <1>1, <1>2, <1>5, <2>1, PagesStay
<1>7. Pyramid!Became(Work(h, c), "done")
  BY <1>2, <1>3
<1> QED
  BY <1>2, <1>3, <1>6, <1>7, GoingKeeps

(* Nobody moves: a wait begins at most.                                    *)
LEMMA StillKeeps ==
  ASSUME units \in 1 .. MaxUnits, NEW base \in Nat, Busy(base),
         UNCHANGED <<units, index, tileQueue, doing, raw, tile, main>>,
         \/ sync' = sync
         \/ sync.state = "wait" /\ sync' = [sync EXCEPT !.state = "awaited"]
  PROVE  Busy(base)'
<1>1. main.step # "split" /\ TilesTyped /\ OnceEach /\ PagesInv /\ Turns(base)
  BY DEF Busy
<1>2. TilesTyped'
  <2>1. sync' \in [task : Tasks \union {Pyramid!Idle},
                   state : {"wait", "awaited", "running", "done", "failed"}]
    BY <1>1 DEF TilesTyped
  <2>2. /\ tileQueue' \in [Units -> Seq(Tasks)]
        /\ doing' \in [Units -> Works \union {Pyramid!Idle}]
    BY <1>1 DEF TilesTyped
  <2> QED
    BY <1>1, <2>1, <2>2, TypedStays
<1>3. /\ \A u \in Units, j \in Jobs : Queued(u, j)' <=> Queued(u, j)
      /\ \A u \in Units, j \in Jobs, c \in Nat : Doing(u, j, c)' <=> Doing(u, j, c)
  BY DEF Queued, Doing
<1>4. OnceEach'
  BY <1>1, <1>3 DEF OnceEach
<1>5. PagesInv'
  <2>1. Now' = Now
    BY NothingMoves
  <2>2. ASSUME NEW j \in Jobs, NEW x \in 0 .. Pyramid!Wide[j.level] - 1
        PROVE  Over(j, x)' <=> Over(j, x)
    <3>1. x \in Nat /\ 0 .. x \subseteq Nat
      OBVIOUS
    <3>2. \A u \in Units : Ahead(u, j, x)' <=> Ahead(u, j, x)
      BY <1>3, <3>1 DEF Ahead
    <3> QED
      BY <3>1, <3>2, OverStays
  <2> QED
    BY <1>1, <2>1, <2>2, PagesStay
<1>6. Turns(base)'
  <2>1. LastIs(base)'
    <3> SUFFICES ASSUME main.step \in {"syncResample", "syncEncode"}
                 PROVE  LastIs(base)'
      BY DEF LastIs
    <3>1. PICK l \in Jobs :
              /\ Stage(l) = Now /\ l.row = Pyramid!High[l.level] - 1 /\ sync.task = Work(l, 0)
              /\ LET v == Slot(base + l.row)
                     q == tileQueue[v]
                 IN  /\ q # <<>> => q[Len(q)] = Work(l, 0) /\ sync.state \in {"wait", "awaited"}
                     /\ q = <<>> /\ doing[v] # Pyramid!Idle =>
                            (\E c \in Nat : Doing(v, l, c)) /\ sync.state \in {"running", "awaited"}
                     /\ q = <<>> /\ doing[v] = Pyramid!Idle => sync.state \in {"done", "failed"}
      BY <1>1 DEF Turns, LastIs
    <3> DEFINE v == Slot(base + l.row)
    <3>2. base + l.row \in Nat /\ v \in Units
      <4>1. base + l.row \in Nat
        BY JobsAre
      <4> QED
        BY <4>1, SlotsAre
    <3>3. v' = v /\ Now' = Now
      <4> HIDE DEF v
      <4> QED
        BY <3>2, NothingMoves DEF v
    <3>4. /\ sync'.task = sync.task
          /\ sync.state \in {"wait", "awaited"} => sync'.state \in {"wait", "awaited"}
          /\ sync.state \in {"running", "awaited"} => sync'.state \in {"running", "awaited"}
          /\ sync.state \in {"done", "failed"} => sync'.state \in {"done", "failed"}
      BY <1>1 DEF TilesTyped
    <3> HIDE DEF v
    <3> QED
      BY <3>1, <3>3, <3>4 DEF LastIs, Doing, v
  <2>2. \A u \in Units, j \in Jobs : Has(u, j)' => Has(u, j)
    BY <1>3 DEF Has
  <2> QED
    BY <1>1, <2>1, <2>2, TurnsStay
<1> QED
  BY <1>1, <1>2, <1>4, <1>5, <1>6 DEF Busy

(* launch has returned, and a unit leaves what it has not begun.           *)
LEMMA DropKeeps ==
  ASSUME units \in 1 .. MaxUnits, NEW base \in Nat, Busy(base), NEW u \in Units,
         Pyramid!Drop(u)
  PROVE  Busy(base)'
<1>1. main.step # "split" /\ TilesTyped /\ OnceEach /\ PagesInv /\ Turns(base)
  BY DEF Busy
<1>2. /\ main.step = "done" /\ tileQueue' = [tileQueue EXCEPT ![u] = <<>>]
      /\ UNCHANGED <<units, index, doing, raw, tile, main, sync>>
  BY <1>1 DEF Pyramid!Drop, Pyramid!files, TilesTyped
<1>3. /\ tileQueue'[u] = <<>> /\ tileQueue' \in [Units -> Seq(Tasks)]
      /\ \A v \in Units : v # u => tileQueue'[v] = tileQueue[v]
  <2>1. tileQueue \in [Units -> Seq(Tasks)] /\ <<>> \in Seq(Tasks)
    BY <1>1 DEF TilesTyped
  <2> QED
    BY <1>2, <2>1
<1>4. TilesTyped'
  <2>1. /\ doing' \in [Units -> Works \union {Pyramid!Idle}]
        /\ sync' \in [task : Tasks \union {Pyramid!Idle},
                      state : {"wait", "awaited", "running", "done", "failed"}]
    BY <1>1, <1>2 DEF TilesTyped
  <2> QED
    BY <1>1, <1>2, <1>3, <2>1, TypedStays
<1>5. /\ \A v \in Units, j \in Jobs : Queued(v, j)' => Queued(v, j)
      /\ \A v \in Units, j \in Jobs, c \in Nat : Doing(v, j, c)' <=> Doing(v, j, c)
  <2>1. Len(tileQueue'[u]) = 0
    BY <1>3
  <2> QED
    BY <1>2, <1>3, <2>1 DEF Queued, Doing
<1>6. OnceEach'
  <2>1. ASSUME NEW v \in Units
        PROVE  \A i, k \in 1 .. Len(tileQueue'[v]) :
                   tileQueue'[v][i] = tileQueue'[v][k] => i = k
    <3>1. CASE v = u
      BY <1>3, <3>1
    <3>2. CASE v # u
      BY <1>1, <1>3, <3>2 DEF OnceEach
    <3> QED
      BY <3>1, <3>2
  <2> QED
    BY <1>1, <1>5, <2>1 DEF OnceEach
(* Everything is over. *)
<1>7. PagesInv'
  <2>1. Now' = Now /\ Now = 2 * Pyramid!Levels + 1
    BY <1>1, <1>2, NothingMoves, MainIs
  <2>2. ASSUME NEW j \in Jobs, NEW x \in 0 .. Pyramid!Wide[j.level] - 1
        PROVE  Over(j, x)' <=> Over(j, x)
    <3>1. Stage(j) < Now
      BY <2>1, StagesAre, JobsAre
    <3> QED
      BY <2>1, <3>1 DEF Over
  <2> QED
    BY <1>1, <1>2, <2>1, <2>2, PagesStay
<1>8. Turns(base)'
  <2>1. LastIs(base)'
    BY <1>2 DEF LastIs
  <2>2. \A v \in Units, j \in Jobs : Has(v, j)' => Has(v, j)
    BY <1>5 DEF Has
  <2> QED
    BY <1>1, <1>2, <2>1, <2>2, TurnsStay
<1> QED
  BY <1>1, <1>2, <1>4, <1>6, <1>7, <1>8 DEF Busy

(* make_tile gives a row to the pool: the next of this stage.              *)
LEMMA GiveIs ==
  ASSUME units \in 1 .. MaxUnits, TilesTyped, Pyramid!Resample \/ Pyramid!Encode
  PROVE  \E j \in Jobs :
            /\ Stage(j) = Now /\ j.row = Given
            /\ tileQueue' = [tileQueue EXCEPT ![index] = Append(@, Work(j, 0))]
            /\ index' = (index % units) + 1 /\ sync' = [task |-> Work(j, 0), state |-> "wait"]
            /\ UNCHANGED <<units, doing, raw, tile>>
            /\ Now' = Now /\ Given' = Given + 1
            /\ main'.step \in {"syncResample", "syncEncode"} => j.row = Pyramid!High[j.level] - 1
            /\ main' \in [step : {"resample", "syncResample", "encode", "syncEncode"},
                          level : 0 .. Pyramid!Levels, y : Nat]
            /\ main'.step \in {"resample", "syncResample"} => main'.level > 0
            /\ main'.step = "resample" => main'.y < Pyramid!High[main'.level] /\ IsEven(main'.y)
            /\ main'.step = "encode" => main'.y < Pyramid!High[main'.level]
<1>1. /\ main \in [step : {"split", "resample", "syncResample", "encode", "syncEncode", "done"},
                   level : 0 .. Pyramid!Levels, y : Nat]
      /\ main.step \in {"resample", "syncResample"} => main.level > 0
      /\ main.step = "resample" => main.y < Pyramid!High[main.level] /\ IsEven(main.y)
      /\ main.step = "encode" => main.y < Pyramid!High[main.level]
      /\ main.level \in 0 .. Pyramid!Levels /\ main.y \in Nat /\ main.level \in Nat
      /\ Pyramid!Levels \in Nat /\ Pyramid!High[main.level] \in Nat \ {0}
  BY LevelsHalve DEF TilesTyped
<1>2. CASE Pyramid!Resample
  <2> DEFINE H == Pyramid!High[main.level]
             j == [kind |-> "resample", level |-> main.level - 1, row |-> Given]
  <2>1. /\ main.step = "resample" /\ main.level > 0 /\ main.y < H /\ H \in Nat
        /\ main.y = 2 * Given /\ Given \in Nat
    BY <1>1, <1>2, MainIs DEF Pyramid!Resample
  <2>2. /\ main.level - 1 \in 0 .. Pyramid!Levels /\ main.level - 1 < Pyramid!Levels
        /\ (main.level - 1) + 1 = main.level /\ main.level \in 1 .. Pyramid!Levels
        /\ Pyramid!High[main.level - 1] \in Nat
    <3>1. main.level - 1 \in 0 .. Pyramid!Levels /\ main.level - 1 < Pyramid!Levels
          /\ (main.level - 1) + 1 = main.level /\ main.level \in 1 .. Pyramid!Levels
      BY <1>1, <2>1
    <3> QED
      BY <3>1, LevelsHalve
  <2>3. Pyramid!High[main.level - 1] = (H + 1) \div 2
    BY <2>2, LevelsHalve DEF Pyramid!Ceiling
  <2>4. Given < Pyramid!High[main.level - 1]
        /\ (main.y + 2 >= H => Pyramid!High[main.level - 1] = Given + 1)
        /\ (main.y + 2) \div 2 = Given + 1
    <3> HIDE DEF H
    <3> QED
      BY <2>1, <2>3
  <2>5. j \in Jobs /\ Stage(j) = Now /\ j.row = Given
    <3>1. j \in Jobs
      BY <2>1, <2>2, <2>4 DEF Jobs
    <3>2. Stage(j) = Now
      BY <1>1, <2>1, <2>2 DEF Stage, Now
    <3> QED
      BY <3>1, <3>2
  <2>6. Pyramid!Task("resample", main.level, main.y) = Work(j, 0)
    BY <2>1, <2>2 DEF Pyramid!Task, Work
  <2>7. /\ tileQueue' = [tileQueue EXCEPT ![index] = Append(@, Work(j, 0))]
        /\ index' = (index % units) + 1 /\ sync' = [task |-> Work(j, 0), state |-> "wait"]
        /\ UNCHANGED <<units, doing, raw, tile>>
    <3> HIDE DEF j
    <3> QED
      BY <1>2, <2>6 DEF Pyramid!Resample, Pyramid!Async, Pyramid!files
  <2>8. main' = IF main.y + 2 >= H
                THEN [step |-> "syncResample", level |-> main.level, y |-> 0]
                ELSE [main EXCEPT !.y = @ + 2]
    BY <1>2 DEF Pyramid!Resample, Pyramid!At
  <2>9. CASE main.y + 2 >= H
    <3>1. main' = [step |-> "syncResample", level |-> main.level, y |-> 0]
      BY <2>8, <2>9
    <3>2. Now' = Now /\ Given' = Given + 1
      BY <2>1, <2>4, <2>9, <3>1 DEF Now, Given
    <3>3. j.row = Pyramid!High[j.level] - 1
      BY <2>1, <2>2, <2>4, <2>9
    <3>4. main' \in [step : {"resample", "syncResample", "encode", "syncEncode"},
                     level : 0 .. Pyramid!Levels, y : Nat]
          /\ main'.step = "syncResample" /\ main'.level > 0
      BY <1>1, <2>1, <3>1
    <3> HIDE DEF j, H
    <3> QED
      BY <2>5, <2>7, <3>2, <3>3, <3>4
  <2>10. CASE ~ (main.y + 2 >= H)
    <3>1. main' = [main EXCEPT !.y = @ + 2]
      BY <2>8, <2>10
    <3>2. main'.step = "resample" /\ main'.level = main.level /\ main'.y = main.y + 2
      BY <1>1, <2>1, <3>1
    <3>3. Now' = Now
      BY <2>1, <3>2 DEF Now
    <3>4. Given' = Given + 1
      <4>1. Given' = main'.y \div 2
        BY <3>2 DEF Given
      <4> QED
        BY <2>4, <3>2, <4>1
    <3>5. IsEven(main.y + 2)
      <4>1. main.y + 2 = 2 * (Given + 1) /\ Given + 1 \in Nat
        BY <2>1
      <4> QED
        BY <4>1 DEF IsEven
    <3>6. main.y + 2 < H
      BY <1>1, <2>1, <2>10
    <3> HIDE DEF j
    <3>7. main' \in [step : {"resample", "syncResample", "encode", "syncEncode"},
                     level : 0 .. Pyramid!Levels, y : Nat]
      BY <1>1, <2>1, <3>1
    <3> QED
      BY <2>1, <2>5, <2>7, <3>2, <3>3, <3>4, <3>5, <3>6, <3>7
  <2> QED
    BY <2>9, <2>10
<1>3. CASE Pyramid!Encode
  <2> DEFINE H == Pyramid!High[main.level]
             j == [kind |-> "encode", level |-> main.level, row |-> main.y]
  <2>1. main.step = "encode" /\ main.y < H /\ H \in Nat /\ Given = main.y
    BY <1>1, <1>3 DEF Pyramid!Encode, Given
  <2>2. j \in Jobs /\ Stage(j) = Now /\ j.row = Given
    BY <1>1, <2>1 DEF Jobs, Stage, Now
  <2>3. Pyramid!Task("encode", main.level, main.y) = Work(j, 0)
    BY DEF Pyramid!Task, Work
  <2>4. /\ tileQueue' = [tileQueue EXCEPT ![index] = Append(@, Work(j, 0))]
        /\ index' = (index % units) + 1 /\ sync' = [task |-> Work(j, 0), state |-> "wait"]
        /\ UNCHANGED <<units, doing, raw, tile>>
    <3> HIDE DEF j
    <3> QED
      BY <1>3, <2>3 DEF Pyramid!Encode, Pyramid!Async, Pyramid!files
  <2>5. main' = IF main.y = H - 1
                THEN [step |-> "syncEncode", level |-> main.level, y |-> 0]
                ELSE [main EXCEPT !.y = @ + 1]
    BY <1>3 DEF Pyramid!Encode, Pyramid!At
  <2>6. CASE main.y = H - 1
    <3>1. main' = [step |-> "syncEncode", level |-> main.level, y |-> 0]
      BY <2>5, <2>6
    <3>2. Now' = Now /\ Given' = Given + 1
      BY <1>1, <2>1, <2>6, <3>1 DEF Now, Given
    <3>3. j.level = main.level /\ j.row = main.y
      OBVIOUS
    <3> HIDE DEF j
    <3> QED
      BY <1>1, <2>1, <2>2, <2>4, <2>6, <3>1, <3>2, <3>3
  <2>7. CASE main.y # H - 1
    <3>1. main' = [main EXCEPT !.y = @ + 1]
      BY <2>5, <2>7
    <3>2. main'.step = "encode" /\ main'.level = main.level /\ main'.y = main.y + 1
      BY <1>1, <2>1, <3>1
    <3>3. Now' = Now /\ Given' = Given + 1
      BY <2>1, <3>2 DEF Now, Given
    <3>4. main.y + 1 < H
      BY <1>1, <2>1, <2>7
    <3>5. main' \in [step : {"resample", "syncResample", "encode", "syncEncode"},
                     level : 0 .. Pyramid!Levels, y : Nat]
      BY <1>1, <2>1, <3>1
    <3> HIDE DEF j
    <3> QED
      BY <2>1, <2>2, <2>4, <3>2, <3>3, <3>4, <3>5
  <2> QED
    BY <2>6, <2>7
<1> QED
  BY <1>2, <1>3

(* A queue with one task more.                                             *)
LEMMA QueueGiven ==
  ASSUME TilesTyped, NEW u \in Units, NEW j \in Jobs,
         tileQueue' = [tileQueue EXCEPT ![u] = Append(@, Work(j, 0))]
  PROVE  /\ tileQueue' \in [Units -> Seq(Tasks)]
         /\ Len(tileQueue'[u]) = Len(tileQueue[u]) + 1 /\ Len(tileQueue[u]) \in Nat
         /\ tileQueue'[u] # <<>> /\ tileQueue'[u][Len(tileQueue'[u])] = Work(j, 0)
         /\ \A i \in 1 .. Len(tileQueue[u]) : tileQueue'[u][i] = tileQueue[u][i]
         /\ \A v \in Units : v # u => tileQueue'[v] = tileQueue[v]
         /\ \A v \in Units, k \in Jobs : Queued(v, k)' <=> Queued(v, k) \/ (v = u /\ k = j)
<1> DEFINE q == tileQueue[u]
           r == Append(q, Work(j, 0))
<1>1. q \in Seq(Tasks) /\ Work(j, 0) \in Tasks /\ tileQueue \in [Units -> Seq(Tasks)]
  BY UnitsAre DEF TilesTyped, Tasks
<1>2. tileQueue'[u] = r /\ \A v \in Units : v # u => tileQueue'[v] = tileQueue[v]
  BY <1>1
<1>3. /\ r \in Seq(Tasks) /\ Len(r) = Len(q) + 1 /\ Len(q) \in Nat
      /\ r[Len(r)] = Work(j, 0) /\ \A i \in 1 .. Len(q) : r[i] = q[i]
  <2> HIDE DEF q
  <2> QED
    BY <1>1
<1>4. r # <<>>
  <2> HIDE DEF r, q
  <2> QED
    BY <1>3, EmptySeq
<1>5. tileQueue' \in [Units -> Seq(Tasks)]
  BY <1>1, <1>3
<1>6. ASSUME NEW k \in Jobs
      PROVE  Queued(u, k)' <=> Queued(u, k) \/ k = j
  <2>1. Queued(u, k)' <=> \E i \in 1 .. Len(r) : r[i] = Work(k, 0)
    BY <1>2, Zenon DEF Queued
  <2>2. Queued(u, k) <=> \E i \in 1 .. Len(q) : q[i] = Work(k, 0)
    BY DEF Queued
  <2>3. Work(j, 0) = Work(k, 0) <=> j = k
    BY WorkIs
  <2> HIDE DEF q, r
  <2>4. ASSUME NEW i \in 1 .. Len(r)
        PROVE  i \in 1 .. Len(q) \/ i = Len(r)
    BY <1>3
  <2>5. Len(r) \in 1 .. Len(r) /\ 1 .. Len(q) \subseteq 1 .. Len(r)
    BY <1>3
  <2> QED
    BY <1>3, <2>1, <2>2, <2>3, <2>4, <2>5
<1>7. \A v \in Units, k \in Jobs : v # u => (Queued(v, k)' <=> Queued(v, k))
  BY <1>2 DEF Queued
<1> HIDE DEF q, r
<1> QED
  BY <1>2, <1>3, <1>4, <1>5, <1>6, <1>7 DEF q

(* The unit whose turn it is has one job more.                             *)
LEMMA GiveKeeps ==
  ASSUME units \in 1 .. MaxUnits, NEW base \in Nat, Busy(base),
         Pyramid!Resample \/ Pyramid!Encode
  PROVE  Busy(base)'
<1>1. main.step # "split" /\ TilesTyped /\ OnceEach /\ PagesInv /\ Turns(base)
  BY DEF Busy
<1>2. PICK j \in Jobs :
            /\ Stage(j) = Now /\ j.row = Given
            /\ tileQueue' = [tileQueue EXCEPT ![index] = Append(@, Work(j, 0))]
            /\ index' = (index % units) + 1 /\ sync' = [task |-> Work(j, 0), state |-> "wait"]
            /\ UNCHANGED <<units, doing, raw, tile>>
            /\ Now' = Now /\ Given' = Given + 1
            /\ main'.step \in {"syncResample", "syncEncode"} => j.row = Pyramid!High[j.level] - 1
            /\ main' \in [step : {"resample", "syncResample", "encode", "syncEncode"},
                          level : 0 .. Pyramid!Levels, y : Nat]
            /\ main'.step \in {"resample", "syncResample"} => main'.level > 0
            /\ main'.step = "resample" => main'.y < Pyramid!High[main'.level] /\ IsEven(main'.y)
            /\ main'.step = "encode" => main'.y < Pyramid!High[main'.level]
  BY <1>1, GiveIs
<1>3. /\ index = Slot(base + Given) /\ index \in Units /\ Given \in Nat /\ Now \in Nat
      /\ base + Given \in Nat
  <2>1. Given \in Nat /\ Now \in Nat /\ index = Slot(base + Given)
    BY <1>1, MainIs DEF Turns
  <2>2. base + Given \in Nat
    BY <2>1
  <2>3. Slot(base + Given) \in Units
    BY <2>2, SlotsAre
  <2> QED
    BY <2>1, <2>2, <2>3
<1>4. /\ tileQueue' \in [Units -> Seq(Tasks)]
      /\ Len(tileQueue'[index]) = Len(tileQueue[index]) + 1 /\ Len(tileQueue[index]) \in Nat
      /\ tileQueue'[index] # <<>> /\ tileQueue'[index][Len(tileQueue'[index])] = Work(j, 0)
      /\ \A i \in 1 .. Len(tileQueue[index]) : tileQueue'[index][i] = tileQueue[index][i]
      /\ \A v \in Units : v # index => tileQueue'[v] = tileQueue[v]
      /\ \A v \in Units, k \in Jobs : Queued(v, k)' <=> Queued(v, k) \/ (v = index /\ k = j)
  BY <1>1, <1>2, <1>3, QueueGiven
<1>5. \A v \in Units, k \in Jobs, c \in Nat : Doing(v, k, c)' <=> Doing(v, k, c)
  BY <1>2 DEF Doing
(* Nobody had it. *)
<1>6. \A v \in Units : ~ Has(v, j)
  BY <1>1, <1>2, <1>3 DEF Turns, Fit
<1>7. TilesTyped'
  <2>1. index' \in 1 .. units' /\ sync' \in [task : Tasks \union {Pyramid!Idle},
                                 state : {"wait", "awaited", "running", "done", "failed"}]
    <3>1. Slot((base + Given) + 1) = index' /\ Slot((base + Given) + 1) \in 1 .. units
      <4>1. (base + Given) + 1 \in Nat
        BY <1>3
      <4> QED
        BY <1>2, <1>3, <4>1, SlotsAre
    <3>2. Work(j, 0) \in Tasks
      BY DEF Tasks
    <3> QED
      BY <1>2, <3>1, <3>2
  <2>2. /\ doing' \in [Units -> Works \union {Pyramid!Idle}]
        /\ DOMAIN raw' = Pyramid!AllPages /\ DOMAIN tile' = Pyramid!AllPages
    BY <1>1, <1>2 DEF TilesTyped
  <2>3. main' \in [step : {"split", "resample", "syncResample", "encode", "syncEncode", "done"},
                   level : 0 .. Pyramid!Levels, y : Nat]
        /\ main'.step \notin {"split", "done"}
    BY <1>2
  <2>4. IsEven(main.y)' <=> IsEven(main'.y)
    BY DEF IsEven
  <2> QED
    BY <1>2, <1>4, <2>1, <2>2, <2>3, <2>4 DEF TilesTyped
<1>8. OnceEach'
  <2>1. ASSUME NEW v \in Units
        PROVE  /\ \A i, k \in 1 .. Len(tileQueue'[v]) :
                      tileQueue'[v][i] = tileQueue'[v][k] => i = k
               /\ \A k \in Jobs, c \in Nat : Doing(v, k, c)' => ~ Queued(v, k)'
    <3>1. CASE v # index
      BY <1>1, <1>4, <1>5, <3>1 DEF OnceEach
    <3>2. CASE v = index
      <4> DEFINE n == Len(tileQueue[index])
                 r == tileQueue'[index]
      <4>1. \A i, k \in 1 .. n : r[i] = r[k] => i = k
        <5>1. \A i, k \in 1 .. n : tileQueue[index][i] = tileQueue[index][k] => i = k
          BY <1>1, <1>3 DEF OnceEach
        <5>2. \A i \in 1 .. n : r[i] = tileQueue[index][i]
          BY <1>4
        <5> HIDE DEF n, r
        <5> QED
          BY <5>1, <5>2
      <4>2. ASSUME NEW i \in 1 .. n, r[i] = Work(j, 0)
            PROVE  FALSE
        <5>1. tileQueue[index][i] = Work(j, 0)
          BY <1>4, <4>2
        <5>2. Queued(index, j)
          BY <5>1 DEF Queued
        <5> QED
          BY <1>3, <1>6, <5>2 DEF Has
      <4>3. \A i \in 1 .. Len(r) : i \in 1 .. n \/ i = Len(r)
        BY <1>4
      <4>4. r[Len(r)] = Work(j, 0)
        BY <1>4
      <4>5. \A k \in Jobs, c \in Nat : Doing(v, k, c)' => ~ Queued(v, k)'
        BY <1>1, <1>4, <1>5, <1>6 DEF OnceEach, Has
      <4> HIDE DEF n, r
      <4>6. \A i, k \in 1 .. Len(r) : r[i] = r[k] => i = k
        BY <4>1, <4>2, <4>3, <4>4
      <4> QED
        BY <3>2, <4>5, <4>6 DEF r
    <3> QED
      BY <3>1, <3>2
  <2> QED
    BY <2>1 DEF OnceEach
<1>9. PagesInv'
  <2>1. ASSUME NEW k \in Jobs, NEW x \in 0 .. Pyramid!Wide[k.level] - 1
        PROVE  Over(k, x)' <=> Over(k, x)
    <3>1. k.row \in Nat /\ Stage(k) \in Nat
      BY JobsAre, StagesAre
    <3>2. CASE k = j
      <4> PICK v \in Units : v = index
        BY <1>3
      <4>1. Queued(v, j)'
        BY <1>4
      <4>2. ~ Over(j, x)
        BY <1>2, <1>3 DEF Over
      <4>3. Ahead(v, j, x)' /\ ~ (Stage(j) < Now)
        BY <1>2, <1>3, <4>1 DEF Ahead
      <4>4. ~ Over(j, x)'
        BY <1>2, <1>3, <4>3 DEF Over
      <4> QED
        BY <3>2, <4>2, <4>4
    <3>3. CASE k # j
      <4>1. Stage(k) = Now => k.row # Given
        <5> SUFFICES ASSUME Stage(k) = Now, k.row = Given PROVE FALSE
          OBVIOUS
        <5>1. k.kind = j.kind /\ k.level = j.level /\ k.row = j.row
          BY <1>2, StagesAre
        <5> QED
          BY <3>3, <5>1, JobsAre
      <4>2. k.row < Given + 1 <=> k.row < Given \/ k.row = Given
        BY <1>3, <3>1
      <4>3. \A v \in Units : Ahead(v, k, x)' <=> Ahead(v, k, x)
        <5>1. 0 .. x \subseteq Nat
          OBVIOUS
        <5> QED
          BY <1>4, <1>5, <3>3, <5>1 DEF Ahead
      <4> QED
        BY <1>2, <4>1, <4>2, <4>3 DEF Over
    <3> QED
      BY <3>2, <3>3
  <2> QED
    BY <1>1, <1>2, <2>1, PagesStay
<1>10. Turns(base)'
  <2>1. \A n \in Nat : Slot(n)' = Slot(n)
    BY <1>2 DEF Slot
  <2>2. index' = Slot(base + Given)'
    <3>1. (base + Given) + 1 \in Nat /\ (base + Given)' = (base + Given) + 1
      BY <1>2, <1>3
    <3>2. Slot((base + Given) + 1) = index'
      BY <1>2, <1>3, SlotsAre
    <3> QED
      BY <1>2, <3>1, <3>2 DEF Slot
  <2>3. ASSUME NEW v \in Units, NEW k \in Jobs, Has(v, k)'
        PROVE  Fit(k, v, base)'
    <3>1. base + k.row \in Nat /\ k.row \in Nat
      BY JobsAre
    <3>2. Has(v, k) \/ (v = index /\ k = j)
      BY <1>4, <1>5, <2>3 DEF Has
    <3>3. CASE Has(v, k)
      <4>1. Fit(k, v, base)
        BY <1>1, <3>3 DEF Turns
      <4> QED
        BY <1>2, <1>3, <2>1, <3>1, <4>1 DEF Fit
    <3>4. CASE v = index /\ k = j
      BY <1>2, <1>3, <2>1, <3>1, <3>4 DEF Fit
    <3> QED
      BY <3>2, <3>3, <3>4
  <2>4. LastIs(base)'
    <3> SUFFICES ASSUME main'.step \in {"syncResample", "syncEncode"}
                 PROVE  LastIs(base)'
      BY DEF LastIs
    <3>1. Slot(base + j.row)' = index
      BY <1>2, <1>3, <2>1
    <3>2. j.row = Pyramid!High[j.level] - 1 /\ sync'.task = Work(j, 0) /\ sync'.state = "wait"
      BY <1>2
    <3> QED
      BY <1>2, <1>4, <3>1, <3>2 DEF LastIs
  <2> QED
    BY <2>2, <2>3, <2>4 DEF Turns
<1>11. main'.step # "split"
  BY <1>2
<1> QED
  BY <1>7, <1>8, <1>9, <1>10, <1>11 DEF Busy

(* The last row is done: the jobs that are over in time are over.          *)
LEMMA InTime ==
  ASSUME units \in 1 .. MaxUnits, NEW base \in Nat, Busy(base),
         main.step \in {"syncResample", "syncEncode"}, sync.state = "done",
         NEW j \in Jobs, Stage(j) <= Now, Pyramid!OnTime(units, j.level, j.row)
  PROVE  /\ \A u \in Units : ~ Has(u, j)
         /\ \A x \in Nat : Over(j, x)
<1>1. TilesTyped /\ Turns(base) /\ LastIs(base) /\ units \in Nat \ {0}
  BY UiAssumption DEF Busy, Turns, SizesAreNumbers
<1>2. Now \in Nat /\ Given \in Nat /\ Stage(j) \in Nat
  BY <1>1, MainIs, StagesAre
<1>3. PICK l \in Jobs :
          /\ Stage(l) = Now /\ l.row = Pyramid!High[l.level] - 1 /\ sync.task = Work(l, 0)
          /\ LET v == Slot(base + l.row)
                 q == tileQueue[v]
             IN  /\ q # <<>> => q[Len(q)] = Work(l, 0) /\ sync.state \in {"wait", "awaited"}
                 /\ q = <<>> /\ doing[v] # Pyramid!Idle =>
                        (\E c \in Nat : Doing(v, l, c)) /\ sync.state \in {"running", "awaited"}
                 /\ q = <<>> /\ doing[v] = Pyramid!Idle => sync.state \in {"done", "failed"}
  BY <1>1 DEF LastIs
<1> DEFINE v == Slot(base + l.row)
(* Its unit has nothing to do any more. *)
<1>4. ASSUME NEW k \in Jobs
      PROVE  ~ Has(v, k)
  <2>1. tileQueue[v] = <<>> /\ doing[v] = Pyramid!Idle
    BY <1>3
  <2>2. Len(tileQueue[v]) = 0
    BY <2>1
  <2> HIDE DEF v
  <2>3. ~ Queued(v, k)
    BY <2>2 DEF Queued
  <2>4. \A c \in Nat : ~ Doing(v, k, c)
    BY <2>1, WorkIs DEF Doing
  <2> QED
    BY <2>3, <2>4 DEF Has
<1>5. ASSUME NEW u \in Units
      PROVE  ~ Has(u, j)
  <2> SUFFICES ASSUME Has(u, j) PROVE FALSE
    OBVIOUS
  <2>1. Fit(j, u, base)
    BY <1>1 DEF Turns
  <2>2. Stage(j) = Now /\ u = Slot(base + j.row)
    BY <1>2, <2>1 DEF Fit
  <2>3. j.level = l.level
    BY <1>3, <2>2, StagesAre
  <2> DEFINE d == Pyramid!High[j.level] - 1 - j.row
  <2>4. /\ d \in Nat /\ base + j.row \in Nat /\ (base + j.row) + d = base + l.row
        /\ d % units = 0
    <3>1. d % units = 0
      BY DEF Pyramid!OnTime
    <3>2. /\ Pyramid!High[j.level] \in Nat /\ j.row \in Nat /\ j.row < Pyramid!High[j.level]
          /\ l.row = Pyramid!High[j.level] - 1
      BY <1>3, <2>3, JobsAre
    <3>3. d \in Nat /\ base + j.row \in Nat /\ (base + j.row) + d = base + l.row
      BY <3>2
    <3> QED
      BY <3>1, <3>3
  <2>5. Slot((base + j.row) + d) = Slot(base + j.row)
    <3> HIDE DEF d
    <3> QED
      BY <2>4, SlotsAre
  <2> HIDE DEF d
  <2> QED
    BY <1>4, <2>2, <2>4, <2>5
(* The whole level was given to the pool. *)
<1>6. Stage(j) = Now => j.row < Given
  <2> SUFFICES ASSUME Stage(j) = Now PROVE j.row < Given
    OBVIOUS
  <2>1. main.level \in 0 .. Pyramid!Levels
    BY <1>1 DEF TilesTyped
  <2>2. CASE main.step = "syncResample"
    <3>1. Now < Pyramid!Levels /\ j.kind = "resample"
      BY <1>1, <2>2, MainIs, StagesAre
    <3>2. j.level = main.level - 1
      BY <2>1, <2>2, <3>1, JobsAre DEF Stage, Now
    <3> QED
      BY <2>2, <3>2, JobsAre DEF Given
  <2>3. CASE main.step = "syncEncode"
    <3>1. Now >= Pyramid!Levels /\ j.kind = "encode"
      BY <1>1, <1>2, <2>3, MainIs, StagesAre, JobsAre
    <3>2. j.level = main.level
      BY <2>1, <2>3, <3>1, JobsAre DEF Stage, Now
    <3> QED
      BY <2>3, <3>2, JobsAre DEF Given
  <2> QED
    BY <2>2, <2>3
<1>7. ASSUME NEW x \in Nat
      PROVE  Over(j, x)
  <2>1. \A u \in Units : ~ Ahead(u, j, x)
    <3>1. 0 .. x \subseteq Nat
      OBVIOUS
    <3> QED
      BY <1>5, <3>1 DEF Has, Ahead
  <2> QED
    BY <1>2, <1>6, <2>1 DEF Over
<1> QED
  BY <1>5, <1>7

(* The last row of the level is done: the next stage begins.               *)
LEMMA SyncIs ==
  ASSUME units \in 1 .. MaxUnits, TilesTyped, Pyramid!Sync, sync.state = "done"
  PROVE  /\ main.step \in {"syncResample", "syncEncode"}
         /\ UNCHANGED <<units, index, tileQueue, doing, raw, tile, sync>>
         /\ Now' = Now + 1 /\ Given' = 0
         /\ main' \in [step : {"resample", "encode", "done"}, level : 0 .. Pyramid!Levels, y : {0}]
         /\ main'.step = "resample" => main'.level > 0
<1>1. /\ main.level \in 0 .. Pyramid!Levels /\ Pyramid!Levels \in Nat
      /\ main.step \in {"resample", "syncResample"} => main.level > 0
  BY LevelsHalve DEF TilesTyped
<1>2. /\ main.step \in {"syncResample", "syncEncode"}
      /\ UNCHANGED <<units, index, tileQueue, doing, raw, tile, sync>>
      /\ main' = IF main.level > 1 \/ (main.level = 1 /\ main.step = "syncEncode")
                 THEN [step |-> IF main.step = "syncEncode" THEN "encode" ELSE "resample",
                       level |-> main.level - 1, y |-> 0]
                 ELSE IF main.step = "syncResample"
                 THEN [step |-> "encode", level |-> Pyramid!Levels, y |-> 0]
                 ELSE [step |-> "done", level |-> 0, y |-> 0]
  BY DEF Pyramid!Sync, Pyramid!At, Pyramid!pool, Pyramid!files
<1>3. CASE main.step = "syncResample" /\ main.level > 1
  <2>1. main' = [step |-> "resample", level |-> main.level - 1, y |-> 0]
    BY <1>2, <1>3
  <2>2. Given' = 0
    <3>1. Given' = 0 \div 2
      BY <2>1 DEF Given
    <3> QED
      BY <3>1
  <2> QED
    BY <1>1, <1>2, <1>3, <2>1, <2>2 DEF Now
<1>4. CASE main.step = "syncEncode" /\ main.level > 0
  <2>1. main' = [step |-> "encode", level |-> main.level - 1, y |-> 0]
    BY <1>1, <1>2, <1>4
  <2> QED
    BY <1>1, <1>2, <1>4, <2>1 DEF Now, Given
<1>5. CASE main.step = "syncResample" /\ main.level = 1
  <2>1. main' = [step |-> "encode", level |-> Pyramid!Levels, y |-> 0]
    BY <1>2, <1>5
  <2> QED
    BY <1>1, <1>2, <1>5, <2>1 DEF Now, Given
<1>6. CASE main.step = "syncEncode" /\ main.level = 0
  <2>1. main' = [step |-> "done", level |-> 0, y |-> 0]
    BY <1>2, <1>6
  <2> QED
    BY <1>1, <1>2, <1>6, <2>1 DEF Now, Given
<1> QED
  BY <1>1, <1>2, <1>3, <1>4, <1>5, <1>6

(* The pages are as the next stage needs them.                             *)
LEMMA SyncPages ==
  ASSUME units \in 1 .. MaxUnits, NEW base \in Nat, Busy(base),
         Pyramid!Sync, sync.state = "done"
  PROVE  PagesInv'
<1>1. TilesTyped /\ PagesInv /\ units \in Nat \ {0}
  BY UiAssumption DEF Busy, SizesAreNumbers
<1>2. /\ main.step \in {"syncResample", "syncEncode"}
      /\ UNCHANGED <<units, raw, tile>> /\ Now' = Now + 1 /\ Given' = 0
  BY <1>1, SyncIs
<1>3. Now \in Nat /\ Pyramid!Levels \in Nat
  BY <1>1, MainIs, LevelsHalve
<1>4. ASSUME NEW j \in Jobs, NEW x \in 0 .. Pyramid!Wide[j.level] - 1,
             j.row \in Pyramid!Sound(units)[j.level]
      PROVE  /\ RightMade(j, <<x, j.row, j.level>>, Over(j, x))'
             /\ RightTiled(j, <<x, j.row, j.level>>, Over(j, x))'
  <2> DEFINE p == <<x, j.row, j.level>>
  <2>1. /\ x \in Nat /\ j.row \in Nat /\ j.level \in 0 .. Pyramid!Levels
        /\ Stage(j) \in Nat /\ j.row < Pyramid!High[j.level]
        /\ Stage(j) < Pyramid!Levels <=> j.kind = "resample"
        /\ j.kind = "resample" => j.level < Pyramid!Levels
        /\ j.kind \in {"resample", "encode"}
    BY JobsAre, StagesAre
  <2>2. RightMade(j, p, Over(j, x)) /\ RightTiled(j, p, Over(j, x))
    BY <1>1, <1>4 DEF PagesInv
  <2>3. Over(j, x)' <=> Stage(j) <= Now
    <3>1. Over(j, x)' => Stage(j) < Now + 1
      BY <1>2, <2>1 DEF Over
    <3>2. Stage(j) < Now + 1 => Over(j, x)'
      BY <1>2 DEF Over
    <3> QED
      BY <1>3, <2>1, <3>1, <3>2
  <2>4. Stage(j) <= Now /\ Pyramid!OnTime(units, j.level, j.row) => Over(j, x)
    BY <1>2, <2>1, InTime
  <2>5. Over(j, x) => Stage(j) <= Now
    BY <1>3, <2>1 DEF Over
  <2>6. j.level < Pyramid!Levels => Pyramid!OnTime(units, j.level, j.row)
    BY <1>1, <1>4, <2>1, SoundIs
  <2> HIDE DEF p
  <2>7. RightMade(j, p, Over(j, x))'
    <3> SUFFICES ASSUME Now + 1 < Pyramid!Levels,
                        IF j.kind = "resample" THEN Over(j, x)' ELSE j.level = Pyramid!Levels
                 PROVE  raw[p] = "right"
      BY <1>2 DEF RightMade, p
    <3>1. Now < Pyramid!Levels
      BY <1>3
    <3>2. j.kind = "resample" => Over(j, x)
      BY <2>1, <2>3, <2>4, <2>6
    <3> QED
      BY <2>2, <3>1, <3>2 DEF RightMade
  <2>8. RightTiled(j, p, Over(j, x))'
    <3> SUFFICES ASSUME Now + 1 >= Pyramid!Levels, j.kind = "encode",
                        Pyramid!OnTime(units, j.level, j.row)
                 PROVE  IF Over(j, x)' THEN tile[p] = "right" /\ raw[p] = "none"
                                       ELSE raw[p] = "right"
      BY <1>2 DEF RightTiled, p
    <3>1. CASE Now >= Pyramid!Levels
      <4>1. Over(j, x)' <=> Over(j, x)
        BY <2>3, <2>4, <2>5
      <4> QED
        BY <2>2, <3>1, <4>1 DEF RightTiled
    <3>2. CASE Now < Pyramid!Levels
      <4>1. ~ Over(j, x)'
        BY <1>3, <2>1, <2>3, <3>2
      <4>2. CASE j.level = Pyramid!Levels
        BY <2>2, <3>2, <4>1, <4>2 DEF RightMade
      <4>3. CASE j.level # Pyramid!Levels
        <5> DEFINE k == [kind |-> "resample", level |-> j.level, row |-> j.row]
        <5>1. k \in Jobs /\ k.level = j.level /\ k.row = j.row /\ k.kind = "resample"
          BY <2>1, <4>3, <1>3 DEF Jobs
        <5> HIDE DEF k
        <5>2. Stage(k) < Pyramid!Levels
          BY <5>1, StagesAre
        <5>3. Stage(k) <= Now
          BY <1>3, <3>2, <5>1, <5>2, StagesAre
        <5>4. Over(k, x)
          BY <1>2, <2>1, <5>1, <5>3, InTime
        <5>5. RightMade(k, p, Over(k, x))
          BY <1>1, <1>4, <5>1 DEF PagesInv, p
        <5> QED
          BY <3>2, <4>1, <5>1, <5>4, <5>5 DEF RightMade
      <4> QED
        BY <4>2, <4>3
    <3> QED
      BY <1>3, <3>1, <3>2
  <2> QED
    BY <2>7, <2>8 DEF p
<1>5. units' = units
  BY <1>2
<1> QED
  BY <1>4, <1>5, Zenon DEF PagesInv

LEMMA SyncKeeps ==
  ASSUME units \in 1 .. MaxUnits, NEW base \in Nat, Busy(base),
         Pyramid!Sync, sync.state = "done"
  PROVE  \E b \in Nat : Busy(b)'
<1>1. TilesTyped /\ OnceEach /\ PagesInv /\ Turns(base) /\ units \in Nat \ {0}
  BY UiAssumption DEF Busy, SizesAreNumbers
<1>2. /\ main.step \in {"syncResample", "syncEncode"}
      /\ UNCHANGED <<units, index, tileQueue, doing, raw, tile, sync>>
      /\ Now' = Now + 1 /\ Given' = 0
      /\ main' \in [step : {"resample", "encode", "done"}, level : 0 .. Pyramid!Levels, y : {0}]
      /\ main'.step = "resample" => main'.level > 0
  BY <1>1, SyncIs
<1>3. index \in 1 .. units /\ Now \in Nat
  BY <1>1, MainIs DEF TilesTyped
<1> PICK b \in Nat : b = index - 1 /\ b + 1 = index /\ b < units
  BY <1>1, <1>3
<1>4. TilesTyped'
  <2>1. main'.level \in 0 .. Pyramid!Levels /\ main'.y = 0 /\ Pyramid!High[main'.level] > 0
        /\ main'.step \in {"resample", "encode", "done"}
    BY <1>2, LevelsHalve
  <2>2. IsEven(main'.y)
    BY <2>1 DEF IsEven
  <2>3. IsEven(main.y)' <=> IsEven(main'.y)
    BY DEF IsEven
  <2>4. main' \in [step : {"split", "resample", "syncResample", "encode", "syncEncode", "done"},
                   level : 0 .. Pyramid!Levels, y : Nat]
    BY <1>2
  <2> QED
    BY <1>1, <1>2, <2>1, <2>2, <2>3, <2>4 DEF TilesTyped
<1>5. OnceEach'
  BY <1>1, <1>2 DEF OnceEach, Queued, Doing
<1>6. PagesInv'
  BY <1>2, SyncPages
<1>7. Turns(b)'
  <2>1. index' = Slot(b + Given)'
    <3>1. Slot(b) = b + 1 /\ Slot(b)' = Slot(b)
      <4>1. Slot(b) = b + 1
        BY SlotsAre
      <4> QED
        BY <1>2, <4>1 DEF Slot
    <3>2. (b + Given)' = b
      BY <1>2
    <3> QED
      BY <1>2, <3>1, <3>2 DEF Slot
  <2>2. ASSUME NEW u \in Units, NEW j \in Jobs, Has(u, j)'
        PROVE  Fit(j, u, b)'
    <3>1. Has(u, j)
      BY <1>2, <2>2 DEF Has, Queued, Doing
    <3>2. Fit(j, u, base)
      BY <1>1, <3>1 DEF Turns
    <3>3. Stage(j) <= Now /\ Stage(j) \in Nat
      BY <3>2, StagesAre DEF Fit
    <3>4. ~ Pyramid!OnTime(units, j.level, j.row)
      BY <1>2, <3>1, <3>3, InTime
    <3> QED
      BY <1>2, <1>3, <3>3, <3>4 DEF Fit
  <2>3. LastIs(b)'
    BY <1>2 DEF LastIs
  <2> QED
    BY <2>1, <2>2, <2>3 DEF Turns
<1>8. main'.step # "split"
  BY <1>2
<1> QED
  BY <1>4, <1>5, <1>6, <1>7, <1>8 DEF Busy

(* The image is split in pages: the first stage begins.                    *)
LEMMA SplitKeeps ==
  ASSUME units \in 1 .. MaxUnits, AtRest, Pyramid!Split
  PROVE  \E base \in Nat : Busy(base)'
<1>1. /\ TilesTyped /\ index = 1 /\ units \in Nat \ {0}
      /\ \A u \in Units : tileQueue[u] = <<>> /\ doing[u] = Pyramid!Idle
  BY UiAssumption DEF AtRest, SizesAreNumbers
<1> DEFINE L == Pyramid!Levels
<1>2. /\ raw' = [p \in Pyramid!AllPages |-> IF p[3] = L THEN "right" ELSE raw[p]]
      /\ main' = [step |-> IF L = 0 THEN "encode" ELSE "resample", level |-> L, y |-> 0]
      /\ UNCHANGED <<units, index, tileQueue, doing, tile, sync>>
  BY DEF Pyramid!Split, Pyramid!At, Pyramid!pool
<1>3. L \in Nat /\ L \in 0 .. L /\ Pyramid!High[L] \in Nat \ {0}
  <2>1. L \in Nat /\ L \in 0 .. L
    BY LevelsHalve
  <2> QED
    BY <2>1, LevelsHalve
<1>4. TilesTyped'
  <2>1. IsEven(main.y)'
    BY <1>2 DEF IsEven
  <2>2. /\ main' \in [step : {"split", "resample", "syncResample", "encode", "syncEncode", "done"},
                      level : 0 .. L, y : Nat]
        /\ main'.step \in {"encode", "resample"} /\ main'.level = L /\ main'.y = 0
        /\ main'.step = "resample" => L > 0
    BY <1>2, <1>3
  <2> QED
    BY <1>1, <1>2, <1>3, <2>1, <2>2 DEF TilesTyped
<1>5. \A u \in Units, j \in Jobs : ~ Has(u, j)'
  <2> SUFFICES ASSUME NEW u \in Units, NEW j \in Jobs
               PROVE  ~ Has(u, j)'
    OBVIOUS
  <2>1. tileQueue'[u] = <<>> /\ doing'[u] = Pyramid!Idle
    BY <1>1, <1>2
  <2>2. Len(tileQueue'[u]) = 0
    BY <2>1
  <2> QED
    BY <2>1, <2>2, WorkIs DEF Has, Queued, Doing
<1>6. OnceEach'
  <2>1. \A u \in Units : Len(tileQueue'[u]) = 0
    BY <1>1, <1>2
  <2> QED
    BY <1>5, <2>1 DEF OnceEach, Has
<1>7. Given' = 0 /\ Now' = 0
  <2>1. main'.step = IF L = 0 THEN "encode" ELSE "resample"
    BY <1>2
  <2>2. main'.level = L /\ main'.y = 0
    BY <1>2
  <2>3. 0 \div 2 = 0
    OBVIOUS
  <2> QED
    BY <1>3, <2>1, <2>2, <2>3 DEF Given, Now
<1>8. PagesInv'
  <2>1. ASSUME NEW j \in Jobs, NEW x \in 0 .. Pyramid!Wide[j.level] - 1
        PROVE  /\ RightMade(j, <<x, j.row, j.level>>, Over(j, x))'
               /\ RightTiled(j, <<x, j.row, j.level>>, Over(j, x))'
    <3> DEFINE p == <<x, j.row, j.level>>
    <3>1. /\ j.row \in 0 .. Pyramid!High[j.level] - 1 /\ j.level \in 0 .. L
          /\ j.row \in Nat /\ Stage(j) \in Nat
      BY JobsAre, StagesAre
    <3>2. p \in Pyramid!AllPages /\ p[3] = j.level
      BY <3>1, PagesAre
    <3>3. ~ Over(j, x)'
      BY <1>7, <3>1 DEF Over
    <3>4. j.level = L => raw'[p] = "right"
      <4> HIDE DEF p
      <4> QED
        BY <1>2, <3>2
    <3> HIDE DEF p
    <3>5. RightMade(j, p, Over(j, x))'
      BY <3>3, <3>4 DEF RightMade, p
    <3>6. RightTiled(j, p, Over(j, x))'
      <4>1. 0 >= L => j.level = L
        BY <1>3, <3>1
      <4> QED
        BY <1>7, <3>3, <3>4, <4>1 DEF RightTiled, p
    <3> QED
      BY <3>5, <3>6 DEF p
  <2>2. units' = units
    BY <1>2
  <2> QED
    BY <2>1, <2>2, Zenon DEF PagesInv
<1>9. Turns(0)'
  <2>1. index' = Slot(0 + Given)'
    <3>1. Slot(0) = 1
      BY <1>1, SlotsAre
    <3> QED
      BY <1>1, <1>2, <1>7, <3>1 DEF Slot
  <2>2. LastIs(0)'
    BY <1>2 DEF LastIs
  <2> QED
    BY <1>5, <2>1, <2>2 DEF Turns
<1>10. main'.step # "split"
  BY <1>2
<1> QED
  BY <1>4, <1>6, <1>8, <1>9, <1>10 DEF Busy

(* Before it nobody does anything.                                         *)
LEMMA NobodyBegins ==
  ASSUME AtRest, NEW u \in Units
  PROVE  ~ Pyramid!Unit(u) /\ ~ Pyramid!Drop(u)
<1>1. tileQueue[u] = <<>> /\ doing[u] = Pyramid!Idle /\ main.step = "split"
  BY DEF AtRest
<1> QED
  BY <1>1 DEF Pyramid!Unit, Pyramid!Start, Pyramid!ResamplePage, Pyramid!EncodePage,
              Pyramid!RowEnds, Pyramid!Drop, Pyramid!Idle

(* What a unit does leaves make_tile where it is.                          *)
LEMMA UnitsLeave ==
  ASSUME NEW u \in Units, Pyramid!Unit(u) \/ Pyramid!Drop(u)
  PROVE  UNCHANGED <<units, main>>
  BY DEF Pyramid!Unit, Pyramid!Start, Pyramid!ResamplePage, Pyramid!EncodePage,
         Pyramid!RowEnds, Pyramid!Drop, Pyramid!Forward, Pyramid!End

(* A step of make_tile or of a unit.                                       *)
LEMMA TilesStep ==
  ASSUME TilesInv, [Pyramid!Next]_tileVars
  PROVE  TilesInv'
<1>1. units \in 1 .. MaxUnits
  BY DEF TilesInv
<1>2. \/ Pyramid!Split \/ Pyramid!Resample \/ Pyramid!Encode \/ Pyramid!Sync \/ Pyramid!Sleep
      \/ \E u \in Units : Pyramid!Unit(u) \/ Pyramid!Drop(u)
      \/ UNCHANGED tileVars
  BY DEF Pyramid!Next, Pyramid!Make, Units
<1>3. units' = units
  <2>1. CASE UNCHANGED tileVars
    BY <2>1 DEF tileVars
  <2>2. CASE Pyramid!Split \/ Pyramid!Resample \/ Pyramid!Encode \/ Pyramid!Sync \/ Pyramid!Sleep
    BY <2>2 DEF Pyramid!Split, Pyramid!Resample, Pyramid!Encode, Pyramid!Sync, Pyramid!Sleep,
                Pyramid!Async, Pyramid!pool
  <2> QED
    BY <1>2, <2>1, <2>2, UnitsLeave
<1>4. CASE main.step = "threw"
  <2>1. ~ (Pyramid!Split \/ Pyramid!Resample \/ Pyramid!Encode \/ Pyramid!Sync \/ Pyramid!Sleep)
    BY <1>4 DEF Pyramid!Split, Pyramid!Resample, Pyramid!Encode, Pyramid!Sync, Pyramid!Sleep
  <2>2. main' = main
    BY <1>2, <2>1, UnitsLeave DEF tileVars
  <2> QED
    BY <1>1, <1>3, <1>4, <2>2 DEF TilesInv
<1>5. CASE AtRest
  <2>1. main.step = "split"
    BY <1>5 DEF AtRest
  <2>2. CASE Pyramid!Split
    BY <1>1, <1>3, <1>5, <2>2, SplitKeeps DEF TilesInv
  <2>3. CASE UNCHANGED tileVars
    <3>1. AtRest'
      <4>1. UNCHANGED <<units, index, main, tileQueue, doing, raw, tile, sync>>
        BY <2>3 DEF tileVars
      <4>2. TilesTyped'
        BY <1>5, <4>1 DEF AtRest, TilesTyped, IsEven
      <4> QED
        BY <1>5, <4>1, <4>2 DEF AtRest
    <3> QED
      BY <1>1, <1>3, <3>1 DEF TilesInv
  <2>4. ~ (Pyramid!Resample \/ Pyramid!Encode \/ Pyramid!Sync \/ Pyramid!Sleep)
    BY <2>1 DEF Pyramid!Resample, Pyramid!Encode, Pyramid!Sync, Pyramid!Sleep
  <2> QED
    BY <1>2, <1>5, <2>2, <2>3, <2>4, NobodyBegins
<1>6. ASSUME NEW base \in Nat, Busy(base)
      PROVE  main'.step = "threw" \/ \E b \in Nat : Busy(b)'
  <2>1. main.step # "split" /\ TilesTyped
    BY <1>6 DEF Busy
  <2>2. ~ Pyramid!Split
    BY <2>1 DEF Pyramid!Split
  <2>3. CASE Pyramid!Resample \/ Pyramid!Encode
    BY <1>1, <1>6, <2>3, GiveKeeps
  <2>4. CASE Pyramid!Sync
    <3>1. sync.state \in {"running", "failed", "done"}
      BY <2>1, <2>4 DEF Pyramid!Sync, TilesTyped
    <3>2. CASE sync.state = "done"
      BY <1>1, <1>6, <2>4, <3>2, SyncKeeps
    <3>3. CASE sync.state # "done"
      BY <2>4, <3>1, <3>3 DEF Pyramid!Sync, Pyramid!At
    <3> QED
      BY <3>2, <3>3
  <2>5. CASE Pyramid!Sleep
    <3>1. /\ UNCHANGED <<units, index, tileQueue, doing, raw, tile, main>>
          /\ sync.state = "wait" /\ sync' = [sync EXCEPT !.state = "awaited"]
      BY <2>5 DEF Pyramid!Sleep, Pyramid!pool, Pyramid!files
    <3> QED
      BY <1>1, <1>6, <3>1, StillKeeps
  <2>6. CASE UNCHANGED tileVars
    <3>1. /\ UNCHANGED <<units, index, tileQueue, doing, raw, tile, main>>
          /\ sync' = sync
      BY <2>6 DEF tileVars
    <3> QED
      BY <1>1, <1>6, <3>1, StillKeeps
  <2>7. ASSUME NEW u \in Units, Pyramid!Unit(u) \/ Pyramid!Drop(u)
        PROVE  \E b \in Nat : Busy(b)'
    <3>1. CASE Pyramid!Start(u)
      BY <1>1, <1>6, <3>1, StartKeeps
    <3>2. CASE Pyramid!ResamplePage(u)
      BY <1>1, <1>6, <3>2, ResampleKeeps
    <3>3. CASE Pyramid!EncodePage(u)
      BY <1>1, <1>6, <3>3, EncodeKeeps
    <3>4. CASE Pyramid!RowEnds(u)
      BY <1>1, <1>6, <3>4, RowEndsKeeps
    <3>5. CASE Pyramid!Drop(u)
      BY <1>1, <1>6, <3>5, DropKeeps
    <3> QED
      BY <2>7, <3>1, <3>2, <3>3, <3>4, <3>5 DEF Pyramid!Unit
  <2> QED
    BY <1>2, <2>2, <2>3, <2>4, <2>5, <2>6, <2>7
<1>7. CASE \E base \in Nat : Busy(base)
  <2>1. main'.step = "threw" \/ \E b \in Nat : Busy(b)'
    BY <1>6, <1>7
  <2> QED
    BY <1>1, <1>3, <2>1 DEF TilesInv
<1> QED
  BY <1>4, <1>5, <1>7 DEF TilesInv

(* Nothing was begun.                                                      *)
LEMMA TilesBegin ==
  ASSUME Pyramid!Init
  PROVE  TilesInv
<1>1. /\ units \in 1 .. MaxUnits /\ index = 1
      /\ tileQueue = [u \in 1 .. MaxUnits |-> <<>>]
      /\ doing = [u \in 1 .. MaxUnits |-> Pyramid!Idle]
      /\ raw = [p \in Pyramid!AllPages |-> "none"]
      /\ tile = [p \in Pyramid!AllPages |-> "none"]
      /\ main = [step |-> "split", level |-> Pyramid!Levels, y |-> 0]
      /\ sync = [task |-> Pyramid!Idle, state |-> "done"]
  BY DEF Pyramid!Init, Pyramid!At
<1>2. Pyramid!Levels \in 0 .. Pyramid!Levels /\ 1 \in 1 .. units
  BY <1>1, LevelsHalve, UiAssumption DEF SizesAreNumbers
<1>3. TilesTyped
  <2>1. tileQueue \in [Units -> Seq(Tasks)]
    BY <1>1 DEF Units
  <2>2. doing \in [Units -> Works \union {Pyramid!Idle}]
    BY <1>1 DEF Units
  <2>3. sync \in [task : Tasks \union {Pyramid!Idle},
                  state : {"wait", "awaited", "running", "done", "failed"}]
    BY <1>1
  <2> QED
    BY <1>1, <1>2, <2>1, <2>2, <2>3 DEF TilesTyped
<1>4. AtRest
  BY <1>1, <1>3 DEF AtRest, Units
<1> QED
  BY <1>1, <1>4 DEF TilesInv

(* It says what is required.                                               *)
LEMMA TilesWhole ==
  ASSUME TilesInv
  PROVE  PagesRight
<1> SUFFICES ASSUME main.step = "done"
             PROVE  /\ \A p \in Pyramid!AllPages :
                           units = 1 \/ (Pyramid!OnTime(units, p[3], p[2])
                                         /\ p[2] \in Pyramid!Sound(units)[p[3]])
                               => tile[p] = "right" /\ raw[p] = "none"
                    /\ Pyramid!Pages(0) = {<<0, 0, 0>>}
  BY DEF PagesRight, Pyramid!PyramidWhole
<1>1. PICK base \in Nat : Busy(base)
  BY DEF TilesInv, AtRest
<1>2. TilesTyped /\ PagesInv /\ units \in Nat \ {0}
  BY <1>1, UiAssumption DEF TilesInv, Busy, SizesAreNumbers
<1>3. ASSUME NEW p \in Pyramid!AllPages,
             units = 1 \/ (Pyramid!OnTime(units, p[3], p[2])
                           /\ p[2] \in Pyramid!Sound(units)[p[3]])
      PROVE  tile[p] = "right" /\ raw[p] = "none"
  <2>1. /\ p = <<p[1], p[2], p[3]>> /\ p[3] \in 0 .. Pyramid!Levels
        /\ p[1] \in 0 .. Pyramid!Wide[p[3]] - 1 /\ p[2] \in 0 .. Pyramid!High[p[3]] - 1
        /\ p[2] \in Nat /\ Pyramid!High[p[3]] \in Nat
    BY PagesAre
  <2>2. Pyramid!OnTime(units, p[3], p[2]) /\ p[2] \in Pyramid!Sound(units)[p[3]]
    <3>1. CASE units = 1
      <4>1. p[2] \in Pyramid!Sound(1)[p[3]]
        BY <2>1, SoundIs
      <4> DEFINE m == Pyramid!High[p[3]] - 1 - p[2]
      <4>2. m \in Nat
        BY <2>1
      <4>3. m % 1 = 0
        <5> HIDE DEF m
        <5> QED
          BY <4>2
      <4> QED
        BY <3>1, <4>1, <4>3 DEF Pyramid!OnTime
    <3>2. CASE units # 1
      BY <1>3, <3>2
    <3> QED
      BY <3>1, <3>2
  <2> DEFINE j == [kind |-> "encode", level |-> p[3], row |-> p[2]]
  <2>3. j \in Jobs /\ j.kind = "encode" /\ j.level = p[3] /\ j.row = p[2]
    BY <2>1 DEF Jobs
  <2> HIDE DEF j
  <2>4. Now = 2 * Pyramid!Levels + 1 /\ Now >= Pyramid!Levels
    BY <1>2, MainIs
  <2>5. Over(j, p[1])
    <3>1. Stage(j) < Now
      BY <2>3, <2>4, StagesAre, JobsAre
    <3> QED
      BY <3>1 DEF Over
  <2>6. RightTiled(j, <<p[1], j.row, j.level>>, Over(j, p[1]))
    BY <1>2, <2>1, <2>2, <2>3 DEF PagesInv
  <2>7. RightTiled(j, p, Over(j, p[1]))
    BY <2>1, <2>3, <2>6
  <2> QED
    BY <2>2, <2>3, <2>4, <2>5, <2>7 DEF RightTiled
<1>4. Pyramid!Pages(0) = {<<0, 0, 0>>}
  <2>1. Pyramid!Wide[0] = 1 /\ Pyramid!High[0] = 1 /\ 0 .. 1 - 1 = {0}
    BY LevelsHalve
  <2> QED
    BY <2>1 DEF Pyramid!Pages
<1> QED
  BY <1>3, <1>4

(* make_tile with a pool of any number of units: when it has returned,     *)
(* each page of a sound row that is encoded in time is a tile made of all  *)
(* the pages below it, and its file in between is gone; with one unit      *)
(* these are all the pages.  The coarsest level is one page, whatever the  *)
(* size of the image.                                                      *)
THEOREM PagesAreRight == TileSpec => []PagesRight
<1>1. Pyramid!Init => TilesInv
  BY TilesBegin
<1>2. TilesInv /\ [Pyramid!Next]_tileVars => TilesInv'
  BY TilesStep
<1>3. TilesInv => PagesRight
  BY TilesWhole
<1> QED
  BY <1>1, <1>2, <1>3, PTL DEF TileSpec

-----------------------------------------------------------------------------
(* Rectangles of a bin, glyphs of a cache, images of a frame and bytes of  *)
(* a file are where they were put, and nowhere else.                       *)
THEOREM PlacesAreRight == PlacesSpec => []PlacesRight
<1>1. /\ Packing!BinPacked /\ Nodes!CacheTrue
      /\ Frame!DrawsReachAll /\ Stream!StreamsInOrder
      => PlacesRight
  BY DEF PlacesRight
<1> QED
  BY <1>1, BinIsPacked, CacheIsTrue, FrameReachesAll, StreamIsInOrder, PTL DEF PlacesSpec
=============================================================================
