------------------------------ MODULE DrawBlock -----------------------------
(***************************************************************************)
(* The blocks of src/foundation/opengl/block.cpp and what device.cpp sets  *)
(* of the graphics library when it draws one: an entry for every point     *)
(* buffer given, the attributes held by the vertex array of the block, and *)
(* the index buffer bound to it.  Sizes are in units of one attribute; a   *)
(* matrix has two, at a location and at the next.                          *)
(***************************************************************************)
EXTENDS Integers, Sequences, FiniteSetsExt

CONSTANTS Blocks,     \* the vertex arrays; the first one is given inputs
          Buffers,    \* point buffers, numbered by address
          Locations,  \* of the program's attributes
          MaxInputs   \* bound: how many times input is called

VARIABLES entries,    \* the multimap of the first block
          rebuild,    \* of each block
          attributes, \* what its vertex array holds for each location
          element,    \* the index buffer in each block's vertex array
          bound,      \* the vertex array that is bound, or None
          inputs,     \* calls of input so far
          drawn,      \* what the last draw of the first block read
          late,       \* an input came after a draw, or changed its divisor
          taken       \* blocks whose array was bound while an index buffer was

blockVars == << entries, rebuild, attributes, element, bound, inputs, drawn,
                late, taken >>

None == 0
First == CHOOSE b \in Blocks : \A c \in Blocks : b <= c
Index(b) == b                      \* each block's own index buffer
Slots == Locations \cup { l + 1 : l \in Locations }
Kinds == { "vector", "matrix" }
Size(kind) == IF kind = "matrix" THEN 2 ELSE 1

Unset == [buffer |-> None, offset |-> 0, stride |-> 0, divisor |-> 0,
          enabled |-> FALSE]

BlockInit ==
    /\ entries = << >>
    /\ rebuild = [b \in Blocks |-> TRUE]
    /\ attributes = [l \in Slots |-> Unset]
    /\ element = [b \in Blocks |-> None]
    /\ bound = None
    /\ inputs = 0
    /\ drawn = << >>
    /\ late = FALSE
    /\ taken = {}

\* After the entries of the same buffer, as a multimap keeps them.
Inserted(es, e) ==
    SelectSeq(es, LAMBDA f : f.buffer <= e.buffer) \o << e >> \o
    SelectSeq(es, LAMBDA f : f.buffer > e.buffer)

\* Mutant: the entry that had the location stays in the map.
InputKept(buffer, location, kind, instanced) ==
    /\ inputs < MaxInputs
    /\ inputs' = inputs + 1
    /\ entries' = Inserted(entries,
           [buffer |-> buffer, location |-> location, kind |-> kind,
            instanced |-> instanced, pending |-> TRUE])
    /\ rebuild' = [rebuild EXCEPT ![First] = TRUE]
    /\ late' = (late \/ drawn # << >>)
    /\ UNCHANGED << attributes, element, bound, drawn, taken >>

\* A new entry takes the divisor flag of the one it replaces.
Input(buffer, location, kind, instanced) ==
    LET old == SelectSeq(entries, LAMBDA e : e.location = location)
        flag == IF old = << >> THEN instanced ELSE old[1].instanced
    IN /\ inputs < MaxInputs
       /\ inputs' = inputs + 1
       /\ entries' = Inserted(
              SelectSeq(entries, LAMBDA e : e.location # location),
              [buffer |-> buffer, location |-> location, kind |-> kind,
               instanced |-> flag, pending |-> TRUE])
       /\ rebuild' = [rebuild EXCEPT ![First] = TRUE]
       /\ late' = (late \/ drawn # << >> \/ flag # instanced)
       /\ UNCHANGED << attributes, element, bound, drawn, taken >>

\* A buffer is made or mapped: an index buffer lands in the bound array.
BindIndex(index) ==
    /\ bound # None
    /\ element' = [element EXCEPT ![bound] = index]
    /\ taken' = IF index = Index(bound) \/ rebuild[bound] THEN taken
                ELSE taken \cup { bound }
    /\ UNCHANGED << entries, rebuild, attributes, bound, inputs, drawn, late >>

SumOf(es) == MapThenSumSet(LAMBDA i : Size(es[i].kind), DOMAIN es)

\* The stride counts every entry of the buffer, the offset the pending ones.
SetAttributes(es) ==
    LET Of(buffer, to) == SelectSeq(SubSeq(es, 1, to),
                                    LAMBDA e : e.buffer = buffer)
        Waiting(s) == SelectSeq(s, LAMBDA e : e.pending)
        At(l) == { i \in DOMAIN es : es[i].pending /\
                   l \in es[i].location .. es[i].location + Size(es[i].kind) - 1 }
    IN [l \in Slots |->
        IF At(l) = {} THEN attributes[l]
        ELSE LET i == CHOOSE i \in At(l) : TRUE
                 e == es[i]
             IN [buffer |-> e.buffer,
                 offset |-> SumOf(Waiting(Of(e.buffer, i - 1)))
                            + (l - e.location),
                 stride |-> SumOf(Of(e.buffer, Len(es))),
                 divisor |-> IF e.instanced THEN 1 ELSE attributes[l].divisor,
                 enabled |-> attributes[l].enabled \/ l = e.location]]

\* The vertex array is bound first; a block without buffers draws nothing.
Draw(b) ==
    /\ bound' = b
    /\ IF rebuild[b] /\ b = First /\ entries = << >>
       THEN UNCHANGED << entries, rebuild, attributes, element, drawn, taken >>
       ELSE LET set == IF rebuild[b] /\ b = First THEN SetAttributes(entries)
                       ELSE attributes
            IN /\ rebuild' = [rebuild EXCEPT ![b] = FALSE]
               /\ element' = IF rebuild[b]
                             THEN [element EXCEPT ![b] = Index(b)] ELSE element
               /\ taken' = IF rebuild[b] THEN taken \ { b } ELSE taken
               /\ attributes' = set
               /\ entries' = IF ~rebuild[b] \/ b # First THEN entries
                             ELSE [i \in DOMAIN entries |->
                                   IF entries[i].pending
                                   THEN [entries[i] EXCEPT !.pending = FALSE,
                                                           !.instanced = FALSE]
                                   ELSE entries[i]]
               /\ drawn' = IF b # First THEN drawn
                           ELSE [attributes |-> set, element |-> element'[b],
                                 entries |-> IF drawn = << >> THEN entries
                                             ELSE drawn.entries]
    /\ UNCHANGED << inputs, late >>

BlockNext ==
    \/ \E buffer \in Buffers, l \in Locations, kind \in Kinds, i \in BOOLEAN :
       Input(buffer, l, kind, i)
    \/ \E b \in Blocks : BindIndex(Index(b)) \/ Draw(b)

----------------------------------------------------------------------------
(* Properties *)

\* However often the inputs were given, in whatever order, before the first
\* draw, the draws read every attribute at its place in its buffer, buffers of
\* instances one element at a time, and take the block's own indices, unless
\* another index buffer was made or mapped while the block's vertex array was
\* bound (block.cpp:189-214, device.cpp:129-196, buffer.cpp:97-102).  An input
\* given after a draw is read at a wrong place: late leaves those out.
DrawsAsGiven ==
    drawn # << >> =>
    /\ element[First] = Index(First) \/ First \in taken \/ rebuild[First]
    /\ First \notin taken => drawn.element = Index(First)
    /\ late \/ \A i \in DOMAIN drawn.entries :
       LET e == drawn.entries[i]
           same == { j \in DOMAIN drawn.entries :
                     drawn.entries[j].buffer = e.buffer }
           Lengths(s) == MapThenSumSet(LAMBDA j : Size(drawn.entries[j].kind), s)
       IN /\ drawn.attributes[e.location].enabled
          /\ \A k \in 0 .. Size(e.kind) - 1 :
             LET a == drawn.attributes[e.location + k]
             IN /\ a.buffer = e.buffer
                /\ a.stride = Lengths(same)
                /\ a.offset = Lengths({ j \in same : j < i }) + k
                /\ a.divisor = IF e.instanced THEN 1 ELSE 0
=============================================================================
