------------------------------ MODULE Serialise ------------------------------
(***************************************************************************)
(* How src/foundation/ipc/traits*.hpp, container.hpp and jumbo.hpp put the *)
(* arguments and results of a call into a buffer and take them out again.  *)
(* The traits of a type are a record of functions, those of a composed one *)
(* are made of the traits of its parts, as the templates are.  A buffer is *)
(* a sequence of bytes; a number of several stands whole in its first one, *)
(* and what was left in it by earlier calls is still behind what a call    *)
(* writes.                                                                 *)
(***************************************************************************)
EXTENDS Integers, Sequences

CONSTANTS Filler,    \* the bytes of a number after its first
          CountSize, \* bytes of up_t
          PageBytes, \* what a segment's size is rounded up to by the system
          Messages   \* what may be sent

VARIABLES message,   \* what is sent: declarations, the last is the type, and a value
          buffer,
          arrived    \* what has been read and how many bytes, when it has been

streamVars == << message, buffer, arrived >>

Nul == 0             \* the character that ends a string
Nothing == << >>

From(data, n) == SubSeq(data, n + 1, Len(data))
WriteCount(bytes, v) == << v >> \o [i \in 1 .. bytes - 1 |-> Filler]
ReadAs(value, bytes) == [value |-> value, bytes |-> bytes]

----------------------------------------------------------------------------
(* Traits: the values of a type, those that come back as they were, the    *)
(* bytes that size says they take, what is written, and what is read, with *)
(* how many bytes it took.                                                 *)
Empty ==
    [values |-> {0}, whole |-> {0},
     size   |-> [v \in {0} |-> 0],
     write  |-> [v \in {0} |-> << >>],
     read   |-> [data \in Seq(Nat) |-> ReadAs(0, 0)]]

Pod(bytes) ==
    [values |-> Nat, whole |-> Nat,
     size   |-> [v \in Nat |-> bytes],
     write  |-> [v \in Nat |-> WriteCount(bytes, v)],
     read   |-> [data \in Seq(Nat) |-> ReadAs(data[1], bytes)]]

\* The string ends at the first byte that ends one.
Ends(data) == CHOOSE n \in 0 .. Len(data) :
    /\ n = Len(data) \/ data[n + 1] = Nul
    /\ \A i \in 1 .. n : data[i] # Nul

Text ==
    [values |-> Seq(Nat), whole |-> { v \in Seq(Nat) : \A i \in DOMAIN v : v[i] # Nul },
     size   |-> [v \in Seq(Nat) |-> Len(v) + 1],
     write  |-> [v \in Seq(Nat) |-> Append(v, Nul)],
     read   |-> [data \in Seq(Nat) |-> ReadAs(SubSeq(data, 1, Ends(data)), Ends(data) + 1)]]

\* The elements of a container, one after the other.
SizeOfAll(t, v) ==
    LET Sum[n \in 0 .. Len(v)] == IF n = 0 THEN CountSize ELSE Sum[n - 1] + t.size[v[n]]
    IN Sum[Len(v)]

WriteAll(t, v) ==
    LET Upto[n \in 0 .. Len(v)] == IF n = 0 THEN WriteCount(CountSize, Len(v))
                                   ELSE Upto[n - 1] \o t.write[v[n]]
    IN Upto[Len(v)]

\* An insert_iterator puts each value after the last; a set has a value once.
Inserted(unique, values, v) ==
    IF unique /\ \E i \in DOMAIN values : values[i] = v THEN values ELSE Append(values, v)

ReadAll(t, unique, data) ==
    LET Upto[n \in 0 .. data[1]] ==
            IF n = 0 THEN ReadAs(<< >>, CountSize)
            ELSE LET before == Upto[n - 1]
                     next == t.read[From(data, before.bytes)]
                 IN ReadAs(Inserted(unique, before.value, next.value),
                           before.bytes + next.bytes)
    IN Upto[data[1]]

Distinct(v) == \A i, j \in DOMAIN v : v[i] = v[j] => i = j

Container(t, unique) ==
    LET All(s) == { v \in Seq(s) : unique => Distinct(v) }
    IN [values |-> All(t.values), whole |-> All(t.whole),
        size   |-> [v \in All(t.values) |-> SizeOfAll(t, v)],
        write  |-> [v \in All(t.values) |-> WriteAll(t, v)],
        read   |-> [data \in Seq(Nat) |-> ReadAll(t, unique, data)]]

\* The arguments of a call, and a tuple, are the first and then the others.
Pair(first, second) ==
    LET Read(data) ==
            LET one == first.read[data]
                other == second.read[From(data, one.bytes)]
            IN ReadAs(<< one.value, other.value >>, one.bytes + other.bytes)
    IN [values |-> first.values \X second.values, whole |-> first.whole \X second.whole,
        size   |-> [v \in first.values \X second.values |->
                        first.size[v[1]] + second.size[v[2]]],
        write  |-> [v \in first.values \X second.values |->
                        first.write[v[1]] \o second.write[v[2]]],
        read   |-> [data \in Seq(Nat) |-> Read(data)]]

\* Types are declared one after the other, each of types that were before.
Declared(types) ==
    /\ Len(types) \in Nat \ { 0 } /\ DOMAIN types = 1 .. Len(types)
    /\ \A i \in DOMAIN types :
       \/ types[i] \in { << "empty" >>, << "text" >> }
       \/ types[i][1] = "pod" /\ types[i][2] \in Nat \ { 0 }
       \/ types[i][1] \in { "container", "set" } /\ types[i][2] \in 1 .. i - 1
       \/ types[i][1] = "pair" /\ types[i][2] \in 1 .. i - 1 /\ types[i][3] \in 1 .. i - 1

TraitsOf(type, of) ==
    CASE type[1] = "empty" -> Empty
      [] type[1] = "text" -> Text
      [] type[1] = "pod" -> Pod(type[2])
      [] type[1] = "container" -> Container(of[type[2]], FALSE)
      [] type[1] = "set" -> Container(of[type[2]], TRUE)
      [] type[1] = "pair" -> Pair(of[type[2]], of[type[3]])

Traits(types) ==
    LET Of[i \in DOMAIN types] == TraitsOf(types[i], Of)
    IN Of[Len(types)]

Sendable(m) == m # Nothing /\ Declared(m[1]) /\ m[2] \in Traits(m[1]).values

----------------------------------------------------------------------------
(* A call: a message is written over what the buffer holds, and read.      *)
Written(m) == Traits(m[1]).write[m[2]]
Size(m) == Traits(m[1]).size[m[2]]

StreamInit == message = Nothing /\ buffer = << >> /\ arrived = Nothing

StreamWrite(m) ==
    /\ message' = m
    /\ buffer' = Written(m) \o From(buffer, Len(Written(m)))
    /\ arrived' = Nothing

StreamRead ==
    /\ message # Nothing /\ arrived = Nothing
    /\ arrived' = << Traits(message[1]).read[buffer] >>
    /\ UNCHANGED << message, buffer >>

StreamNext == StreamRead \/ \E m \in Messages : StreamWrite(m)

----------------------------------------------------------------------------
(* A vector kept in a segment of its own, and a value too large for a page *)

Reference(name) == << name >>           \* a name is a character here
VectorType == Pair(Text, Pod(CountSize))

\* What is sent of a vector: the name of its segment and its length.
SendVector(name, length) == VectorType.write[<< Reference(name), length >>]
ReceiveVector(data, segments) ==
    LET v == VectorType.read[data].value
    IN SubSeq(segments[v[1][1]], 1, v[2])

\* A copy counts as many elements as its allocator was made with: the length
\* of a vector that was received, none of one that was filled here.
CopiedLength(received, length) == IF received THEN length ELSE 0

\* A vector of n elements has room for the next power of two; the segment has
\* that many bytes, not elements, which the system rounds up to whole pages.
Capacity(n) ==
    LET Room[m \in 0 .. n] == IF m <= 1 THEN m ELSE 2 * Room[(m + 1) \div 2]
    IN Room[n]
SegmentBytes(capacity) ==
    ((capacity + PageBytes - 1) \div PageBytes) * PageBytes

SendJumbo(m) == [segment |-> Written(m), size |-> Size(m)]

----------------------------------------------------------------------------
(* Properties *)

\* Whatever is written takes as many bytes as its size said, and is read back
\* as it was, whatever earlier calls have left in the buffer behind it, as
\* long as no string in it contains the character that ends strings
\* (traits_forward.hpp:58-205, traits.hpp:24-223, jumbo.hpp:43-60).
ArrivesAsSent ==
    message # Nothing =>
        /\ Len(SendJumbo(message).segment) = SendJumbo(message).size
        /\ arrived # Nothing /\ message[2] \in Traits(message[1]).whole =>
               arrived = << ReadAs(message[2], Size(message)) >>

\* A vector is received with its elements, its segment holds all of them as
\* long as they are of one byte, or as all fit in one page; and only one that
\* was received can be copied (container.hpp:43-72, 112-160, 181-224).
VectorReceived(name, elements, bytes) ==
    LET n == Len(elements)
        segments == [s \in { name } |-> elements \o << Filler, Filler >>]
    IN /\ ReceiveVector(SendVector(name, n), segments) = elements
       /\ bytes = 1 \/ Capacity(n) * bytes <= PageBytes =>
          SegmentBytes(Capacity(n)) >= n * bytes
       /\ CopiedLength(TRUE, n) = n
=============================================================================
