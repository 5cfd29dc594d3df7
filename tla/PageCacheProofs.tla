-------------------------- MODULE PageCacheProofs ---------------------------
(***************************************************************************)
(* Proofs about PageCache, for any textures, pages, layers and number of   *)
(* loads: the indexes agree, what the shader samples is the page it asked  *)
(* for, pending() is right, and a locked page keeps its slot.              *)
(***************************************************************************)
EXTENDS PageCache, Integers, FiniteSetTheorems, WellFoundedInduction, TLAPS

Requests == [key : Keys, locked : BOOLEAN]
Results == [key : Keys, locked : BOOLEAN, ok : BOOLEAN]
Levels == {"coarse", "fine"}

TypeInv ==
    /\ live \subseteq Textures
    /\ list \in [Slots -> Slots]
    /\ slot \in [Slots -> [key : Keys \union {NoKey}, locked : BOOLEAN]]
    /\ map \in [Keys -> 0 .. Layers + 1]
    /\ pages \in [Textures -> SUBSET Slots]
    /\ loads \in Int
    /\ reading \subseteq Requests
    /\ queue \in Seq(Results)
    /\ table \in [Textures -> [Indexes -> 0 .. Layers]]
    /\ shown \in [Textures -> [Indexes -> 0 .. Layers]]
    /\ bits \in [Textures -> SUBSET Levels]
    /\ array \in [Slots -> Keys \union {NoKey}]
    /\ phase \in {"draw", "write", "threw"}
    /\ dirty \subseteq Textures

(* One read of a key is under way at a time, for a texture that exists.    *)
FlightInv ==
    /\ \A r, q \in reading : r.key = q.key => r = q
    /\ \A m, n \in DOMAIN queue : queue[m].key = queue[n].key => m = n
    /\ \A r \in reading, n \in DOMAIN queue : r.key # queue[n].key
    /\ \A k \in InFlight : k[1] \in live

(* reading is finite, so that its size can be counted. *)
CountInv == IsFiniteSet(reading)

(* The image in a layer is that of the page it was given to. *)
ArrayInv == \A s \in Slots : slot[s].key # NoKey => array[s] = slot[s].key

(* What is not to be written to the device is there, and what is to be     *)
(* written will be, by the call of write() that is under way.              *)
ShownInv == phase # "threw" =>
    /\ \A t \in live : bits[t] # {} => t \in dirty
    /\ \A t \in live, i \in Indexes : Level(i) \notin bits[t] => shown[t][i] = table[t][i]
    /\ phase = "draw" => dirty = {}

IInv == TypeInv /\ IndexesAgree /\ FlightInv /\ CountInv /\ PendingCounted
            /\ ArrayInv /\ ShownInv

-----------------------------------------------------------------------------
(* The list in order of use *)

(* One of some slots is before the others: what is before it is a smallest *)
(* of the sets of what is before each of them.                             *)
LEMMA FirstExists ==
  ASSUME TypeInv, NEW U \in SUBSET Slots, U # {}
  PROVE  \E s \in U : \A r \in U : list[s] <= list[r]
<1> DEFINE Below(s) == {r \in U : list[r] < list[s]}
           T == {Below(s) : s \in U}
<1>1. \A s \in U : list[s] \in Nat
  BY LayersAssumption DEF TypeInv, Slots
<1>2. IsFiniteSet(U)
  <2>1. IsFiniteSet(Slots)
    BY FS_Interval, LayersAssumption DEF Slots
  <2> QED
    BY <2>1, FS_Subset
<1>3. \A s \in U : Below(s) \in FiniteSubsetsOf(U)
  <2>1. SUFFICES ASSUME NEW s \in U PROVE Below(s) \in FiniteSubsetsOf(U)
    OBVIOUS
  <2>2. Below(s) \in SUBSET U
    OBVIOUS
  <2>3. IsFiniteSet(Below(s))
    BY <1>2, <2>2, FS_Subset
  <2> QED
    BY <2>2, <2>3 DEF FiniteSubsetsOf
<1>4. T \subseteq FiniteSubsetsOf(U) /\ T # {}
  BY <1>3
<1>5. PICK x \in T : \A y \in T : <<y, x>> \notin StrictSubsetOrdering(U)
  BY <1>4, FS_StrictSubsetOrderingWellFounded, WFMin
<1>6. PICK s \in U : x = Below(s)
  OBVIOUS
<1>7. ASSUME NEW r \in U, list[r] < list[s]
      PROVE  FALSE
  <2>1. Below(r) \in SUBSET Below(s) /\ r \in Below(s) /\ r \notin Below(r)
    BY <1>1, <1>7
  <2>2. <<Below(r), x>> \in StrictSubsetOrdering(U)
    BY <1>6, <2>1 DEF StrictSubsetOrdering
  <2> QED
    BY <1>5, <2>2
<1> QED
  BY <1>1, <1>7

(* There is a victim when a slot is unlocked, and it is an unlocked one. *)
LEMMA VictimIsUnlocked == ASSUME TypeInv, Unlocked # {}
                          PROVE  Victim \in Slots /\ ~ slot[Victim].locked
<1>1. Unlocked \in SUBSET Slots
  BY DEF Unlocked
<1>2. \E s \in Unlocked : \A r \in Unlocked : list[s] <= list[r]
  BY <1>1, FirstExists
<1>3. Victim \in Unlocked
  BY <1>2 DEF Victim
<1> QED
  BY <1>3 DEF Unlocked

(* To move a slot to the back keeps the places apart. *)
LEMMA ToBackOrders ==
  ASSUME TypeInv, NEW s \in Slots, \A q, r \in Slots : list[q] = list[r] => q = r
  PROVE  /\ ToBack(s) \in [Slots -> Slots]
         /\ \A q, r \in Slots : ToBack(s)[q] = ToBack(s)[r] => q = r
<1>1. \A r \in Slots : list[r] \in 1 .. Layers /\ Layers \in Nat \ {0}
  BY LayersAssumption DEF TypeInv, Slots
<1>2. \A r \in Slots : ToBack(s)[r] \in 1 .. Layers
  BY <1>1 DEF ToBack
<1>3. \A q \in Slots : q # s => ToBack(s)[q] < Layers
  BY <1>1 DEF ToBack
<1>4. ASSUME NEW q \in Slots, NEW r \in Slots, ToBack(s)[q] = ToBack(s)[r]
      PROVE  q = r
  <2>1. CASE q = s \/ r = s
    BY <1>1, <1>3, <1>4, <2>1 DEF ToBack
  <2>2. CASE q # s /\ r # s
    <3>1. list[q] # list[s] /\ list[r] # list[s]
      BY <2>2
    <3>2. list[q] = list[r]
      BY <1>1, <1>4, <2>2, <3>1 DEF ToBack
    <3> QED
      BY <3>2
  <2> QED
    BY <2>1, <2>2
<1> QED
  BY <1>2, <1>4 DEF ToBack, Slots

(* So does moving a set of them to the front. *)
LEMMA EvictedOrders ==
  ASSUME TypeInv, NEW t \in Textures, \A q, r \in Slots : list[q] = list[r] => q = r
  PROVE  /\ Evicted(t) \in [Slots -> Slots]
         /\ \A q, r \in Slots : Evicted(t)[q] = Evicted(t)[r] => q = r
<1> DEFINE Before(s) == {r \in Slots : InFront(r, s, Moved(t))}
<1>1. IsFiniteSet(Slots) /\ Cardinality(Slots) = Layers
  BY FS_Interval, LayersAssumption DEF Slots
<1>2. \A s \in Slots : list[s] \in Nat
  BY LayersAssumption DEF TypeInv, Slots
<1>3. ASSUME NEW s \in Slots
      PROVE  /\ s \in Before(s) /\ IsFiniteSet(Before(s))
             /\ Cardinality(Before(s)) \in Slots
  <2>1. s \in Before(s) /\ Before(s) \in SUBSET Slots
    BY <1>2 DEF InFront
  <2>2. /\ IsFiniteSet(Before(s)) /\ Cardinality(Before(s)) <= Layers
        /\ Cardinality(Before(s)) \in Nat
    BY <1>1, <2>1, FS_Subset, FS_CardinalityType
  <2>3. Cardinality(Before(s)) # 0
    BY <2>1, <2>2, FS_EmptySet
  <2> QED
    BY <2>1, <2>2, <2>3, LayersAssumption DEF Slots
<1>4. ASSUME NEW q \in Slots, NEW r \in Slots, q # r, InFront(q, r, Moved(t))
      PROVE  Cardinality(Before(q)) # Cardinality(Before(r))
  <2>1. Before(q) \in SUBSET Before(r)
    BY <1>2, <1>4 DEF InFront
  <2>2. r \notin Before(q)
    BY <1>2, <1>4 DEF InFront
  <2>3. r \in Before(r) /\ IsFiniteSet(Before(r))
    BY <1>3
  <2> QED
    BY <2>1, <2>2, <2>3, FS_Subset
<1>5. \A q, r \in Slots : InFront(q, r, Moved(t)) \/ InFront(r, q, Moved(t))
  BY <1>2 DEF InFront
<1> QED
  BY <1>3, <1>4, <1>5 DEF Evicted

-----------------------------------------------------------------------------
(* Reads under way *)

(* What try_pop takes from the queue, and what it leaves. *)
LEMMA QueuePopped ==
  ASSUME TypeInv, queue # <<>>
  PROVE  /\ Head(queue) \in Results /\ Head(queue) = queue[1] /\ 1 \in DOMAIN queue
         /\ Tail(queue) \in Seq(Results) /\ Len(Tail(queue)) = Len(queue) - 1
         /\ Len(queue) \in Nat /\ DOMAIN queue = 1 .. Len(queue)
         /\ DOMAIN Tail(queue) = 1 .. Len(queue) - 1
         /\ \A n \in DOMAIN Tail(queue) : n + 1 \in DOMAIN queue /\ Tail(queue)[n] = queue[n + 1]
  BY DEF TypeInv

(* A key that is popped is under way no more, and the others still are. *)
LEMMA PoppedFlight ==
  ASSUME TypeInv, FlightInv, Popped
  PROVE  /\ InFlight' = InFlight \ {Head(queue).key}
         /\ Head(queue).key \in InFlight /\ FlightInv'
<1>1. queue # <<>> /\ queue' = Tail(queue) /\ reading' = reading /\ live' = live
  BY DEF Popped
<1>2. \A n \in DOMAIN queue : n # 1 => queue[n].key # Head(queue).key
  BY <1>1, QueuePopped DEF FlightInv
<1>3. {queue'[n].key : n \in DOMAIN queue'} = {queue[n].key : n \in DOMAIN queue} \ {Head(queue).key}
  <2>1. \A n \in DOMAIN queue' : /\ n + 1 \in DOMAIN queue /\ queue'[n] = queue[n + 1]
                                 /\ n \in Nat \ {0}
    BY <1>1, QueuePopped
  <2>2. \A n \in DOMAIN queue : n # 1 => n - 1 \in DOMAIN queue' /\ queue'[n - 1] = queue[n]
    BY <1>1, QueuePopped
  <2>3. ASSUME NEW n \in DOMAIN queue'
        PROVE  \E m \in DOMAIN queue : queue'[n].key = queue[m].key /\ queue[m].key # Head(queue).key
    <3>1. n + 1 \in DOMAIN queue /\ n + 1 # 1 /\ queue'[n] = queue[n + 1]
      BY <2>1
    <3> QED
      BY <1>2, <3>1
  <2>4. ASSUME NEW m \in DOMAIN queue, queue[m].key # Head(queue).key
        PROVE  \E n \in DOMAIN queue' : queue'[n].key = queue[m].key
    <3>1. m # 1
      BY <1>1, <2>4, QueuePopped
    <3> QED
      BY <2>2, <3>1
  <2> QED
    BY <2>3, <2>4
<1>4. \A r \in reading : r.key # Head(queue).key
  BY <1>1, QueuePopped DEF FlightInv
<1>5. InFlight' = InFlight \ {Head(queue).key} /\ Head(queue).key \in InFlight
  <2> DEFINE Reading == {r.key : r \in reading}
             Queued == {queue[n].key : n \in DOMAIN queue}
             Rest == {queue'[n].key : n \in DOMAIN queue'}
  <2>1. InFlight = Reading \union Queued
    BY DEF InFlight
  <2>2. InFlight' = Reading \union Rest
    BY <1>1 DEF InFlight
  <2>3. Head(queue).key \in Queued
    BY <1>1, QueuePopped
  <2>4. Head(queue).key \notin Reading
    BY <1>4
  <2>5. Rest = Queued \ {Head(queue).key}
    BY <1>3
  <2> HIDE DEF Reading, Queued, Rest
  <2> QED
    BY <2>1, <2>2, <2>3, <2>4, <2>5
<1>6. \A m, n \in DOMAIN queue' : queue'[m].key = queue'[n].key => m = n
  BY <1>1, QueuePopped DEF FlightInv
<1>7. \A r \in reading', n \in DOMAIN queue' : r.key # queue'[n].key
  BY <1>1, QueuePopped DEF FlightInv
<1> QED
  BY <1>1, <1>5, <1>6, <1>7 DEF FlightInv

(* A read that ends goes from the pool to the queue. *)
LEMMA ReadFlight ==
  ASSUME TypeInv, FlightInv, NEW r \in reading, NEW ok \in BOOLEAN, Read(r, ok)
  PROVE  /\ InFlight' = InFlight /\ FlightInv'
         /\ reading' \subseteq Requests /\ queue' \in Seq(Results)
         /\ Len(queue) \in Nat /\ Len(queue') = Len(queue) + 1
<1> DEFINE new == [key |-> r.key, locked |-> r.locked, ok |-> ok]
<1>1. reading' = reading \ {r} /\ queue' = Append(queue, new) /\ live' = live
  BY DEF Read, textures
<1>2. new \in Results /\ new.key = r.key
  BY DEF TypeInv, Requests, Results
<1>3. /\ queue \in Seq(Results) /\ Len(queue) \in Nat /\ DOMAIN queue = 1 .. Len(queue)
      /\ queue' \in Seq(Results) /\ Len(queue') = Len(queue) + 1
      /\ DOMAIN queue' = 1 .. Len(queue) + 1 /\ queue'[Len(queue) + 1] = new
      /\ \A n \in DOMAIN queue : n \in DOMAIN queue' /\ queue'[n] = queue[n]
  BY <1>1, <1>2 DEF TypeInv
<1>4. \A n \in DOMAIN queue' : n \in DOMAIN queue \/ n = Len(queue) + 1
  BY <1>3
<1>5. Len(queue) + 1 \in DOMAIN queue'
  BY <1>3
<1>6. {queue'[n].key : n \in DOMAIN queue'} = {queue[n].key : n \in DOMAIN queue} \union {r.key}
  BY <1>2, <1>3, <1>4, <1>5
<1>7. \A q \in reading' : q \in reading /\ q.key # r.key
  BY <1>1 DEF FlightInv
<1>8. {q.key : q \in reading'} \union {r.key} = {q.key : q \in reading}
  BY <1>1
<1>9. InFlight' = InFlight
  BY <1>6, <1>8 DEF InFlight
<1>10. \A m, n \in DOMAIN queue' : queue'[m].key = queue'[n].key => m = n
  BY <1>2, <1>3, <1>4 DEF FlightInv
<1>11. \A q \in reading', n \in DOMAIN queue' : q.key # queue'[n].key
  BY <1>2, <1>3, <1>4, <1>7 DEF FlightInv
<1>12. reading' \subseteq Requests
  BY <1>1 DEF TypeInv
<1> QED
  BY <1>1, <1>3, <1>7, <1>9, <1>10, <1>11, <1>12 DEF FlightInv

(* A key that is asked for was not under way. *)
LEMMA RequestFlight ==
  ASSUME TypeInv, FlightInv, PendingCounted, phase # "threw",
         NEW k \in Keys, NEW locked \in BOOLEAN, Request(k, locked),
         live \subseteq live', k[1] \in live'
  PROVE  /\ k \notin InFlight /\ InFlight' = InFlight \union {k} /\ FlightInv'
         /\ [key |-> k, locked |-> locked] \in Requests
         /\ [key |-> k, locked |-> locked] \notin reading
<1> DEFINE new == [key |-> k, locked |-> locked]
<1>1. reading' = reading \union {new} /\ queue' = queue /\ map[k] = 0
  BY DEF Request, Absent
<1>2. k \notin InFlight
  BY <1>1, LayersAssumption DEF PendingCounted, Pending
<1>3. new \in Requests /\ new.key = k
  BY DEF Requests
<1>4. new \notin reading
  BY <1>2, <1>3 DEF InFlight
<1>5. InFlight' = InFlight \union {k}
  BY <1>1, <1>3 DEF InFlight
<1>6. \A q \in reading : q.key # k
  BY <1>2 DEF InFlight
<1>7. \A n \in DOMAIN queue : queue[n].key # k
  BY <1>2 DEF InFlight
<1> QED
  BY <1>1, <1>2, <1>3, <1>4, <1>5, <1>6, <1>7 DEF FlightInv

-----------------------------------------------------------------------------
(* Types *)

(* Every texture and page is one of those there are. *)
LEMMA KeysAre == /\ \A k \in Keys : k[1] \in Textures /\ k[2] \in Indexes
                 /\ \A t \in Textures, i \in Indexes : /\ <<t, i>> \in Keys
                                                       /\ <<t, i>>[1] = t /\ <<t, i>>[2] = i
                 /\ \A k \in Keys : k = <<k[1], k[2]>>
                 /\ Root \in Indexes /\ Tiles \subseteq Indexes
                 /\ \A i \in Indexes : Level(i) \in Levels
  BY DEF Keys, Indexes, Level, Levels

(* A slot is neither of the other two entries of the map. *)
LEMMA SlotsAre == /\ \A s \in Slots : s \in Nat /\ s # Absent /\ s # Pending
                  /\ Slots \subseteq 0 .. Layers /\ Slots \subseteq 0 .. Layers + 1
                  /\ Absent \in 0 .. Layers /\ Absent \in 0 .. Layers + 1
                  /\ Pending \in 0 .. Layers + 1 /\ Pending # Absent
  BY LayersAssumption DEF Slots, Absent, Pending

(* One entry of one page table differs. *)
Tables == [Textures -> [Indexes -> 0 .. Layers]]
Repointed(after, before, k, s) ==
    /\ after \in Tables
    /\ \A t \in Textures, i \in Indexes :
           after[t][i] = IF <<t, i>> = k THEN s ELSE before[t][i]

(* write_pyramid changes one entry of one page table. *)
LEMMA PointIs ==
  ASSUME NEW tab \in Tables, NEW k \in Keys, NEW s \in 0 .. Layers
  PROVE  Repointed(Point(tab, k, s), tab, k, s)
<1>1. k[1] \in Textures /\ k[2] \in Indexes /\ k = <<k[1], k[2]>>
  BY KeysAre
<1>2. Point(tab, k, s) = [t \in Textures |->
          IF t = k[1] THEN [tab[t] EXCEPT ![k[2]] = s] ELSE tab[t]]
  BY DEF Point, Tables
<1>3. ASSUME NEW t \in Textures
      PROVE  /\ Point(tab, k, s)[t] \in [Indexes -> 0 .. Layers]
             /\ \A i \in Indexes : Point(tab, k, s)[t][i] =
                    IF t = k[1] /\ i = k[2] THEN s ELSE tab[t][i]
  <2>1. tab[t] \in [Indexes -> 0 .. Layers]
    BY DEF Tables
  <2> QED
    BY <1>1, <1>2, <2>1
<1>4. \A t \in Textures, i \in Indexes : <<t, i>> = k <=> t = k[1] /\ i = k[2]
  BY <1>1
<1> QED
  BY <1>2, <1>3, <1>4 DEF Repointed, Tables

(* bitset.set marks one level of one texture. *)
LEMMA MarkIs ==
  ASSUME NEW b \in [Textures -> SUBSET Levels], NEW k \in Keys
  PROVE  /\ Mark(b, k) \in [Textures -> SUBSET Levels]
         /\ \A t \in Textures :
                Mark(b, k)[t] = IF t = k[1] THEN b[t] \union {Level(k[2])} ELSE b[t]
<1>1. k[1] \in Textures /\ k[2] \in Indexes /\ Level(k[2]) \in Levels
  BY KeysAre
<1>2. Mark(b, k) = [t \in Textures |->
          IF t = k[1] THEN b[t] \union {Level(k[2])} ELSE b[t]]
  BY DEF Mark
<1> QED
  BY <1>1, <1>2

(* What a slot's change of page does to the indexes. *)
LEMMA Reassigned ==
  ASSUME TypeInv, NEW s \in Slots, NEW new, new.key \in Keys, Reassign(s, new)
  PROVE  /\ map' \in [Keys -> 0 .. Layers + 1]
         /\ \A k \in Keys : map'[k] = IF k = new.key THEN s
                                      ELSE IF k = slot[s].key THEN Absent ELSE map[k]
         /\ pages' \in [Textures -> SUBSET Slots]
         /\ \A t \in Textures, r \in Slots : r \in pages'[t] <=>
                \/ r = s /\ t = new.key[1]
                \/ r \in pages[t] /\ ~ (r = s /\ slot[s].key # NoKey /\ t = slot[s].key[1])
         /\ table' \in [Textures -> [Indexes -> 0 .. Layers]]
         /\ \A t \in Textures, i \in Indexes : table'[t][i] =
                IF <<t, i>> = new.key THEN s
                ELSE IF <<t, i>> = slot[s].key THEN Absent ELSE table[t][i]
         /\ bits' \in [Textures -> SUBSET Levels] /\ dirty' \subseteq Textures
         /\ \A t \in Textures : /\ bits[t] \subseteq bits'[t]
                                /\ t \in dirty => t \in dirty'
                                /\ bits'[t] # bits[t] => t \in dirty'
         /\ \A t \in Textures, i \in Indexes :
                <<t, i>> = new.key \/ <<t, i>> = slot[s].key => Level(i) \in bits'[t] /\ t \in dirty'
<1>0. PICK old : old = slot[s].key
  OBVIOUS
<1>1. old # NoKey => old \in Keys
  BY <1>0 DEF TypeInv
<1>2. NoKey \notin Keys /\ s \in 0 .. Layers /\ Absent \in 0 .. Layers
  BY NoKeyAssumption, SlotsAre
<1>3. new.key[1] \in Textures /\ new.key[2] \in Indexes
  BY KeysAre
<1>4. CASE old = NoKey
  <2>1. map' = [map EXCEPT ![new.key] = s] /\ pages' = InsertPage(pages, new.key, s)
    BY <1>0, <1>4 DEF Reassign
  <2>2. /\ table' = Point(table, new.key, s) /\ bits' = Mark(bits, new.key)
        /\ dirty' = dirty \union {new.key[1]}
    BY <1>0, <1>4 DEF Reassign
  <2>3. /\ map' \in [Keys -> 0 .. Layers + 1]
        /\ \A k \in Keys : map'[k] = IF k = new.key THEN s
                                      ELSE IF k = old THEN Absent ELSE map[k]
    BY <1>2, <1>4, <2>1, SlotsAre DEF TypeInv
  <2>4. /\ pages' \in [Textures -> SUBSET Slots]
        /\ \A t \in Textures, r \in Slots : r \in pages'[t] <=>
                \/ r = s /\ t = new.key[1]
                \/ r \in pages[t] /\ ~ (r = s /\ old # NoKey /\ t = old[1])
    BY <1>3, <1>4, <2>1 DEF InsertPage, TypeInv
  <2>5. Repointed(table', table, new.key, s)
    BY <1>2, <2>2, PointIs DEF TypeInv, Tables
  <2>6. \A t \in Textures, i \in Indexes : <<t, i>> # old
    BY <1>2, <1>4, KeysAre
  <2>7. /\ bits' \in [Textures -> SUBSET Levels]
        /\ \A t \in Textures :
               bits'[t] = IF t = new.key[1] THEN bits[t] \union {Level(new.key[2])} ELSE bits[t]
    <3>1. bits \in [Textures -> SUBSET Levels]
      BY DEF TypeInv
    <3> QED
      BY <2>2, <3>1, MarkIs
  <2>8. \A t \in Textures, i \in Indexes :
            <<t, i>> = new.key \/ <<t, i>> = old => t = new.key[1] /\ i = new.key[2]
    BY <2>6, KeysAre
  <2>9. dirty' \subseteq Textures
    BY <1>3, <2>2 DEF TypeInv
  <2>10. /\ table' \in [Textures -> [Indexes -> 0 .. Layers]]
         /\ \A t \in Textures, i \in Indexes : table'[t][i] =
                IF <<t, i>> = new.key THEN s ELSE IF <<t, i>> = old THEN Absent ELSE table[t][i]
    BY <2>5, <2>6 DEF Repointed, Tables
  <2>11. \A t \in Textures : /\ bits[t] \subseteq bits'[t]
                             /\ t \in dirty => t \in dirty'
                             /\ bits'[t] # bits[t] => t \in dirty'
    BY <2>2, <2>7
  <2>12. \A t \in Textures, i \in Indexes :
             <<t, i>> = new.key \/ <<t, i>> = old => Level(i) \in bits'[t] /\ t \in dirty'
    BY <2>2, <2>7, <2>8
  <2> QED
    BY <1>0, <2>3, <2>4, <2>7, <2>9, <2>10, <2>11, <2>12
<1>5. CASE old # NoKey
  <2> DEFINE gone == Point(table, old, Absent)
             marked == Mark(bits, old)
             rest == ErasePage(pages, old, s)
  <2>1. /\ map' = [map EXCEPT ![old] = Absent, ![new.key] = s]
        /\ pages' = InsertPage(rest, new.key, s)
    BY <1>0, <1>5 DEF Reassign
  <2>2. /\ table' = Point(gone, new.key, s) /\ bits' = Mark(marked, new.key)
        /\ dirty' = dirty \union {old[1], new.key[1]}
    BY <1>0, <1>5 DEF Reassign
  <2>3. /\ map' \in [Keys -> 0 .. Layers + 1]
        /\ \A k \in Keys : map'[k] = IF k = new.key THEN s
                                      ELSE IF k = old THEN Absent ELSE map[k]
    BY <1>1, <1>2, <1>5, <2>1, SlotsAre DEF TypeInv
  <2>4. old[1] \in Textures /\ old[2] \in Indexes
    BY <1>1, <1>5, KeysAre
  <2>5. /\ rest \in [Textures -> SUBSET Slots]
        /\ \A t \in Textures, r \in Slots :
               r \in rest[t] <=> r \in pages[t] /\ ~ (r = s /\ t = old[1])
    BY <2>4 DEF ErasePage, TypeInv
  <2>6. /\ pages' \in [Textures -> SUBSET Slots]
        /\ \A t \in Textures, r \in Slots :
               r \in pages'[t] <=> (r = s /\ t = new.key[1]) \/ r \in rest[t]
    BY <1>3, <2>1, <2>5 DEF InsertPage
  <2>7. Repointed(gone, table, old, Absent)
    BY <1>1, <1>2, <1>5, PointIs DEF TypeInv, Tables
  <2>8. Repointed(table', gone, new.key, s)
    <3>1. gone \in Tables
      BY <2>7 DEF Repointed
    <3> QED
      BY <1>2, <2>2, <3>1, PointIs
  <2>9. /\ marked \in [Textures -> SUBSET Levels]
        /\ \A t \in Textures :
               marked[t] = IF t = old[1] THEN bits[t] \union {Level(old[2])} ELSE bits[t]
    BY <1>1, <1>5, MarkIs DEF TypeInv
  <2>10. /\ bits' \in [Textures -> SUBSET Levels]
         /\ \A t \in Textures :
               bits'[t] = IF t = new.key[1] THEN marked[t] \union {Level(new.key[2])} ELSE marked[t]
    BY <2>2, <2>9, MarkIs
  <2>11. \A t \in Textures, i \in Indexes : <<t, i>> = new.key \/ <<t, i>> = old =>
            (t = new.key[1] /\ i = new.key[2]) \/ (t = old[1] /\ i = old[2])
    <3>1. \A t \in Textures, i \in Indexes : <<t, i>> = new.key => t = new.key[1] /\ i = new.key[2]
      BY KeysAre
    <3>2. \A t \in Textures, i \in Indexes : <<t, i>> = old => t = old[1] /\ i = old[2]
      BY KeysAre
    <3> QED
      BY <3>1, <3>2
  <2>12. dirty' \subseteq Textures
    BY <1>3, <2>2, <2>4 DEF TypeInv
  <2> HIDE DEF gone, marked, rest
  <2>13. \A t \in Textures, r \in Slots : r \in pages'[t] <=>
             \/ r = s /\ t = new.key[1]
             \/ r \in pages[t] /\ ~ (r = s /\ old # NoKey /\ t = old[1])
    BY <1>5, <2>5, <2>6
  <2>14. \A t \in Textures, i \in Indexes : table'[t][i] =
             IF <<t, i>> = new.key THEN s
             ELSE IF <<t, i>> = old THEN Absent ELSE table[t][i]
    BY <2>7, <2>8 DEF Repointed
  <2>15. \A t \in Textures : /\ bits[t] \subseteq bits'[t]
                             /\ t \in dirty => t \in dirty'
                             /\ bits'[t] # bits[t] => t \in dirty'
    BY <2>2, <2>9, <2>10
  <2>16. \A t \in Textures, i \in Indexes :
             <<t, i>> = new.key \/ <<t, i>> = old => Level(i) \in bits'[t] /\ t \in dirty'
    BY <2>2, <2>9, <2>10, <2>11
  <2> QED
    BY <1>0, <2>3, <2>6, <2>8, <2>10, <2>12, <2>13, <2>14, <2>15, <2>16 DEF Repointed, Tables
<1> QED
  BY <1>4, <1>5

(* load, of either outcome, keeps the types of what it changes. *)
LEMMA LoadTypes ==
  ASSUME IInv, NEW k \in Keys, NEW locked \in BOOLEAN, Request(k, locked) \/ Touch(k)
  PROVE  /\ list' \in [Slots -> Slots] /\ slot' = slot /\ pages' = pages /\ queue' = queue
         /\ map' \in [Keys -> 0 .. Layers + 1] /\ loads' \in Int /\ reading' \subseteq Requests
<1>1. CASE Request(k, locked)
  <2>1. [key |-> k, locked |-> locked] \in Requests
    BY DEF Requests
  <2> QED
    BY <1>1, <2>1, SlotsAre DEF Request, IInv, TypeInv
<1>2. CASE Touch(k)
  <2>1. list' = ToBack(map[k]) /\ map[k] \in Slots
    BY <1>2 DEF Touch
  <2>2. list' \in [Slots -> Slots]
    BY <2>1, ToBackOrders DEF IInv, IndexesAgree
  <2> QED
    BY <1>2, <2>2 DEF Touch, transit, IInv, TypeInv
<1> QED
  BY <1>1, <1>2

(* Every step keeps every variable in its range. *)
LEMMA NextTypeInv == IInv /\ [Next]_vars => TypeInv'
<1> SUFFICES ASSUME IInv, [Next]_vars PROVE TypeInv'
  OBVIOUS
<1> USE DEF IInv
<1>1. ASSUME NEW t \in Textures, Construct(t)
      PROVE  TypeInv'
  <2>1. <<t, Root>> \in Keys /\ Request(<<t, Root>>, TRUE)
    BY <1>1, KeysAre DEF Construct
  <2>2. Blank \in [Indexes -> 0 .. Layers]
    BY SlotsAre DEF Blank
  <2>3. /\ list' \in [Slots -> Slots] /\ slot' = slot /\ pages' = pages /\ queue' = queue
        /\ map' \in [Keys -> 0 .. Layers + 1] /\ loads' \in Int /\ reading' \subseteq Requests
    BY <2>1, LoadTypes
  <2> QED
    BY <1>1, <2>2, <2>3 DEF Construct, TypeInv, writing
<1>2. ASSUME NEW t \in Textures, Destroy(t)
      PROVE  TypeInv'
  <2>1. list' = Evicted(t) /\ list' \in [Slots -> Slots]
    BY <1>2, EvictedOrders DEF Destroy, Evict, IndexesAgree
  <2>2. slot' \in [Slots -> [key : Keys \union {NoKey}, locked : BOOLEAN]]
    BY <1>2 DEF Destroy, Evict, TypeInv
  <2>3. pages' \in [Textures -> SUBSET Slots]
    BY <1>2 DEF Destroy, Evict, TypeInv
  <2> QED
    BY <1>2, <2>1, <2>2, <2>3 DEF Destroy, Evict, TypeInv, transit, writing
<1>3. ASSUME NEW t \in Textures, NEW i \in Tiles, Unlock(t, i)
      PROVE  TypeInv'
  <2>1. slot' \in [Slots -> [key : Keys \union {NoKey}, locked : BOOLEAN]]
    BY <1>3 DEF Unlock, TypeInv
  <2> QED
    BY <1>3, <2>1 DEF Unlock, TypeInv, textures, transit, writing
<1>4. ASSUME NEW t \in Textures, NEW i \in Tiles, NEW locked \in BOOLEAN, Load(t, i, locked)
      PROVE  TypeInv'
  <2>1. <<t, i>> \in Keys /\ (Request(<<t, i>>, locked) \/ Touch(<<t, i>>))
    BY <1>4, KeysAre DEF Load
  <2>2. /\ list' \in [Slots -> Slots] /\ slot' = slot /\ pages' = pages /\ queue' = queue
        /\ map' \in [Keys -> 0 .. Layers + 1] /\ loads' \in Int /\ reading' \subseteq Requests
    BY <2>1, LoadTypes
  <2> QED
    BY <1>4, <2>2 DEF Load, TypeInv, textures, writing
<1>5. ASSUME NEW r \in reading, NEW ok \in BOOLEAN, Read(r, ok)
      PROVE  TypeInv'
  BY <1>5, ReadFlight DEF Read, TypeInv, textures, indexes, writing
<1>6. CASE WriteBegin
  BY <1>6 DEF WriteBegin, TypeInv, textures, indexes, transit
<1>7. CASE Forget
  <2>1. /\ Head(queue) \in Results /\ Tail(queue) \in Seq(Results)
        /\ queue' = Tail(queue) /\ Head(queue).key \in Keys
    BY <1>7, QueuePopped DEF Forget, Popped, Results
  <2>2. map' \in [Keys -> 0 .. Layers + 1]
    BY <1>7, SlotsAre DEF Forget, TypeInv
  <2> QED
    BY <1>7, <2>1, <2>2 DEF Forget, Popped, TypeInv, writing
<1>8. CASE Place
  <2> DEFINE new == Head(queue)
             s == Victim
  <2>1. /\ new \in Results /\ Tail(queue) \in Seq(Results) /\ queue' = Tail(queue)
        /\ new.key \in Keys /\ new.locked \in BOOLEAN
    BY <1>8, QueuePopped DEF Place, Popped, Results
  <2>2. s \in Slots
    BY <1>8, VictimIsUnlocked DEF Place
  <2>3. Reassign(s, new)
    BY <1>8 DEF Place
  <2>4. list' \in [Slots -> Slots]
    BY <1>8, <2>2, ToBackOrders DEF Place, IndexesAgree
  <2>5. slot' \in [Slots -> [key : Keys \union {NoKey}, locked : BOOLEAN]]
    BY <1>8, <2>1, <2>2 DEF Place, TypeInv
  <2>6. array' \in [Slots -> Keys \union {NoKey}]
    BY <1>8, <2>1, <2>2 DEF Place, TypeInv
  <2>7. /\ map' \in [Keys -> 0 .. Layers + 1] /\ pages' \in [Textures -> SUBSET Slots]
        /\ table' \in [Textures -> [Indexes -> 0 .. Layers]]
        /\ bits' \in [Textures -> SUBSET Levels] /\ dirty' \subseteq Textures
    BY <2>1, <2>2, <2>3, Reassigned
  <2> QED
    BY <1>8, <2>1, <2>4, <2>5, <2>6, <2>7
    DEF Place, Popped, TypeInv
<1>9. CASE Throw
  <2>1. Tail(queue) \in Seq(Results) /\ queue' = Tail(queue)
    BY <1>9, QueuePopped DEF Throw, Popped
  <2> QED
    BY <1>9, <2>1 DEF Throw, Popped, TypeInv, indexes
<1>10. CASE WriteEnd
  <2>1. shown' \in [Textures -> [Indexes -> 0 .. Layers]]
    BY <1>10 DEF WriteEnd, TypeInv
  <2>2. bits' \in [Textures -> SUBSET Levels]
    BY <1>10 DEF WriteEnd, TypeInv
  <2> QED
    BY <1>10, <2>1, <2>2 DEF WriteEnd, TypeInv, indexes, transit
<1>11. CASE UNCHANGED vars
  BY <1>11 DEF vars, textures, indexes, transit, writing, TypeInv
<1> QED
  BY <1>1, <1>2, <1>3, <1>4, <1>5, <1>6, <1>7, <1>8, <1>9, <1>10, <1>11
  DEF Next, Caller, Reader, Write

-----------------------------------------------------------------------------
(* Counts *)

(* What is under way is a page of a texture. *)
LEMMA FlightKeys == ASSUME TypeInv PROVE InFlight \subseteq Keys
<1>1. \A r \in reading : r.key \in Keys
  BY DEF TypeInv, Requests
<1>2. \A n \in DOMAIN queue : queue[n] \in Results
  BY DEF TypeInv
<1>3. \A n \in DOMAIN queue : queue[n].key \in Keys
  BY <1>2 DEF Results
<1> QED
  BY <1>1, <1>3 DEF InFlight

(* A page that has a slot is not under way. *)
LEMMA AssignedIsLanded ==
  ASSUME IInv, phase # "threw", NEW s \in Slots, slot[s].key # NoKey
  PROVE  slot[s].key \in Keys /\ map[slot[s].key] = s /\ slot[s].key \notin InFlight
<1>1. slot[s].key \in Keys /\ slot[s].key[1] \in live
  BY DEF IInv, TypeInv, IndexesAgree
<1>2. map[slot[s].key] = s
  BY <1>1, KeysAre DEF IInv, IndexesAgree
<1> QED
  BY <1>1, <1>2, SlotsAre DEF IInv, PendingCounted

(* A load keeps the count. *)
LEMMA RequestCounts ==
  ASSUME IInv, phase = "draw", NEW k \in Keys, NEW locked \in BOOLEAN, Request(k, locked),
         live \subseteq live', k[1] \in live'
  PROVE  FlightInv' /\ CountInv' /\ PendingCounted'
<1> DEFINE new == [key |-> k, locked |-> locked]
<1>1. /\ InFlight' = InFlight \union {k} /\ FlightInv'
      /\ new \notin reading /\ reading' = reading \union {new}
  BY RequestFlight DEF IInv, Request
<1>2. /\ IsFiniteSet(reading') /\ Cardinality(reading') = Cardinality(reading) + 1
      /\ Cardinality(reading) \in Nat
  BY <1>1, FS_AddElement, FS_CardinalityType DEF IInv, CountInv
<1>3. loads' = loads + 1 /\ queue' = queue /\ map' = [map EXCEPT ![k] = Pending]
  BY DEF Request
<1>4. Len(queue) \in Nat
  BY DEF IInv, TypeInv
<1>5. loads' = Cardinality(reading') + Len(queue')
  BY <1>2, <1>3, <1>4 DEF IInv, PendingCounted
<1>6. \A j \in Keys : map'[j] = Pending <=> j \in InFlight'
  BY <1>1, <1>3 DEF IInv, TypeInv, PendingCounted
<1> QED
  BY <1>1, <1>2, <1>5, <1>6 DEF CountInv, PendingCounted

(* pending() counts the reads that have not been placed, in every step.    *)
LEMMA NextCounts == IInv /\ [Next]_vars => FlightInv' /\ CountInv' /\ PendingCounted'
<1> SUFFICES ASSUME IInv, [Next]_vars PROVE FlightInv' /\ CountInv' /\ PendingCounted'
  OBVIOUS
<1> DEFINE Goal == FlightInv /\ CountInv /\ PendingCounted
<1>a. TypeInv /\ FlightInv /\ CountInv /\ PendingCounted /\ Len(queue) \in Nat
  BY DEF IInv, TypeInv
<1>b. ASSUME Popped
      PROVE  /\ InFlight' = InFlight \ {Head(queue).key} /\ FlightInv' /\ CountInv'
             /\ Head(queue).key \in Keys /\ Cardinality(reading) \in Nat
             /\ loads' = loads - 1 => loads' = Cardinality(reading') + Len(queue')
  <2>1. reading' = reading /\ queue' = Tail(queue) /\ queue # <<>> /\ phase = "write"
    BY <1>b DEF Popped
  <2>2. Len(queue') = Len(queue) - 1 /\ Head(queue).key \in Keys
    BY <1>a, <2>1, QueuePopped DEF Results
  <2>3. Cardinality(reading) \in Nat
    BY <1>a, FS_CardinalityType DEF CountInv
  <2>4. InFlight' = InFlight \ {Head(queue).key} /\ FlightInv'
    BY <1>a, <1>b, PoppedFlight
  <2> QED
    BY <1>a, <2>1, <2>2, <2>3, <2>4 DEF CountInv, PendingCounted
<1>c. ASSUME UNCHANGED <<live, map, transit>>, phase = "threw" => phase' = "threw"
      PROVE  Goal'
  <2>1. UNCHANGED <<live, map, loads, reading, queue>>
    BY <1>c DEF transit
  <2>2. InFlight' = InFlight
    BY <2>1 DEF InFlight
  <2>3. FlightInv'
    BY <1>a, <2>1, <2>2 DEF FlightInv
  <2>4. PendingCounted'
    BY <1>a, <1>c, <2>1, <2>2 DEF PendingCounted
  <2> QED
    BY <1>a, <2>1, <2>3, <2>4 DEF CountInv
<1>1. ASSUME NEW t \in Textures, Construct(t)
      PROVE  Goal'
  <2>1. /\ <<t, Root>> \in Keys /\ <<t, Root>>[1] \in live' /\ live \subseteq live'
        /\ Request(<<t, Root>>, TRUE) /\ phase = "draw"
    BY <1>1, KeysAre DEF Construct
  <2> QED
    BY <2>1, RequestCounts
<1>2. ASSUME NEW t \in Textures, Destroy(t)
      PROVE  Goal'
  <2>1. /\ UNCHANGED <<map, reading, queue, loads, phase>> /\ live' = live \ {t}
        /\ \A i \in Indexes : <<t, i>> \notin InFlight
    BY <1>2 DEF Destroy, Evict, transit, writing
  <2>2. InFlight' = InFlight
    BY <2>1 DEF InFlight
  <2>3. ASSUME NEW k \in InFlight
        PROVE  k[1] # t
    <3>1. k = <<k[1], k[2]>> /\ k[2] \in Indexes
      BY <1>a, FlightKeys, KeysAre
    <3> QED
      BY <2>1, <3>1
  <2> QED
    BY <1>a, <2>1, <2>2, <2>3 DEF FlightInv, CountInv, PendingCounted
<1>3. ASSUME NEW t \in Textures, NEW i \in Tiles, Unlock(t, i)
      PROVE  Goal'
  BY <1>3, <1>c DEF Unlock, textures, writing
<1>4. ASSUME NEW t \in Textures, NEW i \in Tiles, NEW locked \in BOOLEAN, Load(t, i, locked)
      PROVE  Goal'
  <2>1. CASE Request(<<t, i>>, locked)
    <3>1. /\ <<t, i>> \in Keys /\ <<t, i>>[1] \in live' /\ live \subseteq live'
          /\ phase = "draw"
      BY <1>4, KeysAre DEF Load, textures
    <3> QED
      BY <2>1, <3>1, RequestCounts
  <2>2. CASE Touch(<<t, i>>)
    BY <1>4, <2>2, <1>c DEF Load, Touch, textures, writing
  <2> QED
    BY <1>4, <2>1, <2>2 DEF Load
<1>5. ASSUME NEW r \in reading, NEW ok \in BOOLEAN, Read(r, ok)
      PROVE  Goal'
  <2>1. /\ reading' = reading \ {r} /\ UNCHANGED <<live, map, loads, phase>>
    BY <1>5 DEF Read, textures, indexes, writing
  <2>2. /\ IsFiniteSet(reading') /\ Cardinality(reading') = Cardinality(reading) - 1
        /\ Cardinality(reading) \in Nat
    BY <1>a, <2>1, FS_RemoveElement, FS_CardinalityType DEF CountInv
  <2>3. InFlight' = InFlight /\ FlightInv' /\ Len(queue') = Len(queue) + 1
    BY <1>5, <1>a, ReadFlight
  <2> QED
    BY <1>a, <2>1, <2>2, <2>3 DEF CountInv, PendingCounted
<1>6. CASE WriteBegin
  BY <1>6, <1>c DEF WriteBegin, textures, indexes
<1>7. CASE Forget
  <2>1. Popped /\ map' = [map EXCEPT ![Head(queue).key] = Absent] /\ loads' = loads - 1
    BY <1>7 DEF Forget
  <2>2. \A k \in Keys : map'[k] = Pending <=> k \in InFlight'
    <3>1. phase = "write"
      BY <2>1 DEF Popped
    <3>2. \A k \in Keys : map'[k] = IF k = Head(queue).key THEN Absent ELSE map[k]
      BY <1>a, <2>1 DEF TypeInv
    <3> QED
      BY <1>a, <1>b, <2>1, <3>1, <3>2, SlotsAre DEF PendingCounted
  <2> QED
    BY <1>b, <2>1, <2>2 DEF PendingCounted
<1>8. CASE Place
  <2> DEFINE new == Head(queue)
             s == Victim
  <2>1. Popped /\ Reassign(s, new) /\ loads' = loads - 1 /\ phase = "write"
    BY <1>8 DEF Place, Popped
  <2>2. s \in Slots /\ new.key \in Keys
    BY <1>8, <1>a, <1>b, <2>1, VictimIsUnlocked DEF Place
  <2>3. \A k \in Keys : map'[k] = IF k = new.key THEN s
                                  ELSE IF k = slot[s].key THEN Absent ELSE map[k]
    BY <1>a, <2>1, <2>2, Reassigned
  <2>4. \A k \in Keys : k = slot[s].key => k \notin InFlight
    BY <2>1, <2>2, AssignedIsLanded, NoKeyAssumption
  <2>5. \A k \in Keys : map[k] = Pending <=> k \in InFlight
    BY <1>a, <2>1 DEF PendingCounted
  <2>6. s # Pending /\ Absent # Pending
    BY <2>2, SlotsAre
  <2>7. \A k \in Keys : map'[k] = Pending <=> k \in InFlight'
    BY <1>b, <2>1, <2>3, <2>4, <2>5, <2>6
  <2> QED
    BY <1>b, <2>1, <2>7 DEF PendingCounted
<1>9. CASE Throw
  BY <1>9, <1>b DEF Throw, PendingCounted
<1>10. CASE WriteEnd
  BY <1>10, <1>c DEF WriteEnd, indexes
<1>11. CASE UNCHANGED vars
  BY <1>11, <1>c DEF vars, textures, indexes, writing
<1> QED
  BY <1>1, <1>2, <1>3, <1>4, <1>5, <1>6, <1>7, <1>8, <1>9, <1>10, <1>11
  DEF Next, Caller, Reader, Write

-----------------------------------------------------------------------------
(* The four indexes *)

(* A step that leaves the indexes alone, the lock of a slot apart. *)
LEMMA IndexFrame ==
  ASSUME IndexesAgree, UNCHANGED <<live, list, map, pages, table>>,
         \A s \in Slots : slot'[s].key = slot[s].key
  PROVE  IndexesAgree'
BY DEF IndexesAgree

(* A load of a page that is not there gives it an entry and no slot. *)
LEMMA RequestIndexes ==
  ASSUME IInv, NEW k \in Keys, NEW locked \in BOOLEAN, Request(k, locked)
  PROVE  /\ list' = list /\ slot' = slot /\ pages' = pages
         /\ \A t \in Textures, i \in Indexes, s \in Slots :
                map'[<<t, i>>] = s <=> map[<<t, i>>] = s
<1>1. map' = [map EXCEPT ![k] = Pending] /\ map[k] = Absent /\ map \in [Keys -> 0 .. Layers + 1]
  BY DEF Request, IInv, TypeInv
<1>2. \A j \in Keys, s \in Slots : map'[j] = s <=> map[j] = s
  BY <1>1, SlotsAre
<1> QED
  BY <1>2, KeysAre DEF Request

(* A load of a page that is there moves its slot to the back. *)
LEMMA TouchIndexes ==
  ASSUME TypeInv, IndexesAgree, NEW k \in Keys, Touch(k)
  PROVE  /\ slot' = slot /\ map' = map /\ pages' = pages
         /\ \A q, r \in Slots : list'[q] = list'[r] => q = r
<1>1. PICK s \in Slots : s = map[k]
  BY DEF Touch
<1>2. list' = ToBack(s) /\ slot' = slot /\ map' = map /\ pages' = pages
  BY <1>1 DEF Touch
<1> QED
  BY <1>2, ToBackOrders DEF IndexesAgree

(* A page that is placed takes the victim's slot in every index. *)
LEMMA PlaceIndexes == ASSUME IInv, Place PROVE IndexesAgree'
<1> DEFINE new == Head(queue)
           s == Victim
<1>1. Popped /\ Reassign(s, new) /\ phase = "write" /\ live' = live
  BY DEF Place, Popped
<1>2. s \in Slots
  BY VictimIsUnlocked DEF Place, IInv
<1>3. new.key \in Keys /\ new.key \in InFlight
  BY <1>1, FlightKeys, PoppedFlight DEF IInv
<1>4. new.key[1] \in live
  BY <1>3 DEF IInv, FlightInv
<1>5. /\ slot'[s].key = new.key
      /\ \A r \in Slots : r # s => slot'[r] = slot[r]
  BY <1>2 DEF Place, IInv, TypeInv
<1>6. \A r \in Slots : slot[r].key # new.key
  BY <1>1, <1>3, AssignedIsLanded, NoKeyAssumption
<1>7. \A r \in Slots : slot[r].key = slot[s].key /\ slot[s].key # NoKey => r = s
  BY <1>1, <1>2, AssignedIsLanded
<1>8. live \subseteq Textures /\ NoKey \notin Keys
  BY NoKeyAssumption DEF IInv, TypeInv
<1>9. TypeInv /\ IndexesAgree
  BY DEF IInv
<1>10. \A k \in Keys : map'[k] = IF k = new.key THEN s
                                 ELSE IF k = slot[s].key THEN Absent ELSE map[k]
  BY <1>1, <1>2, <1>3, <1>9, Reassigned, Zenon
<1>11. \A t \in Textures, i \in Indexes : table'[t][i] =
           IF <<t, i>> = new.key THEN s
           ELSE IF <<t, i>> = slot[s].key THEN Absent ELSE table[t][i]
  BY <1>1, <1>2, <1>3, <1>9, Reassigned, Zenon
<1>12. ASSUME NEW t \in live, NEW i \in Indexes, NEW r \in Slots
       PROVE  /\ map'[<<t, i>>] = r <=> slot'[r].key = <<t, i>>
              /\ table'[t][i] = r <=> slot'[r].key = <<t, i>>
  <2>1. PICK k \in Keys : k = <<t, i>>
    BY <1>8, KeysAre
  <2>2. r # Absent /\ s # Absent /\ t \in Textures
    BY <1>2, <1>8, SlotsAre
  <2>3. map'[k] = IF k = new.key THEN s ELSE IF k = slot[s].key THEN Absent ELSE map[k]
    BY <1>10
  <2>4. table'[t][i] = IF k = new.key THEN s ELSE IF k = slot[s].key THEN Absent ELSE table[t][i]
    BY <1>11, <2>1, <2>2
  <2>5. /\ map[k] = r <=> slot[r].key = k
        /\ table[t][i] = r <=> slot[r].key = k
    BY <1>9, <2>1 DEF IndexesAgree
  <2>6. slot'[r].key = IF r = s THEN new.key ELSE slot[r].key
    BY <1>5
  <2>7. CASE k = new.key
    <3>1. slot'[r].key = k <=> r = s
      BY <1>6, <2>6, <2>7
    <3> QED
      BY <2>1, <2>3, <2>4, <2>7, <3>1
  <2>8. CASE k # new.key /\ k = slot[s].key
    <3>1. slot[r].key = k => r = s
      BY <1>7, <1>8, <2>8
    <3>2. slot'[r].key # k
      BY <2>6, <2>8, <3>1
    <3>3. map'[k] = Absent /\ table'[t][i] = Absent
      BY <2>3, <2>4, <2>8
    <3> QED
      BY <2>1, <2>2, <3>2, <3>3
  <2>9. CASE k # new.key /\ k # slot[s].key
    <3>1. slot'[r].key = k <=> slot[r].key = k
      BY <2>6, <2>9
    <3>2. map'[k] = map[k] /\ table'[t][i] = table[t][i]
      BY <2>3, <2>4, <2>9
    <3> QED
      BY <2>1, <2>5, <3>1, <3>2
  <2> QED
    BY <2>7, <2>8, <2>9
<1>13. ASSUME NEW r \in Slots, slot'[r].key # NoKey
       PROVE  slot'[r].key[1] \in live
  BY <1>4, <1>5, <1>9, <1>13 DEF IndexesAgree
<1>14. ASSUME NEW t \in Textures, NEW r \in Slots
       PROVE  r \in pages'[t] <=> slot'[r].key # NoKey /\ slot'[r].key[1] = t
  <2>1. r \in pages'[t] <=>
            \/ r = s /\ t = new.key[1]
            \/ r \in pages[t] /\ ~ (r = s /\ slot[s].key # NoKey /\ t = slot[s].key[1])
    BY <1>1, <1>2, <1>3, <1>9, Reassigned
  <2>2. r \in pages[t] <=> slot[r].key # NoKey /\ slot[r].key[1] = t
    BY <1>9 DEF IndexesAgree
  <2>3. new.key # NoKey
    BY <1>3, <1>8
  <2> QED
    BY <1>5, <2>1, <2>2, <2>3
<1>15. \A q, r \in Slots : list'[q] = list'[r] => q = r
  BY <1>2, <1>9, ToBackOrders DEF Place, IndexesAgree
<1> QED
  BY <1>1, <1>12, <1>13, <1>14, <1>15 DEF IndexesAgree

(* A texture that is destroyed leaves no slot behind it. *)
LEMMA DestroyIndexes == ASSUME IInv, NEW t \in Textures, Destroy(t) PROVE IndexesAgree'
<1>1. /\ live' = live \ {t} /\ UNCHANGED <<map, table>> /\ list' = Evicted(t)
      /\ pages' = [pages EXCEPT ![t] = {}]
      /\ slot' = [s \in Slots |-> IF s \in pages[t]
                      THEN [key |-> NoKey, locked |-> FALSE] ELSE slot[s]]
  BY DEF Destroy, Evict
<1>2. TypeInv /\ IndexesAgree /\ NoKey \notin Keys /\ live \subseteq Textures
  BY NoKeyAssumption DEF IInv, TypeInv
<1>3. \A s \in Slots : s \in pages[t] <=> slot[s].key # NoKey /\ slot[s].key[1] = t
  BY <1>2 DEF IndexesAgree
<1>4. \A s \in Slots : slot'[s].key = IF s \in pages[t] THEN NoKey ELSE slot[s].key
  BY <1>1
<1>5. ASSUME NEW u \in live', NEW i \in Indexes, NEW s \in Slots
      PROVE  /\ map'[<<u, i>>] = s <=> slot'[s].key = <<u, i>>
             /\ table'[u][i] = s <=> slot'[s].key = <<u, i>>
  <2>1. u \in live /\ u # t /\ <<u, i>> # NoKey /\ <<u, i>>[1] = u
    BY <1>1, <1>2, KeysAre
  <2>2. slot'[s].key = <<u, i>> <=> slot[s].key = <<u, i>>
    BY <1>3, <1>4, <2>1
  <2> QED
    BY <1>1, <1>2, <2>1, <2>2 DEF IndexesAgree
<1>6. \A s \in Slots : slot'[s].key # NoKey => slot'[s].key[1] \in live'
  BY <1>1, <1>2, <1>3, <1>4 DEF IndexesAgree
<1>7. ASSUME NEW u \in Textures, NEW s \in Slots
      PROVE  s \in pages'[u] <=> slot'[s].key # NoKey /\ slot'[s].key[1] = u
  <2>1. pages'[u] = IF u = t THEN {} ELSE pages[u]
    BY <1>1, <1>2 DEF TypeInv
  <2>2. s \in pages[u] <=> slot[s].key # NoKey /\ slot[s].key[1] = u
    BY <1>2 DEF IndexesAgree
  <2> QED
    BY <1>3, <1>4, <2>1, <2>2
<1>8. \A q, r \in Slots : list'[q] = list'[r] => q = r
  BY <1>1, <1>2, EvictedOrders DEF IndexesAgree
<1> QED
  BY <1>5, <1>6, <1>7, <1>8 DEF IndexesAgree

(* A new texture has no slot. *)
LEMMA ConstructIndexes == ASSUME IInv, NEW t \in Textures, Construct(t) PROVE IndexesAgree'
<1>1. /\ live' = live \union {t} /\ table' = [table EXCEPT ![t] = Blank] /\ t \notin live
      /\ Request(<<t, Root>>, TRUE) /\ \A i \in Indexes : map[<<t, i>>] = Absent
  BY DEF Construct
<1>2. TypeInv /\ IndexesAgree /\ NoKey \notin Keys /\ live \subseteq Textures
  BY NoKeyAssumption DEF IInv, TypeInv
<1>3. /\ list' = list /\ slot' = slot /\ pages' = pages
      /\ \A u \in Textures, i \in Indexes, s \in Slots :
             map'[<<u, i>>] = s <=> map[<<u, i>>] = s
  BY <1>1, RequestIndexes, KeysAre
<1>4. ASSUME NEW u \in live', NEW i \in Indexes, NEW s \in Slots
      PROVE  /\ map'[<<u, i>>] = s <=> slot'[s].key = <<u, i>>
             /\ table'[u][i] = s <=> slot'[s].key = <<u, i>>
  <2>1. CASE u = t
    <3>1. <<u, i>> \in Keys /\ <<u, i>>[1] = t /\ s # Absent
      BY <2>1, KeysAre, SlotsAre
    <3>2. slot[s].key # <<u, i>>
      BY <1>1, <1>2, <3>1 DEF IndexesAgree
    <3>3. table'[u][i] = Absent
      BY <1>1, <1>2, <2>1 DEF TypeInv, Blank
    <3> QED
      BY <1>1, <1>3, <2>1, <3>1, <3>2, <3>3
  <2>2. CASE u # t
    <3>1. u \in live /\ u \in Textures /\ table'[u] = table[u]
      BY <1>1, <1>2, <2>2 DEF TypeInv
    <3> QED
      BY <1>2, <1>3, <3>1 DEF IndexesAgree
  <2> QED
    BY <2>1, <2>2
<1> QED
  BY <1>1, <1>2, <1>3, <1>4 DEF IndexesAgree

(* The indexes agree after every step. *)
LEMMA NextIndexes == IInv /\ [Next]_vars => IndexesAgree'
<1> SUFFICES ASSUME IInv, [Next]_vars PROVE IndexesAgree'
  OBVIOUS
<1>a. TypeInv /\ IndexesAgree /\ live \subseteq Textures
  BY DEF IInv, TypeInv
<1>1. ASSUME NEW t \in Textures, NEW i \in Tiles, Unlock(t, i)
      PROVE  IndexesAgree'
  <2>1. \A s \in Slots : slot'[s].key = slot[s].key
    BY <1>a, <1>1 DEF Unlock, TypeInv
  <2> QED
    BY <1>a, <1>1, <2>1, IndexFrame DEF Unlock, textures
<1>2. ASSUME NEW t \in Textures, NEW i \in Tiles, NEW locked \in BOOLEAN, Load(t, i, locked)
      PROVE  IndexesAgree'
  <2>1. <<t, i>> \in Keys /\ UNCHANGED <<live, table>>
    BY <1>2, KeysAre DEF Load, textures
  <2>2. CASE Request(<<t, i>>, locked)
    BY <1>a, <2>1, <2>2, RequestIndexes DEF IndexesAgree
  <2>3. CASE Touch(<<t, i>>)
    BY <1>a, <2>1, <2>3, TouchIndexes DEF IndexesAgree
  <2> QED
    BY <1>2, <2>2, <2>3 DEF Load
<1>3. ASSUME NEW r \in reading, NEW ok \in BOOLEAN, Read(r, ok)
      PROVE  IndexesAgree'
  BY <1>3, <1>a, IndexFrame DEF Read, textures, indexes
<1>4. CASE WriteBegin
  BY <1>4, <1>a, IndexFrame DEF WriteBegin, textures, indexes
<1>5. CASE Forget
  <2>1. /\ map' = [map EXCEPT ![Head(queue).key] = Absent] /\ phase = "write"
        /\ UNCHANGED <<live, list, slot, pages, table>> /\ Popped
    BY <1>5 DEF Forget, Popped
  <2>2. Head(queue).key \in Keys /\ map[Head(queue).key] = Pending
    BY <2>1, FlightKeys, PoppedFlight DEF IInv, PendingCounted
  <2>3. \A k \in Keys, s \in Slots : map'[k] = s <=> map[k] = s
    BY <1>a, <2>1, <2>2, SlotsAre DEF TypeInv
  <2>4. \A t \in live, i \in Indexes : <<t, i>> \in Keys
    BY <1>a, KeysAre
  <2> QED
    BY <1>a, <2>1, <2>3, <2>4 DEF IndexesAgree
<1>6. CASE Throw
  BY <1>6, <1>a, IndexFrame DEF Throw, Popped, indexes
<1>7. CASE WriteEnd
  BY <1>7, <1>a, IndexFrame DEF WriteEnd, indexes
<1>8. CASE UNCHANGED vars
  BY <1>8, <1>a, IndexFrame DEF vars, textures, indexes
<1> QED
  BY <1>1, <1>2, <1>3, <1>4, <1>5, <1>6, <1>7, <1>8,
     PlaceIndexes, DestroyIndexes, ConstructIndexes DEF Next, Caller, Reader, Write

-----------------------------------------------------------------------------
(* What is drawn *)

(* A layer keeps the image of the page that has its slot. *)
LEMMA NextArray == IInv /\ [Next]_vars => ArrayInv'
<1> SUFFICES ASSUME IInv, [Next]_vars PROVE ArrayInv'
  OBVIOUS
<1>a. TypeInv /\ ArrayInv
  BY DEF IInv
<1>1. ASSUME array' = array, \A s \in Slots : slot'[s].key \in {slot[s].key, NoKey}
      PROVE  ArrayInv'
  BY <1>a, <1>1 DEF ArrayInv
<1>2. ASSUME NEW t \in Textures, Construct(t)
      PROVE  ArrayInv'
  BY <1>1, <1>2 DEF Construct, Request
<1>3. ASSUME NEW t \in Textures, Destroy(t)
      PROVE  ArrayInv'
  <2>1. \A s \in Slots : slot'[s].key \in {slot[s].key, NoKey}
    BY <1>3 DEF Destroy, Evict
  <2> QED
    BY <1>1, <1>3, <2>1 DEF Destroy
<1>4. ASSUME NEW t \in Textures, NEW i \in Tiles, Unlock(t, i)
      PROVE  ArrayInv'
  <2>1. \A s \in Slots : slot'[s].key = slot[s].key
    BY <1>a, <1>4 DEF Unlock, TypeInv
  <2> QED
    BY <1>1, <1>4, <2>1 DEF Unlock
<1>5. ASSUME NEW t \in Textures, NEW i \in Tiles, NEW locked \in BOOLEAN, Load(t, i, locked)
      PROVE  ArrayInv'
  BY <1>1, <1>5 DEF Load, Request, Touch
<1>6. ASSUME NEW r \in reading, NEW ok \in BOOLEAN, Read(r, ok)
      PROVE  ArrayInv'
  BY <1>1, <1>6 DEF Read, indexes
<1>7. CASE WriteBegin
  BY <1>1, <1>7 DEF WriteBegin, indexes
<1>8. CASE Forget
  BY <1>1, <1>8 DEF Forget
<1>9. CASE Place
  <2>1. Victim \in Slots
    BY <1>a, <1>9, VictimIsUnlocked DEF Place
  <2>2. \A s \in Slots : IF s = Victim
            THEN slot'[s].key = Head(queue).key /\ array'[s] = Head(queue).key
            ELSE slot'[s] = slot[s] /\ array'[s] = array[s]
    BY <1>a, <1>9, <2>1 DEF Place, TypeInv
  <2> QED
    BY <1>a, <2>2 DEF ArrayInv
<1>10. CASE Throw
  BY <1>1, <1>10 DEF Throw, indexes
<1>11. CASE WriteEnd
  BY <1>1, <1>11 DEF WriteEnd, indexes
<1>12. CASE UNCHANGED vars
  BY <1>1, <1>12 DEF vars, indexes
<1> QED
  BY <1>2, <1>3, <1>4, <1>5, <1>6, <1>7, <1>8, <1>9, <1>10, <1>11, <1>12
  DEF Next, Caller, Reader, Write

(* What the device has lags behind only in what is marked. *)
LEMMA NextShown == IInv /\ [Next]_vars => ShownInv'
<1> SUFFICES ASSUME IInv, [Next]_vars PROVE ShownInv'
  OBVIOUS
<1>a. TypeInv /\ ShownInv /\ live \subseteq Textures
  BY DEF IInv, TypeInv
<1>1. ASSUME live' \subseteq live, UNCHANGED <<table, bits, shown, dirty>>,
             phase' = phase \/ (phase = "draw" /\ phase' = "write")
      PROVE  ShownInv'
  BY <1>a, <1>1 DEF ShownInv
<1>2. ASSUME NEW t \in Textures, Construct(t)
      PROVE  ShownInv'
  <2>1. /\ phase = "draw" /\ live' = live \union {t} /\ phase' = phase /\ dirty' = dirty
        /\ table' = [table EXCEPT ![t] = Blank] /\ shown' = [shown EXCEPT ![t] = Blank]
        /\ bits' = [bits EXCEPT ![t] = {}]
    BY <1>2 DEF Construct, writing
  <2>2. /\ table'[t] = Blank /\ shown'[t] = Blank /\ bits'[t] = {}
        /\ \A u \in live : u # t => /\ table'[u] = table[u] /\ shown'[u] = shown[u]
                                    /\ bits'[u] = bits[u]
    BY <1>a, <2>1 DEF TypeInv
  <2> QED
    BY <1>a, <2>1, <2>2 DEF ShownInv
<1>3. ASSUME NEW t \in Textures, Destroy(t)
      PROVE  ShownInv'
  BY <1>1, <1>3 DEF Destroy, writing
<1>4. ASSUME NEW t \in Textures, NEW i \in Tiles, Unlock(t, i)
      PROVE  ShownInv'
  BY <1>1, <1>4 DEF Unlock, textures, writing
<1>5. ASSUME NEW t \in Textures, NEW i \in Tiles, NEW locked \in BOOLEAN, Load(t, i, locked)
      PROVE  ShownInv'
  BY <1>1, <1>5 DEF Load, textures, writing
<1>6. ASSUME NEW r \in reading, NEW ok \in BOOLEAN, Read(r, ok)
      PROVE  ShownInv'
  BY <1>1, <1>6 DEF Read, textures, writing
<1>7. CASE WriteBegin
  BY <1>1, <1>7 DEF WriteBegin, textures
<1>8. CASE Forget
  BY <1>1, <1>8 DEF Forget, Popped, writing
<1>9. CASE Place
  <2> DEFINE new == Head(queue)
             s == Victim
  <2>1. Reassign(s, new) /\ phase = "write" /\ phase' = "write" /\ live' = live /\ shown' = shown
    BY <1>9 DEF Place, Popped
  <2>2. s \in Slots /\ new.key \in Keys
    BY <1>a, <1>9, VictimIsUnlocked, QueuePopped DEF Place, Popped, Results
  <2>3. \A t \in Textures : /\ bits[t] \subseteq bits'[t]
                            /\ t \in dirty => t \in dirty'
                            /\ bits'[t] # bits[t] => t \in dirty'
    BY <1>a, <2>1, <2>2, Reassigned
  <2>4. \A t \in Textures, i \in Indexes :
            <<t, i>> = new.key \/ <<t, i>> = slot[s].key => Level(i) \in bits'[t]
    BY <1>a, <2>1, <2>2, Reassigned
  <2>5. \A t \in Textures, i \in Indexes : table'[t][i] =
            IF <<t, i>> = new.key THEN s
            ELSE IF <<t, i>> = slot[s].key THEN Absent ELSE table[t][i]
    BY <1>a, <2>1, <2>2, Reassigned, Zenon
  <2>6. \A t \in Textures, i \in Indexes : Level(i) \notin bits'[t] => table'[t][i] = table[t][i]
    BY <2>4, <2>5
  <2>7. ASSUME NEW t \in live, bits'[t] # {}
        PROVE  t \in dirty'
    BY <1>a, <2>1, <2>3, <2>7 DEF ShownInv
  <2>8. ASSUME NEW t \in live, NEW i \in Indexes, Level(i) \notin bits'[t]
        PROVE  shown'[t][i] = table'[t][i]
    BY <1>a, <2>1, <2>3, <2>6, <2>8 DEF ShownInv
  <2> QED
    BY <2>1, <2>7, <2>8 DEF ShownInv
<1>10. CASE Throw
  BY <1>10 DEF Throw, ShownInv
<1>11. CASE WriteEnd
  <2>1. /\ phase = "write" /\ phase' = "draw" /\ dirty' = {} /\ live' = live /\ table' = table
    BY <1>11 DEF WriteEnd, indexes
  <2>2. \A t \in live : bits'[t] = IF t \in dirty THEN {} ELSE bits[t]
    BY <1>a, <1>11 DEF WriteEnd
  <2>3. \A t \in live, i \in Indexes : shown'[t][i] =
            IF t \in dirty /\ Level(i) \in bits[t] THEN table[t][i] ELSE shown[t][i]
    BY <1>a, <1>11 DEF WriteEnd
  <2>4. \A t \in live : bits'[t] = {} /\ (bits[t] # {} => t \in dirty)
    BY <1>a, <2>1, <2>2 DEF ShownInv
  <2>5. \A t \in live, i \in Indexes : shown'[t][i] = table[t][i]
    BY <1>a, <2>1, <2>3, <2>4 DEF ShownInv
  <2> QED
    BY <2>1, <2>4, <2>5 DEF ShownInv
<1>12. CASE UNCHANGED vars
  BY <1>1, <1>12 DEF vars, textures, writing
<1> QED
  BY <1>2, <1>3, <1>4, <1>5, <1>6, <1>7, <1>8, <1>9, <1>10, <1>11, <1>12
  DEF Next, Caller, Reader, Write

-----------------------------------------------------------------------------
(* The theorems *)

(* The constructor of page_cache leaves every index empty. *)
LEMMA InitIInv == Init => IInv
<1> SUFFICES ASSUME Init PROVE IInv
  OBVIOUS
<1>1. Blank \in [Indexes -> 0 .. Layers]
  BY SlotsAre DEF Blank
<1>2. TypeInv
  BY <1>1, SlotsAre DEF Init, TypeInv
<1>3. InFlight = {}
  BY DEF Init, InFlight
<1>4. \A t \in Textures, i \in Indexes : <<t, i>> \in Keys /\ <<t, i>> # NoKey
  BY KeysAre, NoKeyAssumption
<1>5. IndexesAgree
  BY DEF Init, IndexesAgree
<1>6. FlightInv
  BY <1>3 DEF Init, FlightInv
<1>7. CountInv
  BY FS_EmptySet DEF Init, CountInv
<1>8. PendingCounted
  BY <1>3, FS_EmptySet, SlotsAre DEF Init, PendingCounted
<1>9. ArrayInv /\ ShownInv
  BY DEF Init, ArrayInv, ShownInv
<1> QED
  BY <1>2, <1>5, <1>6, <1>7, <1>8, <1>9 DEF IInv

(* The strengthened invariant is inductive. *)
LEMMA SpecIInv == Spec => []IInv
<1>1. IInv /\ [Next]_vars => IInv'
  BY NextTypeInv, NextIndexes, NextCounts, NextArray, NextShown DEF IInv
<1> QED
  BY InitIInv, <1>1, PTL DEF Spec

(* list, map, pages and the page tables of page_cache and virtual_texture  *)
(* agree after any calls, reads and writes.                                *)
THEOREM IndexesAlwaysAgree == Spec => []IndexesAgree
<1>1. IInv => IndexesAgree
  BY DEF IInv
<1> QED
  BY SpecIInv, <1>1, PTL

(* A page table points at the slot of the page. *)
LEMMA TablesLead ==
  ASSUME IndexesAgree, NEW t \in live, NEW i \in Indexes, NEW s \in Slots, table[t][i] = s
  PROVE  slot[s].key = <<t, i>>
<1>1. PICK k : k = <<t, i>>
  OBVIOUS
<1>2. (table[t][i] = s) <=> (slot[s].key = k)
  BY <1>1 DEF IndexesAgree
<1> QED
  BY <1>1, <1>2

(* Outside write(), the page table on the device leads the shader to the   *)
(* image of the page that it asked for.                                    *)
THEOREM ShownIsRight == Spec => []ShownRight
<1>1. IInv => ShownRight
  <2> SUFFICES ASSUME IInv, phase = "draw", NEW t \in live, NEW i \in Indexes,
                        shown[t][i] # Absent
                 PROVE  array[shown[t][i]] = <<t, i>>
    BY DEF ShownRight
  <2>1. /\ TypeInv /\ IndexesAgree /\ ArrayInv /\ ShownInv
        /\ t \in Textures /\ shown[t][i] \in 0 .. Layers
    BY DEF IInv, TypeInv
  <2>2. bits[t] = {} /\ shown[t][i] = table[t][i]
    BY <2>1 DEF ShownInv
  <2>3. PICK s \in Slots : s = shown[t][i]
    BY <2>1, LayersAssumption DEF Slots, Absent
  <2>4. slot[s].key = <<t, i>>
    BY <2>1, <2>2, <2>3, TablesLead
  <2>5. <<t, i>> # NoKey
    BY <2>1, KeysAre, NoKeyAssumption
  <2> QED
    BY <2>1, <2>3, <2>4, <2>5 DEF ArrayInv
<1> QED
  BY SpecIInv, <1>1, PTL

(* page_cache::pending() is exact until write() throws. *)
THEOREM PendingIsCounted == Spec => []PendingCounted
<1>1. IInv => PendingCounted
  BY DEF IInv
<1> QED
  BY SpecIInv, <1>1, PTL

(* No request of another page takes the slot of a locked one. *)
THEOREM LockedKeepSlots == Spec => LockedStays
<1> DEFINE Stays == \A s \in Slots : slot[s].locked /\ slot[s].key[1] \in live'
                        => slot'[s].key = slot[s].key
<1>1. IInv /\ [Next]_vars => [Stays]_vars
  <2> SUFFICES ASSUME IInv, Next, NEW s \in Slots,
                      slot[s].locked, slot[s].key[1] \in live'
               PROVE  slot'[s].key = slot[s].key
    OBVIOUS
  <2>a. TypeInv /\ IndexesAgree
    BY DEF IInv
  <2>1. ASSUME NEW t \in Textures, Construct(t)
        PROVE  slot'[s].key = slot[s].key
    BY <2>1 DEF Construct, Request
  <2>2. ASSUME NEW t \in Textures, Destroy(t)
        PROVE  slot'[s].key = slot[s].key
    <3>1. s \notin pages[t]
      BY <2>2, <2>a DEF Destroy, IndexesAgree
    <3> QED
      BY <2>2, <3>1 DEF Destroy, Evict
  <2>3. ASSUME NEW t \in Textures, NEW i \in Tiles, Unlock(t, i)
        PROVE  slot'[s].key = slot[s].key
    BY <2>3, <2>a DEF Unlock, TypeInv
  <2>4. ASSUME NEW t \in Textures, NEW i \in Tiles, NEW locked \in BOOLEAN, Load(t, i, locked)
        PROVE  slot'[s].key = slot[s].key
    BY <2>4 DEF Load, Request, Touch
  <2>5. CASE Place
    <3>1. Victim # s
      BY <2>5, <2>a, VictimIsUnlocked DEF Place
    <3> QED
      BY <2>5, <2>a, <3>1 DEF Place, TypeInv
  <2>6. CASE Reader \/ WriteBegin \/ Forget \/ Throw \/ WriteEnd
    BY <2>6 DEF Reader, Read, WriteBegin, Forget, Throw, WriteEnd, indexes
  <2> QED
    BY <2>1, <2>2, <2>3, <2>4, <2>5, <2>6 DEF Next, Caller, Write
<1>2. Spec => [][Stays]_vars
  BY SpecIInv, <1>1, PTL DEF Spec
<1> QED
  BY <1>2 DEF LockedStays
=============================================================================
