----------------------------- MODULE PageCache ------------------------------
(***************************************************************************)
(* page_cache and virtual_texture: a texture array of a few slots holds    *)
(* the pages of any number of textures.  Pages are read by the threads of  *)
(* a pool, placed by page_cache::write on the main thread, and found       *)
(* through four indexes that must agree: the list in order of use, the map *)
(* of keys, the pages of each texture, and the page table that the shader  *)
(* samples, of which the device has a copy.                                *)
(*                                                                         *)
(* Two duties the code leaves to its callers are the guards of Construct,  *)
(* Destroy and Unlock; the README says what happens without them.          *)
(***************************************************************************)
EXTENDS Naturals, Sequences, FiniteSets

CONSTANTS Textures,     \* addresses of virtual_texture objects
          Tiles,        \* the indexes of a texture's pages on its finest level
          Root,         \* the one page of its coarsest level
          NoKey,        \* key_type( 0, pyramid_index() )
          Layers,       \* the layers of the texture array
          MaxLoads      \* a bound on reads that are under way

ASSUME RootAssumption == Root \notin Tiles
ASSUME LayersAssumption == Layers \in Nat \ {0}
ASSUME MaxLoadsAssumption == MaxLoads \in Nat

Slots == 1 .. Layers
Indexes == Tiles \union {Root}
Level(i) == IF i = Root THEN "coarse" ELSE "fine"
Keys == Textures \X Indexes
Absent == 0                     \* no entry in a map, -1 in a page table
Pending == Layers + 1           \* an entry of the map whose iterator is null

ASSUME NoKeyAssumption == NoKey \notin Keys

VARIABLES live,         \* the textures that exist
          list,         \* page_cache::list: where each slot is in it, 1 is the front
          slot,         \* for each slot its key and its lock
          map,          \* page_cache::map
          pages,        \* page_cache::pages: the slots of each texture, in no order
          loads,        \* page_cache::loads
          reading,      \* reads handed to the pool
          queue,        \* page_cache::queue: what has been read
          table, bits,  \* virtual_texture::pyramid and bitset
          shown,        \* the page table on the device
          array,        \* the image in each layer of the array: the key of a page
          phase,        \* "draw", "write" while write() is under way, "threw" after
          dirty         \* the local vector of textures of write()

textures == <<live, table, bits, shown>>
indexes == <<list, slot, map, pages>>
transit == <<loads, reading, queue>>
writing == <<phase, dirty>>
vars == <<textures, indexes, transit, array, writing>>

Blank == [i \in Indexes |-> Absent]

Init == /\ live = {}
        /\ list = [s \in Slots |-> s]
        /\ slot = [s \in Slots |-> [key |-> NoKey, locked |-> FALSE]]
        /\ map = [k \in Keys |-> Absent]
        /\ pages = [t \in Textures |-> {}]
        /\ loads = 0 /\ reading = {} /\ queue = <<>>
        /\ table = [t \in Textures |-> Blank]
        /\ shown = table
        /\ bits = [t \in Textures |-> {}]
        /\ array = [s \in Slots |-> NoKey]
        /\ phase = "draw" /\ dirty = {}

(* list.splice( list.end(), list, s ) *)
ToBack(s) == [r \in Slots |-> IF r = s THEN Layers
                              ELSE IF list[r] > list[s] THEN list[r] - 1 ELSE list[r]]

InFlight == {r.key : r \in reading} \union {queue[n].key : n \in DOMAIN queue}

-----------------------------------------------------------------------------
(* page_cache::load *)

Request(k, locked) ==
    /\ map[k] = Absent /\ loads < MaxLoads
    /\ map' = [map EXCEPT ![k] = Pending]
    /\ loads' = loads + 1
    /\ reading' = reading \union {[key |-> k, locked |-> locked]}
    /\ UNCHANGED <<list, slot, pages, queue>>

Touch(k) == /\ map[k] \in Slots
            /\ list' = ToBack(map[k])
            /\ UNCHANGED <<slot, map, pages, transit>>

(* A page that is asked for again while it is read: nothing to do. *)
Load(t, i, locked) ==
    /\ phase = "draw" /\ t \in live
    /\ Request(<<t, i>>, locked) \/ Touch(<<t, i>>)
    /\ UNCHANGED <<textures, array, writing>>

(* page_cache::unlock.  The entry of a page that is still being read holds *)
(* a null iterator, which the code would follow.                           *)
Unlock(t, i) ==
    /\ phase = "draw" /\ t \in live
    /\ map[<<t, i>>] \in Slots
    /\ slot' = [slot EXCEPT ![map[<<t, i>>]].locked = FALSE]
    /\ UNCHANGED <<textures, list, map, pages, transit, array, writing>>

(* virtual_texture::virtual_texture loads and locks the coarsest page.  An *)
(* address that has left entries in the map is not used again.             *)
Construct(t) ==
    /\ phase = "draw" /\ t \notin live
    /\ \A i \in Indexes : map[<<t, i>>] = Absent
    /\ live' = live \union {t}
    /\ table' = [table EXCEPT ![t] = Blank]
    /\ shown' = [shown EXCEPT ![t] = Blank]
    /\ bits' = [bits EXCEPT ![t] = {}]
    /\ Request(<<t, Root>>, TRUE)
    /\ UNCHANGED <<array, writing>>

(* page_cache::evict moves the slots of a texture to the front, but for    *)
(* the one that is there already.  They are blank then, and their order is *)
(* not told apart: here it stays.                                          *)
Moved(t) == {s \in pages[t] : list[s] # 1}
InFront(r, s, moved) == IF r \in moved <=> s \in moved THEN list[r] <= list[s] ELSE r \in moved
Evicted(t) == [s \in Slots |-> Cardinality({r \in Slots : InFront(r, s, Moved(t))})]

Evict(t) ==
    /\ list' = Evicted(t)
    /\ slot' = [s \in Slots |-> IF s \in pages[t]
                                THEN [key |-> NoKey, locked |-> FALSE] ELSE slot[s]]
    /\ pages' = [pages EXCEPT ![t] = {}]
    /\ UNCHANGED map

(* virtual_texture::~virtual_texture, once nothing of it is being read. *)
Destroy(t) ==
    /\ phase = "draw" /\ t \in live
    /\ \A i \in Indexes : <<t, i>> \notin InFlight
    /\ live' = live \ {t}
    /\ Evict(t)
    /\ UNCHANGED <<table, bits, shown, transit, array, writing>>

-----------------------------------------------------------------------------
(* page_cache::read, on a thread of the pool *)

Read(r, ok) ==
    /\ reading' = reading \ {r}
    /\ queue' = Append(queue, [key |-> r.key, locked |-> r.locked, ok |-> ok])
    /\ UNCHANGED <<textures, indexes, loads, array, writing>>

-----------------------------------------------------------------------------
(* page_cache::write.  The callers write while pending() is not zero. *)

WriteBegin == /\ phase = "draw" /\ loads > 0
              /\ phase' = "write"
              /\ UNCHANGED <<textures, indexes, transit, array, dirty>>

Popped == /\ phase = "write" /\ queue # <<>>
          /\ queue' = Tail(queue)
          /\ UNCHANGED <<live, shown, reading>>

(* Mutant: the entry of a page that could not be read stays. *)
ForgetNothing == Popped /\ ~ Head(queue).ok /\ loads' = loads - 1
                 /\ UNCHANGED <<indexes, table, bits, array, writing>>

Forget == /\ Popped /\ ~ Head(queue).ok
          /\ map' = [map EXCEPT ![Head(queue).key] = Absent]
          /\ loads' = loads - 1
          /\ UNCHANGED <<list, slot, pages, table, bits, array, writing>>

Unlocked == {s \in Slots : ~ slot[s].locked}

(* The page table of k's texture says s, and is to be written. *)
Point(tab, k, s) == [tab EXCEPT ![k[1]][k[2]] = s]
Mark(b, k) == [b EXCEPT ![k[1]] = @ \union {Level(k[2])}]

(* insert_page and erase_page *)
InsertPage(p, k, s) == [p EXCEPT ![k[1]] = @ \union {s}]
ErasePage(p, k, s) == [p EXCEPT ![k[1]] = @ \ {s}]

(* Mutant: the page that loses its slot stays in its page table. *)
PlaceOver(s, new) ==
    /\ map' = [map EXCEPT ![new.key] = s]
    /\ pages' = InsertPage(pages, new.key, s)
    /\ table' = Point(table, new.key, s)
    /\ bits' = Mark(bits, new.key)
    /\ dirty' = dirty \union {new.key[1]}

(* The slot's old page, if it has one, leaves the indexes; the new one enters. *)
Reassign(s, new) ==
    LET old == slot[s].key IN
    IF old = NoKey THEN
        /\ map' = [map EXCEPT ![new.key] = s]
        /\ pages' = InsertPage(pages, new.key, s)
        /\ table' = Point(table, new.key, s)
        /\ bits' = Mark(bits, new.key)
        /\ dirty' = dirty \union {new.key[1]}
    ELSE
        /\ map' = [map EXCEPT ![old] = Absent, ![new.key] = s]
        /\ pages' = InsertPage(ErasePage(pages, old, s), new.key, s)
        /\ table' = Point(Point(table, old, Absent), new.key, s)
        /\ bits' = Mark(Mark(bits, old), new.key)
        /\ dirty' = dirty \union {old[1], new.key[1]}

(* Mutant: the most recently used page gives way, whether it is locked or not. *)
VictimLast == CHOOSE s \in Slots : list[s] = Layers

Victim == CHOOSE s \in Unlocked : \A r \in Unlocked : list[s] <= list[r]

Place == /\ Popped /\ Head(queue).ok /\ Unlocked # {}
         /\ LET new == Head(queue) IN
            /\ Reassign(Victim, new)
            /\ slot' = [slot EXCEPT ![Victim] = [key |-> new.key, locked |-> new.locked]]
            /\ list' = ToBack(Victim)
            /\ array' = [array EXCEPT ![Victim] = new.key]
         /\ loads' = loads - 1
         /\ UNCHANGED phase

(* "All pages are locked": the request is lost and still counted, its entry *)
(* pending, and the textures that were touched before are not written.  No *)
(* caller of write() catches it.                                           *)
Throw == /\ Popped /\ Head(queue).ok /\ Unlocked = {}
         /\ phase' = "threw" /\ dirty' = {}
         /\ UNCHANGED <<indexes, table, bits, loads, array>>

(* Mutant: virtual_texture::write is called for one of the textures. *)
WriteOne == /\ phase = "write" /\ queue = <<>>
            /\ LET d == CHOOSE t \in Textures : t \in dirty \/ dirty = {} IN
               /\ shown' = [shown EXCEPT ![d] = [i \in Indexes |->
                      IF Level(i) \in bits[d] THEN table[d][i] ELSE shown[d][i]]]
               /\ bits' = [bits EXCEPT ![d] = {}]
            /\ phase' = "draw" /\ dirty' = {}
            /\ UNCHANGED <<live, table, indexes, transit, array>>

(* The queue is found empty: virtual_texture::write for each of dirty. *)
WriteEnd == /\ phase = "write" /\ queue = <<>>
            /\ shown' = [t \in Textures |-> [i \in Indexes |->
                   IF t \in dirty /\ Level(i) \in bits[t] THEN table[t][i] ELSE shown[t][i]]]
            /\ bits' = [t \in Textures |-> IF t \in dirty THEN {} ELSE bits[t]]
            /\ phase' = "draw" /\ dirty' = {}
            /\ UNCHANGED <<live, table, indexes, transit, array>>

-----------------------------------------------------------------------------
Caller == \E t \in Textures :
    \/ Construct(t) \/ Destroy(t)
    \/ \E i \in Tiles : Unlock(t, i) \/ \E locked \in BOOLEAN : Load(t, i, locked)

Reader == \E r \in reading, ok \in BOOLEAN : Read(r, ok)

Write == WriteBegin \/ Forget \/ Place \/ Throw \/ WriteEnd

Next == Caller \/ Reader \/ Write

(* The threads of the pool run, and both callers of write() call it again  *)
(* while pages are pending.                                                *)
Fairness == WF_vars(Write) /\ \A k \in Keys : WF_vars(\E r \in reading, ok \in BOOLEAN :
                                                      r.key = k /\ Read(r, ok))

Spec == Init /\ [][Next]_vars /\ Fairness

-----------------------------------------------------------------------------
(* The four indexes say the same of every texture that exists: a key is    *)
(* mapped to a slot exactly when the slot has that key, when the texture's *)
(* page table points there, and the texture's pages are its slots; and no  *)
(* two slots are at one place of the list in order of use.                 *)
IndexesAgree ==
    /\ \A t \in live, i \in Indexes, s \in Slots :
        /\ (map[<<t, i>>] = s) <=> (slot[s].key = <<t, i>>)
        /\ (table[t][i] = s) <=> (slot[s].key = <<t, i>>)
    /\ \A s \in Slots : slot[s].key # NoKey => slot[s].key[1] \in live
    /\ \A t \in Textures, s \in Slots :
           s \in pages[t] <=> slot[s].key # NoKey /\ slot[s].key[1] = t
    /\ \A r, s \in Slots : list[r] = list[s] => r = s

(* What the device draws is right: wherever the page table it has points,  *)
(* the array has the image of that very page.  Between two calls of        *)
(* write(), and not after one that has thrown half way.                     *)
ShownRight ==
    phase = "draw" =>
        \A t \in live, i \in Indexes :
            shown[t][i] # Absent => array[shown[t][i]] = <<t, i>>

(* pending() is the number of reads that have not been placed, and a key   *)
(* is pending exactly while one read of it is under way; a throw of        *)
(* write() alone can break this.                                           *)
PendingCounted ==
    phase # "threw" =>
               /\ loads = Cardinality(reading) + Len(queue)
               /\ \A k \in Keys : map[k] = Pending <=> k \in InFlight

(* A locked page keeps its slot: only unlock, or the end of its texture,   *)
(* lets another page have it.                                              *)
LockedStays == [][\A s \in Slots : slot[s].locked /\ slot[s].key[1] \in live'
                      => slot'[s].key = slot[s].key]_vars

(* Every page that is asked for is placed or found unreadable, unless      *)
(* write() throws: a pending entry of the map does not stay.               *)
LoadsLand == \A k \in Keys : map[k] = Pending ~> map[k] # Pending \/ phase = "threw"
=============================================================================
