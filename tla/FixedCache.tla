----------------------------- MODULE FixedCache -----------------------------
(***************************************************************************)
(* fixed_cache, which font_source keeps its glyph indexes and its kerning  *)
(* in: a list of at most CacheMax entries and a map from keys to places in *)
(* the list.  When it is full the oldest entry's node is used again.  A    *)
(* value is named by the key it belongs to.                                *)
(***************************************************************************)
EXTENDS Naturals, Sequences, FiniteSets, SequencesExt

CONSTANTS CacheKeys, CacheMax, NoNode

VARIABLES order,        \* fixed_cache::list: its nodes, oldest first
          node,         \* what is in each node: a key, whose value it has
          place         \* fixed_cache::map: the node of each key

cacheVars == <<order, node, place>>

Nodes == 1 .. CacheMax

CacheInit == /\ order = <<>>
             /\ node = [n \in Nodes |-> NoNode]
             /\ place = [k \in CacheKeys |-> NoNode]

CacheSize == Cardinality({k \in CacheKeys : place[k] # NoNode})

(* font_source calls insert after a find that has failed. *)
CacheFill(k) == /\ place[k] = NoNode /\ CacheSize < CacheMax
                /\ order' = Append(order, Len(order) + 1)
                /\ node' = [node EXCEPT ![Len(order) + 1] = k]
                /\ place' = [place EXCEPT ![k] = Len(order) + 1]

CacheReuse(k) == /\ place[k] = NoNode /\ CacheSize >= CacheMax
                 /\ node' = [node EXCEPT ![Head(order)] = k]
                 /\ order' = Append(Tail(order), Head(order))
                 /\ place' = [place EXCEPT ![node[Head(order)]] = NoNode, ![k] = Head(order)]

CacheNext == \E k \in CacheKeys : CacheFill(k) \/ CacheReuse(k)

-----------------------------------------------------------------------------
(* What find gives for a key is that key's own value, whatever was evicted *)
(* in between; the cache never holds more than CacheMax, and every node of *)
(* the list can be found.                                                  *)
CacheTrue == /\ \A k \in CacheKeys : place[k] # NoNode => node[place[k]] = k
             /\ Len(order) <= CacheMax /\ CacheSize = Len(order)
             /\ \A n \in ToSet(order) : place[node[n]] = n
=============================================================================
