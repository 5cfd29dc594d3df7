------------------------------- MODULE Viewer -------------------------------
(***************************************************************************)
(* The main loop of the viewer, ui/server/main.cpp: it draws, writes pages *)
(* while some are pending, and waits for events, which move and zoom.  The *)
(* page cache is no more here than a number of reads; PageCache has it in  *)
(* detail.  A node of text keeps its layout while the zoom stays the same, *)
(* a tile asks for its pages whenever it is drawn.  One axis stands for    *)
(* both, and of move only what zooming adds to it is kept: the keys and    *)
(* gestures that pan leave that alone.  A key zooms by 1, a gesture by a   *)
(* part of it, here a half: zoom counts halves.                            *)
(***************************************************************************)
EXTENDS Integers

CONSTANTS MaxZoom,      \* a bound on the zoom in halves, in both directions
          MaxReads,     \* a bound on the reads that are under way
          MaxDrift,     \* a bound on move, which can drift
          Pin           \* where the pointer is

VARIABLES step,         \* "draw", "cache" or "events"
          waits,        \* process_events may block
          zoom, move,   \* move.z in halves, and what zooming has added to move.x
          low,          \* ghost: the zoom has been below 0
          loads, arrived,       \* page_cache: reads pending, and those of them that are read
          fresh,        \* pages written since the last drawing
          laid,         \* text_node::level: the zoom of its layout, or none
          drawn,        \* ghost: the zoom that was drawn last
          quit          \* executable::has_signal

viewVars == <<step, waits, zoom, move, low, loads, arrived, fresh, laid, drawn, quit>>
cacheView == <<loads, arrived, fresh>>
moving == <<zoom, move, low>>

None == MaxZoom + 1
Whole(z) == IF z < 0 THEN -((-z) \div 2) ELSE z \div 2     \* s16( move.z )

ViewInit == /\ step = "draw" /\ waits = FALSE /\ quit = FALSE
            /\ zoom = 0 /\ move = 0 /\ low = FALSE
            /\ loads = 0 /\ arrived = 0 /\ fresh = 0
            /\ laid = None /\ drawn = None

(* text_node::block and tile_node::block, which may ask for pages: the     *)
(* text only when it is laid out, the tile at any time.                    *)
Draw == /\ step = "draw" /\ ~ quit
        /\ laid' = Whole(zoom)
        /\ loads' \in loads .. MaxReads
        /\ drawn' = zoom
        /\ fresh' = 0
        /\ step' = "cache"
        /\ UNCHANGED <<waits, moving, arrived, quit>>

(* A thread of the pool has read a page. *)
Arrive == /\ arrived < loads
          /\ arrived' = arrived + 1
          /\ UNCHANGED <<step, waits, moving, loads, fresh, laid, drawn, quit>>

(* Mutant: the loop waits as soon as nothing is pending any more. *)
WriteWaiting == /\ step = "cache" /\ loads > 0
                /\ fresh' = fresh + arrived
                /\ loads' = loads - arrived /\ arrived' = 0
                /\ waits' = (loads' = 0)
                /\ step' = "events"
                /\ UNCHANGED <<moving, laid, drawn, quit>>

(* page_cache::write takes what has arrived; the loop does not wait then.  *)
WritePending == /\ step = "cache" /\ loads > 0
                /\ fresh' = fresh + arrived
                /\ loads' = loads - arrived /\ arrived' = 0
                /\ waits' = FALSE
                /\ step' = "events"
                /\ UNCHANGED <<moving, laid, drawn, quit>>

NonePending == /\ step = "cache" /\ loads = 0
               /\ waits' = TRUE
               /\ step' = "events"
               /\ UNCHANGED <<moving, cacheView, laid, drawn, quit>>

-----------------------------------------------------------------------------
(* process_events: an event, after which it does not block; or none.  An   *)
(* hour without an event ends the wait too.                                *)
(* u16( pin ) >> u16( z ) *)
Shifted[z \in 0 .. MaxZoom] == IF z = 0 THEN Pin ELSE Shifted[z - 1] \div 2
Pinned(z) == Shifted[Whole(z)]

(* Mutant: an event is taken for none, and the loop waits for the next. *)
EventUnseen == /\ step = "events"
               /\ UNCHANGED <<step, waits, cacheView, laid, drawn>>

Event == /\ step = "events"
         /\ waits' = FALSE
         /\ UNCHANGED <<step, cacheView, laid, drawn>>

(* zoom_in has no test of its own: from -1 to 0 it moves by the whole pin, *)
(* and below by a shift that has no value, which is taken to be none.      *)
ZoomedIn(z) == IF Whole(z) < 0 THEN move ELSE move + Pinned(z)

ZoomedOut(z) == IF z < 0 THEN move ELSE move - Pinned(z + 2)

ZoomTo(z) == /\ Event
             /\ zoom' = z
             /\ low' = (low \/ z < 0)
             /\ UNCHANGED quit

(* process_key *)
ZoomKey == \/ zoom + 2 =< MaxZoom /\ move < MaxDrift
              /\ ZoomTo(zoom + 2) /\ move' = ZoomedIn(zoom + 2)
           \/ zoom - 2 >= -MaxZoom
              /\ ZoomTo(zoom - 2) /\ move' = ZoomedOut(zoom - 2)

(* A gesture moves when it goes from one whole zoom to another. *)
Magnify == \E z \in {zoom - 1, zoom + 1} \cap (-MaxZoom .. MaxZoom) :
    /\ move < MaxDrift
    /\ ZoomTo(z)
    /\ move' = IF Whole(z) < Whole(zoom) THEN ZoomedOut(z)
               ELSE IF Whole(z) > Whole(zoom) THEN ZoomedIn(z) ELSE move

(* Panning, by a key or by scrolling, and the events that do nothing. *)
Pan == Event /\ UNCHANGED <<moving, quit>>

Escape == /\ Event /\ ~ quit
          /\ quit' = TRUE
          /\ UNCHANGED moving

NoEvent == /\ step = "events"
           /\ step' = "draw"
           /\ UNCHANGED <<waits, moving, cacheView, laid, drawn, quit>>

ViewNext == Draw \/ Arrive \/ WritePending \/ NonePending
            \/ ZoomKey \/ Magnify \/ Pan \/ Escape \/ NoEvent

-----------------------------------------------------------------------------
(* The loop does not wait for an event while a page is pending, or written *)
(* and not drawn, or while what is drawn is of another zoom than move.z    *)
(* or than the layout of the text.                                         *)
DrawsAll == waits /\ step = "events" =>
    /\ loads = 0 /\ fresh = 0
    /\ drawn = zoom /\ laid = Whole(zoom)

(* Zooming about one pin leads back to the same place, whatever the order  *)
(* of the keys, as long as no zoom was below 0.                            *)
Added[z \in 0 .. MaxZoom] == IF z = 0 THEN 0 ELSE Added[z - 1] + Shifted[z]
ZoomReturns == ~ low => move = Added[Whole(zoom)]

(* A page that was written is drawn, with no event to wait for. *)
PagesDrawn == fresh > 0 ~> fresh = 0 \/ quit
=============================================================================
