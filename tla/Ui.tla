--------------------------------- MODULE Ui ---------------------------------
(***************************************************************************)
(* The structures that the user interface, its images and its graphics put *)
(* things in, and the loop of the viewer, each an instance of its module,  *)
(* and what is required of them.  The parts share no state, and their      *)
(* steps interleave in any way.                                            *)
(***************************************************************************)
EXTENDS Integers, Sequences, FiniteSets

CONSTANTS
    BinWidth, BinHeight,                                       \* Bin
    CacheKeys, CacheMax, NoNode,                               \* FixedCache
    MaxZoom, MaxReads, MaxDrift, Pin,                          \* Viewer
    Outputs, Images, Unfit, Programs, Program, DrawBuffers,
    NoImage,                                                   \* DrawFrame
    FileSize, PageSize, Skips, RowWidth, RowCount, Chunks,     \* ImageStreams
    Texts, Widths, Glyph, Lowest,                              \* TextLayout
    PagesWide, PagesHigh, MaxUnits                             \* TilePyramid

VARIABLES
    leaves, placed,                                            \* Bin
    order, node, place,                                        \* FixedCache
    step, waits, zoom, move, low, viewLoads, arrived, fresh,
    laid, drawn, quit,                                         \* Viewer
    attached, depth, frameState, outputs, lastDraw, replaced,
    frameFault,                                                \* DrawFrame
    filePlace, from, left, wanted, overrun, free, put, flushed,
    rowX, rowY, open, rowsTaken,                               \* ImageStreams
    text, limit, textAt, textFresh, penX, penY, lineHeight,
    textMap, line, word, buffer,                               \* TextLayout
    units, index, tileQueue, doing, raw, tile, main, sync      \* TilePyramid

(* A cache has room for an entry, and what stands for no node is none. *)
RoomInCache == CacheMax \in Nat \ {0} /\ NoNode \notin 1 .. CacheMax

(* A program has finitely many outputs, numbered from 0 on, a device can   *)
(* draw to so many, and what stands for no image is none.                  *)
OutputsNumbered == /\ IsFiniteSet(Outputs) /\ Outputs \subseteq Nat
                   /\ DrawBuffers \in Nat /\ NoImage \notin Images

(* Sizes are numbers; a buffer and an image of pages are not empty.        *)
SizesAreNumbers ==
    /\ BinWidth \in Nat /\ BinHeight \in Nat
    /\ FileSize \in Nat /\ PageSize \in Nat \ {0}
    /\ RowWidth \in Nat /\ RowCount \in Nat
    /\ Skips \subseteq Nat /\ Chunks \subseteq Nat
    /\ PagesWide \in Nat \ {0} /\ PagesHigh \in Nat \ {0} /\ MaxUnits \in Nat
    /\ MaxZoom \in Nat /\ Pin \in Nat

(* There is a text to lay out; each begins somewhere and has a size.       *)
TextsHaveSizes ==
    /\ Glyph \in Nat /\ Lowest \in Int /\ Widths \subseteq Int
    /\ \A texts \in Texts :
           /\ texts \in Seq([x : Int, scale : Nat \ {0}, chars : Seq({"space", "return", "letter"})])
           /\ texts # <<>>

ASSUME UiAssumption == RoomInCache /\ OutputsNumbered /\ SizesAreNumbers /\ TextsHaveSizes

Packing == INSTANCE Bin
Nodes == INSTANCE FixedCache
View == INSTANCE Viewer WITH loads <- viewLoads
Frame == INSTANCE DrawFrame
Stream == INSTANCE ImageStreams WITH place <- filePlace, x <- rowX, y <- rowY,
                                     taken <- rowsTaken
Layout == INSTANCE TextLayout WITH width <- limit, at <- textAt, fresh <- textFresh,
                                   x <- penX, y <- penY, map <- textMap
Pyramid == INSTANCE TilePyramid WITH Width <- PagesWide, Height <- PagesHigh,
                                     queue <- tileQueue

binVars == <<leaves, placed>>
nodeVars == <<order, node, place>>
viewVars == <<step, waits, zoom, move, low, viewLoads, arrived, fresh, laid, drawn, quit>>
frameVars == <<attached, depth, frameState, outputs, lastDraw, replaced, frameFault>>
streamVars == <<filePlace, from, left, wanted, overrun, free, put, flushed,
                rowX, rowY, open, rowsTaken>>
tileVars == <<units, index, tileQueue, doing, raw, tile, main, sync>>
textVars == <<text, limit, textAt, textFresh, penX, penY, lineHeight, textMap,
              line, word, buffer>>

BinSpec == Packing!BinInit /\ [][Packing!BinNext]_binVars
NodesSpec == Nodes!CacheInit /\ [][Nodes!CacheNext]_nodeVars
ViewSpec == View!ViewInit /\ [][View!ViewNext]_viewVars
FrameSpec == Frame!FrameInit /\ [][Frame!FrameNext]_frameVars
StreamSpec == Stream!StreamInit /\ [][Stream!StreamNext]_streamVars
TileSpec == Pyramid!Init /\ [][Pyramid!Next]_tileVars
LayoutSpec == Layout!LayoutInit /\ [][Layout!LayoutNext]_textVars

PlacesSpec == BinSpec /\ NodesSpec /\ FrameSpec /\ StreamSpec

-----------------------------------------------------------------------------
(* What was put somewhere is there and nowhere else: the rectangles of a   *)
(* bin never overlap and leave no place out, the cache of glyphs forgets   *)
(* the oldest one only, a draw reaches each output that has an image, and  *)
(* a codec gets the bytes of a file, and gives its own, in their order.    *)
PlacesRight ==
    /\ Packing!BinPacked
    /\ Nodes!CacheTrue
    /\ Frame!DrawsReachAll
    /\ Stream!StreamsInOrder

(* The viewer never waits with something undrawn, and zooming in and out   *)
(* again leads back.                                                       *)
ViewerDraws == View!DrawsAll /\ View!ZoomReturns

(* Glyphs are in the buffer in the order of the text, each right of, or    *)
(* below, the one before.                                                  *)
LayoutSound == Layout!GlyphsPlaced

(* make_tile leaves a right tile, and nothing else, for each page of the   *)
(* rows that its units have made and encoded in time; with one unit, for   *)
(* all the pages.                                                          *)
PagesRight == Pyramid!PyramidWhole
=============================================================================
