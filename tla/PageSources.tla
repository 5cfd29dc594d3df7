---------------------------- MODULE PageSources -----------------------------
(***************************************************************************)
(* The arithmetic of pages: which pages a load of a region asks for, where *)
(* font_source puts the glyphs of a font and what it draws in a page, and  *)
(* how many pages make_tile writes and retile converts.  Sizes are powers  *)
(* of two times a page of PageWide pixels.  Level 0 is the finest.         *)
(***************************************************************************)
EXTENDS Binary

CONSTANT PageWide

-----------------------------------------------------------------------------
(* virtual_texture.cpp, get_region, in one direction: the first page and   *)
(* the one after the last.  Where the region begins within its first page  *)
(* is not taken into account.                                              *)
Region(width, x, level) ==
    LET first == (x \div 2^level) \div PageWide
    IN  <<first, first + Max({Ceiling(width \div 2^level, PageWide), 1})>>

(* A load that is not refused asks for at least a page, for none that the  *)
(* source does not have, and leaves out at most the last page of its       *)
(* region, and none if the region begins with a page and has no rest.      *)
RegionRight(size, width, x, level) ==
    LET pages == Region(width, x, level)[1] .. Region(width, x, level)[2] - 1
        used == {((x + n) \div 2^level) \div PageWide : n \in 0 .. width - 1}
    IN  x + width <= size /\ width > 0 =>
            /\ pages # {}
            /\ used \subseteq pages \union {Max(pages) + 1}
            /\ x % (PageWide * 2^level) = 0 /\ width % 2^level = 0 => used \subseteq pages
            /\ pages \subseteq 0 .. Max({((size \div 2^level) \div PageWide) - 1, 0})

-----------------------------------------------------------------------------
(* font_source: a square of cells of FaceSize pixels, as many in a row as  *)
(* the square root of the number of glyphs, truncated, rounds up to.       *)
SourceSize(glyphs, faceSize) == BitRoundUp(Isqrt(glyphs)) * faceSize
GlyphsPerRow(glyphs) == BitRoundUp(Isqrt(glyphs))
LevelLimit(glyphs, faceSize) ==
    CHOOSE l \in 0 .. Bits : 2^l <= SourceSize(glyphs, faceSize) \div PageWide
                             /\ 2^(l + 1) > SourceSize(glyphs, faceSize) \div PageWide

(* glyph: where the cell of a glyph is, on level 0. *)
GlyphAt(glyphs, faceSize, g) ==
    [x |-> (g % GlyphsPerRow(glyphs)) * faceSize, y |-> (g \div GlyphsPerRow(glyphs)) * faceSize]

(* read: the glyphs that are drawn in a page of a level, each with where   *)
(* its cell begins in the page and where in the cell the page begins.      *)
ReadPage(glyphs, faceSize, x, y, level) ==
    LET levelSize == faceSize \div 2^level
        base == (x * PageWide) \div levelSize
                + ((y * PageWide) \div levelSize) * GlyphsPerRow(glyphs)
        perGlyph == levelSize \div PageWide
        perPage == PageWide \div levelSize
    IN  IF base >= glyphs THEN {}
        ELSE IF levelSize >= PageWide
        THEN {[glyph |-> base, x |-> 0, y |-> 0, inX |-> (x % perGlyph) * PageWide,
                                                 inY |-> (y % perGlyph) * PageWide]}
        ELSE {[glyph |-> base + i + j * GlyphsPerRow(glyphs),
               x |-> i * levelSize, y |-> j * levelSize, inX |-> 0, inY |-> 0] :
                  <<i, j>> \in {<<i, j>> \in (0 .. perPage - 1) \X (0 .. perPage - 1) :
                                    base + i + j * GlyphsPerRow(glyphs) < glyphs}}

(* Every glyph is drawn where glyph() says it is, on every level and in    *)
(* every page of the texture, and in no other place.                       *)
GlyphsDrawn(glyphs, faceSize, level) ==
    LET size == SourceSize(glyphs, faceSize)
        pages == 0 .. ((size \div 2^level) \div PageWide) - 1
    IN  size >= PageWide /\ 2^level <= faceSize /\ level <= LevelLimit(glyphs, faceSize) =>
        \A x, y \in pages, g \in 0 .. glyphs - 1 :
            LET at == GlyphAt(glyphs, faceSize, g)
                cell == [x |-> at.x \div 2^level, y |-> at.y \div 2^level]
                side == faceSize \div 2^level
                drawn == {d \in ReadPage(glyphs, faceSize, x, y, level) : d.glyph = g}
                inside == /\ cell.x < (x + 1) * PageWide /\ x * PageWide < cell.x + side
                          /\ cell.y < (y + 1) * PageWide /\ y * PageWide < cell.y + side
            IN  /\ inside <=> drawn # {}
                /\ \A d \in drawn : /\ x * PageWide + d.x - d.inX = cell.x
                                    /\ y * PageWide + d.y - d.inY = cell.y

(* The square has a cell for each glyph only if their number is no more    *)
(* than the square of the row; a number just above a power of four is.     *)
AtlasHolds(glyphs, faceSize) ==
    glyphs <= GlyphsPerRow(glyphs)^2 =>
        \A g \in 0 .. glyphs - 1 :
            /\ GlyphAt(glyphs, faceSize, g).x + faceSize <= SourceSize(glyphs, faceSize)
            /\ GlyphAt(glyphs, faceSize, g).y + faceSize <= SourceSize(glyphs, faceSize)

-----------------------------------------------------------------------------
(* tile_source.cpp, make_tile: the pages and the levels of an image. *)
CeilLog2(n) == CHOOSE l \in 0 .. Bits : 2^l >= n /\ \A m \in 0 .. l - 1 : 2^m < n
TileLevels(width, height) == CeilLog2(Ceiling(Max({width, height}), PageWide))
TilePages(width) == Ceiling(width, PageWide)

(* retile/main.cpp: from the metadata alone, the size of a page is guessed. *)
RetilePages(width, height) ==
    Ceiling(width, 2^(CeilLog2(Max({width, height})) - TileLevels(width, height)))

(* retile visits the pages that make_tile has written, whatever the size   *)
(* of the image.                                                           *)
RetileWhole(width, height) == /\ RetilePages(width, height) = TilePages(width)
                              /\ RetilePages(height, width) = TilePages(height)
=============================================================================
