----------------------------- MODULE TextLayout -----------------------------
(***************************************************************************)
(* text_layout::input lays texts of different sizes out in lines of a      *)
(* width and writes one point for each glyph to a mapped buffer.  When a   *)
(* line is full, or its text is larger than the line is high, it goes back *)
(* to a marker: a place in the texts, with the place in the buffer.        *)
(* The size of a text's font is its scale, two to the power of its level;  *)
(* places are counted in quarters: a space is one of them for each of the  *)
(* scale, a glyph Glyph of them.  The zoom and the y of the texts are 0,   *)
(* and no two glyphs are kerned.                                           *)
(***************************************************************************)
EXTENDS Integers, Sequences, FiniteSets

CONSTANTS Texts,        \* what input is given: sequences of texts
          Widths,       \* widths of lines
          Glyph,        \* the advance of a glyph, of four the size itself
          Lowest        \* a bound on y, for the layouts that never end

Space == "space"
Return == "return"
Letter == "letter"

VARIABLES text,         \* the texts, each with x, scale and its characters
          width,        \* limit.width, in quarters
          at,           \* where the layout is: the text and its character
          fresh,        \* add_text is about to be called
          x, y, lineHeight,     \* state
          map,          \* how many glyphs are before the place in the buffer
          line, word,   \* the markers
          buffer        \* the points that were written

layout == <<x, y, lineHeight>>
layoutVars == <<text, width, at, fresh, layout, map, line, word, buffer>>

Size(n) == 4 * text[n].scale
Advance(n) == Glyph * text[n].scale
Marker(i, j, m, w) == [i |-> i, j |-> j, map |-> m, width |-> w]

LayoutInit ==
    /\ text \in Texts /\ width \in Widths
    /\ at = <<1, 1>> /\ fresh = TRUE
    /\ x = 4 * text[1].x /\ y = 0 /\ lineHeight = Size(1)
    /\ map = 0 /\ buffer = <<>>
    /\ line = Marker(1, 1, 0, 0) /\ word = line

Done == at[1] > Len(text)
(* Counted by glyph_size, which makes the buffer as large as that. *)
GlyphsOf(t) == Cardinality({j \in DOMAIN t.chars : t.chars[j] = Letter})
Counted(texts) ==
    LET f[n \in 0 .. Len(texts)] == IF n = 0 THEN 0 ELSE f[n - 1] + GlyphsOf(texts[n])
    IN  f
GlyphsUpTo(n, j) ==
    Counted(text)[n - 1] + Cardinality({k \in 1 .. j - 1 : text[n].chars[k] = Letter})

GoTo(marker) == /\ at' = <<marker.i, marker.j>>
                /\ map' = marker.map
                /\ fresh' = TRUE

(* handle_space of a new line. *)
NewLine(n) == /\ y < Lowest
              /\ x' = 4 * text[n].x
              /\ y' = y + lineHeight + (Size(n) \div 2)
              /\ lineHeight' = Size(n)

-----------------------------------------------------------------------------
(* add_text, to its loop.  The larger text lays the line out again, from   *)
(* where it had come to.                                                   *)
Grow == /\ ~ Done /\ fresh /\ Size(at[1]) > lineHeight
        /\ lineHeight' = Size(at[1])
        /\ GoTo(line)
        /\ UNCHANGED <<text, width, x, y, line, word, buffer>>

Enter == /\ ~ Done /\ fresh /\ Size(at[1]) <= lineHeight
         /\ fresh' = FALSE
         /\ UNCHANGED <<text, width, at, layout, map, line, word, buffer>>

Inside(c) == /\ ~ Done /\ ~ fresh
             /\ at[2] <= Len(text[at[1]].chars)
             /\ text[at[1]].chars[at[2]] = c
Next1 == <<at[1], at[2] + 1>>
LineWidth == width - 4 * text[at[1]].x

SpaceOver == /\ Inside(Space)
             /\ x' = x + text[at[1]].scale
             /\ UNCHANGED <<y, lineHeight>>

(* Either is a word boundary. *)
Boundary == /\ SpaceOver \/ (Inside(Return) /\ NewLine(at[1]))
            /\ at' = Next1
            /\ word' = Marker(at[1], at[2] + 1, map, 0)
            /\ UNCHANGED <<text, width, fresh, map, line, buffer>>

Full == /\ x + Advance(at[1]) > LineWidth
        /\ at # <<line.i, line.j>>

(* Mutant: the place in the buffer is not taken back. *)
WrapKept == /\ Inside(Letter) /\ Full
            /\ NewLine(at[1])
            /\ word.width + Advance(at[1]) < LineWidth
            /\ line' = word
            /\ at' = <<word.i, word.j>> /\ fresh' = TRUE
            /\ UNCHANGED <<text, width, map, word, buffer>>

(* The line is full: the word is laid out again in the next. *)
Wrap == /\ Inside(Letter) /\ Full
        /\ NewLine(at[1])
        /\ word.width + Advance(at[1]) < LineWidth
        /\ line' = word
        /\ GoTo(word)
        /\ UNCHANGED <<text, width, word, buffer>>

(* The word is as wide as the line: it is broken here. *)
Break == /\ Inside(Letter) /\ Full
         /\ NewLine(at[1])
         /\ word.width + Advance(at[1]) >= LineWidth
         /\ line' = Marker(at[1], at[2], map, 0)
         /\ word' = line'
         /\ UNCHANGED <<text, width, at, fresh, map, buffer>>

(* add_glyph.  Writing past the end of the buffer would throw. *)
AddGlyph == /\ Inside(Letter) /\ ~ Full
            /\ map < Counted(text)[Len(text)]
            /\ buffer' = SubSeq(buffer, 1, map)
                         \o <<[x |-> x, y |-> y, n |-> at[1], j |-> at[2]]>>
                         \o SubSeq(buffer, map + 2, Len(buffer))
            /\ map' = map + 1
            /\ x' = x + Advance(at[1])
            /\ word' = [word EXCEPT !.width = @ + Advance(at[1])]
            /\ at' = Next1
            /\ UNCHANGED <<text, width, fresh, y, lineHeight, line>>

Leave == /\ ~ Done /\ ~ fresh /\ at[2] > Len(text[at[1]].chars)
         /\ at' = <<at[1] + 1, 1>>
         /\ fresh' = TRUE
         /\ UNCHANGED <<text, width, layout, map, line, word, buffer>>

LayoutNext == Grow \/ Enter \/ Boundary \/ Wrap \/ Break \/ AddGlyph \/ Leave

-----------------------------------------------------------------------------
Falling == \A n \in 2 .. Len(text) : text[n].scale <= text[n - 1].scale

(* Wherever the layout has gone back to, the place in the buffer is that   *)
(* of the glyph, and at the end the buffer is full.  If no text is larger  *)
(* than the one before it, each glyph has been written in order, and each  *)
(* is right of the one before or below it.  (A larger text goes back to    *)
(* the line's marker, but the word's stays ahead, and the next full line   *)
(* goes there: the glyphs in between keep the places they had.)            *)
GlyphsPlaced ==
    /\ ~ Done => map = GlyphsUpTo(at[1], at[2])
    /\ Done => map = Len(buffer) /\ map = Counted(text)[Len(text)]
    /\ Falling => \A k \in 1 .. map :
        /\ GlyphsUpTo(buffer[k].n, buffer[k].j) = k - 1
        /\ k > 1 => \/ buffer[k].y > buffer[k - 1].y
                    \/ /\ buffer[k].y = buffer[k - 1].y
                       /\ buffer[k].x >= buffer[k - 1].x + Advance(buffer[k - 1].n)

(* The layout ends, whatever is wider than the line, if no text is larger  *)
(* than the one before it and none is indented.  (A larger text after a    *)
(* new line goes back to before the new line, which makes the line small   *)
(* again; an indented one is taken to be too wide, where it begins and     *)
(* where it begins again.  Neither ever ends.)                             *)
LayoutEnds == (Falling /\ \A n \in DOMAIN text : text[n].x = 0) ~> Done
=============================================================================
