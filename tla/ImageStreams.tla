---------------------------- MODULE ImageStreams ----------------------------
(***************************************************************************)
(* The buffers through which src/foundation/image/jpeg.cpp gives the codec *)
(* a file's bytes and takes them, and the reader of rows of image.cpp.     *)
(* Bytes are their places in the file, the codec asks for any of them.     *)
(***************************************************************************)
EXTENDS Integers, Sequences

CONSTANTS FileSize, PageSize,   \* bytes in the file, in a buffer
          Skips,                \* how many bytes the codec may skip
          RowWidth, RowCount,   \* of the image
          Chunks                \* how many pixels are asked for

VARIABLES place,     \* of the file
          from, left, \* the next byte in the buffer, and how many there are
          wanted,    \* the byte that the codec wants next
          overrun,   \* the codec went on in an empty buffer
          free, put, flushed, \* the target: room, bytes given, bytes written
          x, y, open, taken   \* the reader, and the pixels taken of the row

streamVars == << place, from, left, wanted, overrun, free, put, flushed,
                 x, y, open, taken >>
sourceVars == << place, from, left, wanted, overrun >>
targetVars == << free, put, flushed >>
readerVars == << x, y, open, taken >>

StreamInit ==
    /\ place = 0 /\ from = 0 /\ left = 0 /\ wanted = 0 /\ overrun = FALSE
    /\ free = PageSize /\ put = 0 /\ flushed = 0
    /\ x = RowWidth /\ y = 0 /\ open = TRUE /\ taken = 0

Lesser(a, b) == IF a < b THEN a ELSE b

\* The codec takes a byte, which it fills the buffer for when it is empty; at
\* the end of the file there is none to take.
Take ==
    LET n == IF left = 0 THEN Lesser(PageSize, FileSize - place) ELSE left
    IN /\ ~overrun
       /\ IF n <= 0
          THEN overrun' = TRUE /\ UNCHANGED << place, from, left, wanted >>
          ELSE /\ left' = n - 1
               /\ from' = (IF left = 0 THEN place ELSE from) + 1
               /\ place' = IF left = 0 THEN place + n ELSE place
               /\ wanted' = wanted + 1
               /\ UNCHANGED overrun
       /\ UNCHANGED << targetVars, readerVars >>

\* Mutant: the file is moved by all the bytes to skip.
SkipTwice(size) ==
    /\ ~overrun /\ wanted + size <= FileSize
    /\ wanted' = wanted + size
    /\ IF size < left
       THEN left' = left - size /\ from' = from + size /\ UNCHANGED place
       ELSE left' = 0 /\ place' = place + size /\ UNCHANGED from
    /\ UNCHANGED << overrun, targetVars, readerVars >>

\* jpeg_skip: within the buffer, or by moving the file.
Skip(size) ==
    /\ ~overrun /\ wanted + size <= FileSize
    /\ wanted' = wanted + size
    /\ IF size < left
       THEN left' = left - size /\ from' = from + size /\ UNCHANGED place
       ELSE left' = 0 /\ place' = place + (size - left) /\ UNCHANGED from
    /\ UNCHANGED << overrun, targetVars, readerVars >>

\* The codec puts a byte, and a full buffer is written.
Put ==
    /\ put < FileSize
    /\ put' = put + 1
    /\ free' = IF free = 1 THEN PageSize ELSE free - 1
    /\ flushed' = IF free = 1 THEN flushed + PageSize ELSE flushed
    /\ UNCHANGED << sourceVars, readerVars >>

\* What is written when the codec ends.
Term == PageSize - free

DecodeRow ==
    /\ open /\ y < RowCount
    /\ x' = 0 /\ y' = y + 1 /\ taken' = 0
    /\ UNCHANGED << open, sourceVars, targetVars >>

ReadPixels(pixels) ==
    LET n == Lesser(RowWidth, x + pixels) - x
    IN /\ open
       /\ x' = x + n
       /\ taken' = taken + n
       /\ UNCHANGED << y, open, sourceVars, targetVars >>

Close ==
    /\ open /\ y = RowCount
    /\ open' = FALSE
    /\ UNCHANGED << x, y, taken, sourceVars, targetVars >>

StreamNext ==
    \/ Take
    \/ \E size \in Skips : Skip(size)
    \/ Put \/ DecodeRow \/ Close
    \/ \E pixels \in Chunks : ReadPixels(pixels)

----------------------------------------------------------------------------
(* Properties *)

\* Whatever the codec takes and skips, the next byte it finds is the one it
\* wants, and only past the end of the file does it find none; what it puts is
\* written whole and once; a row gives each of its pixels once, and none before
\* it was decoded (jpeg.cpp:38-103, image.cpp:30-42).
StreamsInOrder ==
    /\ left > 0 => from = wanted
    /\ place = wanted + left
    /\ overrun => wanted = FileSize
    /\ flushed + Term = put
    /\ x = (IF y = 0 THEN RowWidth ELSE taken) /\ x <= RowWidth
=============================================================================
