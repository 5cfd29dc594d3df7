------------------------------- MODULE Images -------------------------------
(***************************************************************************)
(* Images, their formats and their sizes: src/foundation/image, the tables *)
(* of formats in src/foundation/opengl, the pyramids of visual/graphics    *)
(* and component/ui/convert_source.  A format is its channels and its      *)
(* depth, an image its metadata and the sequence of its subpixels; a table *)
(* that throws gives Unknown.                                              *)
(***************************************************************************)
EXTENDS Integers, Sequences, FiniteSets, SequencesExt

CONSTANT WordLimit   \* one more than the largest number of 32 bits

Unknown == [unknown |-> TRUE]

Format(channels, depth) == [channels |-> channels, depth |-> depth]
Deep == { Format(c, d) : c \in { "rgb", "rgba", "y", "ya", "a", "r", "rg" },
                         d \in { "u8", "s16", "f16", "f32" } }
Swapped == { Format(c, "u8") : c \in { "bgr", "bgra" } }
Compressed == { Format("rgba", d) : d \in { "dxt1", "dxt3", "dxt5" } }
Formats == Deep \cup Swapped \cup Compressed

Subpixels(f) ==
    CASE f.channels \in { "y", "a", "r" } -> 1
      [] f.channels \in { "ya", "rg" } -> 2
      [] f.channels \in { "bgr", "rgb" } -> 3
      [] f.channels \in { "bgra", "rgba" } -> 4

SubpixelSize(f) == [u8 |-> 1, s16 |-> 2, f16 |-> 2, f32 |-> 4][f.depth]
BlockBytes(f) == [dxt1 |-> 8, dxt3 |-> 16, dxt5 |-> 16][f.depth]
PixelSize(f) == Subpixels(f) * SubpixelSize(f)

Metadata(width, height, f) == [width |-> width, height |-> height, format |-> f]
TileCount(m) == ((m.width + 3) \div 4) * ((m.height + 3) \div 4)
RowSize(m) == m.width * PixelSize(m.format)
ByteSize(m) == IF m.format \in Compressed THEN TileCount(m) * BlockBytes(m.format)
               ELSE m.width * m.height * PixelSize(m.format)

----------------------------------------------------------------------------
(* What the graphics library is told of a format *)

\* Where it is kept, and what is given to it.
TextureFormat(f) ==
    [kept |-> IF f \in Swapped
              THEN Format(IF f.channels = "bgr" THEN "rgb" ELSE "rgba", "u8")
              ELSE IF f = Format("ya", "f32") THEN Format("ya", "f16") ELSE f,
     given |-> f.channels, datum |-> SubpixelSize(f)]

CompressedFormat(m) ==
    [kept |-> m.format,
     size |-> TileCount(m) * (IF m.format.depth = "dxt1" THEN 8 ELSE 16)]

FrameFormat(f) ==
    IF f.channels \notin { "rgb", "rgba", "bgr", "bgra" }
       \/ f.depth \notin { "u8", "f16", "f32" } THEN Unknown
    ELSE [given |-> f.channels,
          size |-> [rgb |-> 3, rgba |-> 4, bgr |-> 3, bgra |-> 4][f.channels]
                   * [u8 |-> 1, f16 |-> 2, f32 |-> 4][f.depth]]

TargetFormat(f) ==
    IF FrameFormat(f) = Unknown THEN Unknown ELSE TextureFormat(f).kept

\* The types of a block's inputs: locations, components and bytes of each.
InputTypes == { "u8_1", "u8_2", "u8_3", "u8_4", "f32_1", "f32_2", "f32_3",
                "f32_4", "f32_mat3", "f32_mat4" }
BlockIndices(t) == CASE t = "f32_mat3" -> 3 [] t = "f32_mat4" -> 4 [] OTHER -> 1
BlockSize(t) == CASE t \in { "u8_1", "f32_1" } -> 1
                  [] t \in { "u8_2", "f32_2" } -> 2
                  [] t \in { "u8_3", "f32_3", "f32_mat3" } -> 3
                  [] t \in { "u8_4", "f32_4", "f32_mat4" } -> 4
BlockStride(t) ==
    CASE t = "u8_1" -> 1 [] t = "u8_2" -> 2 [] t = "u8_3" -> 3 [] t = "u8_4" -> 4
      [] t = "f32_1" -> 4 [] t = "f32_2" -> 8
      [] t \in { "f32_mat3", "f32_3" } -> 12
      [] t \in { "f32_mat4", "f32_4" } -> 16
BlockType(t) == IF t \in { "u8_1", "u8_2", "u8_3", "u8_4" } THEN 1 ELSE 4

----------------------------------------------------------------------------
(* Pyramids and the writes of a texture *)

RECURSIVE Halved(_, _)
Halved(n, level) == IF level = 0 THEN n ELSE Halved(n \div 2, level - 1)

PyramidInsert(m, levels, image) ==
    /\ image.width = Halved(m.width, levels)
    /\ image.height = Halved(m.height, levels)
    /\ image.format = m.format

Wraps(n) == n % WordLimit

TextureCheck(m, levels, mipmaps, image, x, y, level) ==
    /\ level # 0 => ~mipmaps /\ level < levels
    /\ Wraps(image.width + x) <= Halved(m.width, level)
    /\ Wraps(image.height + y) <= Halved(m.height, level)
    /\ image.format = m.format

ArrayCheck(m, depth, image, x, y, index) ==
    /\ index < depth
    /\ Wraps(image.width + x) <= m.width
    /\ Wraps(image.height + y) <= m.height
    /\ image.format = m.format

\* A texture of OpenGL: its levels, each with its sides and the age of what it
\* has (0 for nothing, 1 for what it was made of, more for a write), and the
\* last level to draw with.  Both filters go from level to level, so nothing is
\* drawn of a texture with a level missing.
LastLevel == 1000       \* what TEXTURE_MAX_LEVEL is unless it is set
SetLevels(mipmaps, levels) ==
    IF mipmaps THEN LastLevel ELSE IF levels = 0 THEN 0 ELSE levels - 1

Level(m, i, age) == [width |-> Halved(m.width, i), height |-> Halved(m.height, i),
                     age |-> age]

\* The constructor: mipmaps are made before the images are given, of nothing.
TextureMade(m, levels, mipmaps) ==
    [last |-> SetLevels(mipmaps, levels), mipmaps |-> mipmaps,
     level |-> IF levels = 0 THEN << Level(m, 0, 0) >>
               ELSE [i \in 1 .. levels |-> Level(m, i - 1, 1)]]

ArrayMade(m) == [last |-> SetLevels(FALSE, 1), mipmaps |-> FALSE,
                 level |-> << Level(m, 0, 0) >>]

Larger(a, b) == IF a > b THEN a ELSE b
FullLevels(m) == CHOOSE n \in 1 .. 20 : Halved(Larger(m.width, m.height), n - 1) = 1

\* GenerateMipmap, as OpenGL defines it: every level, of level 0.
Generated(t) ==
    LET base == t.level[1]
    IN [t EXCEPT !.level = [i \in 1 .. FullLevels(base) |->
           [width |-> Larger(1, Halved(base.width, i - 1)),
            height |-> Larger(1, Halved(base.height, i - 1)), age |-> base.age]]]

\* write, of an image the texture admits.
TextureWrite(t, level, age) ==
    LET written == [t EXCEPT !.level[level + 1].age = age]
    IN IF t.mipmaps THEN Generated(written) ELSE written

\* The images there are suffice for drawing.
Complete(t) ==
    \A i \in 1 .. FullLevels(t.level[1]) :
        i - 1 <= t.last => /\ i \in DOMAIN t.level
                           /\ t.level[i].width = Larger(1, Halved(t.level[1].width, i - 1))
                           /\ t.level[i].height = Larger(1, Halved(t.level[1].height, i - 1))

\* checked_map: how far the cursor gets, write by write, in a map of a size.
RECURSIVE MapWrite(_, _, _)
MapWrite(size, cursor, writes) ==
    IF writes = << >> \/ cursor + Head(writes) > size THEN cursor
    ELSE MapWrite(size, cursor + Head(writes), Tail(writes))

----------------------------------------------------------------------------
(* Conversions and files *)

Pixel(data, k, i) == SubSeq(data, k * i + 1, k * i + k)

Pixels(data, k) == [i \in 1 .. Len(data) \div k |-> Pixel(data, k, i - 1)]

Converter(source, target, data) ==
    IF source = target THEN data
    ELSE IF source = Format("rgb", "u8") /\ target = Format("rgba", "u8")
    THEN LET pixels == Pixels(data, 3)
         IN  FlattenSeq([i \in DOMAIN pixels |-> Append(pixels[i], 255)])
    ELSE Unknown

SwapBr(f, data) ==
    LET pixels == Pixels(data, 3)
    IN IF f = Format("bgr", "u8")
       THEN [format |-> Format("rgb", "u8"),
             data |-> FlattenSeq([i \in DOMAIN pixels |-> Reverse(pixels[i])])]
       ELSE [format |-> f, data |-> data]

\* The formats each codec writes, as what it reads them back as.
PngWrites == [f \in { Format(c, "u8") :
                      c \in { "y", "ya", "bgr", "rgb", "bgra", "rgba" } } |->
              TextureFormat(f).kept]
JpegWrites(f, data) ==
    LET in == SwapBr(f, data)
    IN IF in.format \in { Format("y", "u8"), Format("rgb", "u8") } THEN in
       ELSE Unknown

\* jpeg2000 keeps each channel by itself: skip_in, then skip_out.
Plane(data, n, i) == [k \in 1 .. Len(data) \div n |-> data[(k - 1) * n + i]]
Jpeg2000(f, data) ==
    LET n == Subpixels(f)
        planes == [i \in 1 .. n |-> Plane(data, n, i)]
    IN [k \in 1 .. Len(data) |-> planes[((k - 1) % n) + 1][((k - 1) \div n) + 1]]

DdsHeader == 124
DdsEncode(m) ==
    [sized |-> TRUE, width |-> m.width, height |-> m.height,
     fourcc |-> m.format.depth, linear |-> ByteSize(m)]

\* The image, or Unknown; a header may leave out that it states the size, and
\* then the one it has is not compared with the image's.
DdsDecode(header, fileSize) ==
    LET m == Metadata(header.width, header.height, Format("rgba", header.fourcc))
    IN IF header.sized /\ header.linear # ByteSize(m) THEN Unknown
       ELSE IF header.linear + DdsHeader + 4 > fileSize THEN Unknown
       ELSE m

----------------------------------------------------------------------------
(* Properties *)

\* What the library is told of a format takes the bytes the image has: a frame
\* is read into as many, a texture is kept at the image's own precision except
\* two channels of 32 bits, which are kept in 16, and the inputs of a block
\* fill their stride (image.cpp:44-246, texture.cpp:17-132, frame.cpp:47-83).
FormatsAgree(f, t) ==
    /\ f \notin Compressed =>
       /\ FrameFormat(f) # Unknown => /\ FrameFormat(f).size = PixelSize(f)
                                      /\ SubpixelSize(TargetFormat(f))
                                         = SubpixelSize(f)
       /\ TextureFormat(f).datum * Subpixels(f) = PixelSize(f)
       /\ Subpixels(TextureFormat(f).kept) = Subpixels(f)
       /\ f # Format("ya", "f32") =>
          SubpixelSize(TextureFormat(f).kept) = SubpixelSize(f)
    /\ f \in Compressed => \A w, h \in 1 .. 9 :
          CompressedFormat(Metadata(w, h, f)).size = ByteSize(Metadata(w, h, f))
    /\ BlockStride(t) = BlockSize(t) * BlockType(t)
    /\ BlockIndices(t) > 1 => BlockIndices(t) = BlockSize(t)

\* A write that a texture admits stays inside the level it goes to, and the
\* level is one the texture has, as long as place and size do not exceed 32
\* bits together; the levels a pyramid takes are those the texture declares,
\* and no write through a checked map ends past it (texture.cpp:238-258,
\* 314-330, graphics.cpp:15-32, 96-111).
WritesInside(m, levels, image, x, y, level) ==
    LET Fits(w, h) == x + image.width <= w /\ y + image.height <= h
    IN x + image.width < WordLimit /\ y + image.height < WordLimit =>
       /\ \A mipmaps \in BOOLEAN :
          TextureCheck(m, levels, mipmaps, image, x, y, level) =>
          /\ Fits(Halved(m.width, level), Halved(m.height, level))
          /\ level = 0 \/ level < levels
          /\ x = 0 /\ y = 0 /\ PyramidInsert(m, level, image) =>
             Fits(Halved(m.width, level), Halved(m.height, level))
       /\ ArrayCheck(m, levels, image, x, y, level) =>
          Fits(m.width, m.height) /\ level < levels
       /\ MapWrite(m.width, 0, << x, y, image.width >>) <= m.width

\* A texture can be drawn with, whatever was written to it, unless a side of its
\* pyramid has become 0, or its mipmaps have not been made by a write yet; and
\* when they are made, each of them is of the last write (texture.cpp:144-348).
TexturesComplete(m, levels, level) ==
    LET Sound(t) == Complete(t) /\ (t.mipmaps => \A i \in DOMAIN t.level :
                                        t.level[i].age = t.level[1].age)
        fixed == TextureMade(m, levels, FALSE)
        made == TextureMade(m, levels, TRUE)
        sides == levels = 0 \/ Halved(m.width, levels - 1) * Halved(m.height, levels - 1) > 0
        image == [m EXCEPT !.width = 1, !.height = 1]
    IN /\ sides => Sound(fixed)
       /\ sides /\ TextureCheck(m, levels, FALSE, image, 0, 0, level) =>
          Sound(TextureWrite(TextureWrite(fixed, level, 2), 0, 3))
       /\ TextureCheck(m, levels, TRUE, image, 0, 0, level) =>
          /\ Sound(TextureWrite(made, level, 2))
          /\ Sound(TextureWrite(TextureWrite(made, level, 2), level, 3))
       /\ Complete(made) => Larger(1, levels) >= FullLevels(m)
       /\ Complete(ArrayMade(m)) /\ Complete(TextureWrite(ArrayMade(m), 0, 2))

\* An image written and read back, or converted, keeps every pixel: only the
\* order of the channels changes, and a converted one is opaque; and a file
\* that says its size holds the image (dds.cpp:96-170, jpeg.cpp:107-125,
\* jpeg2000.cpp:55-110, convert_source.cpp:14-32).
ImagesKept(f, width, data, fileSize) ==
    LET m == Metadata(width, Len(data) \div width, f)
        back == DdsDecode(DdsEncode(m), fileSize)
    IN /\ f \in Compressed /\ back # Unknown =>
          back = m /\ fileSize >= ByteSize(m) + DdsHeader + 4
       /\ f \in { Format("y", "u8"), Format("rgb", "u8") } =>
          Jpeg2000(f, data) = data /\ JpegWrites(f, data).data = data
       /\ f = Format("bgr", "u8") =>
          /\ Len(data) % 3 = 0 =>
             SwapBr(f, SwapBr(f, data).data).data = data
          /\ PngWrites[f] = JpegWrites(f, data).format
       /\ f = Format("rgb", "u8") /\ Len(data) % 3 = 0 =>
          LET out == Converter(f, Format("rgba", "u8"), data)
          IN /\ Len(out) * 3 = Len(data) * 4
             /\ \A i \in 0 .. Len(data) \div 3 - 1 :
                Pixel(out, 4, i) = Append(Pixel(data, 3, i), 255)
=============================================================================
