------------------------------- MODULE Decode -------------------------------
(***************************************************************************)
(* One rectangle from the wire to the framebuffer: the reader takes its    *)
(* bytes off the connection (handle_rectangle, src/lib.rs), decode() in    *)
(* src/encoding/decoding_master.rs walks over them pixel by pixel.  Each   *)
(* of the two computes for itself how many bytes the rectangle has, and    *)
(* bits are packed into bytes row by row.                                  *)
(*                                                                         *)
(* A byte of the wire is a color channel, a palette index or a length; a   *)
(* byte of packed bits is the sequence of its bits; what zlib or JPEG      *)
(* compressed is one byte that remembers what it expands to.  The server   *)
(* is external: it encodes a picture as the RFB protocol says.  In which   *)
(* order and by whom rectangles are decoded is in DecodingMaster.          *)
(***************************************************************************)
EXTENDS Naturals, Sequences

CONSTANTS
  ByteBits,             \* bits of a byte: 8
  FbWidth, FbHeight,    \* size of the framebuffer
  Colors,               \* colors of the server, each as <<r, g, b>>
  Gray,                 \* the <<b, g, r>> of a new framebuffer
  Padding,              \* a channel or bit without a meaning
  TooShortForZlib,      \* data below that size is not compressed: 12
  MaxRects              \* bound: rectangles the server sends

ASSUME DecodeAssumption ==
  /\ {ByteBits, FbWidth, FbHeight, TooShortForZlib} \subseteq Nat \ {0}
  /\ Colors \in Seq(Nat \X Nat \X Nat) /\ Len(Colors) > 2
  /\ MaxRects \in Nat

VARIABLES
  step,         \* where the rectangle is
  rect, before, \* history: the rectangle as the server means it, and the
                \* framebuffer before it
  wire,         \* bytes nobody has read yet
  job,          \* what the decoder gets: palette, data and bitmask
  x, y, i,      \* variables of the loops of decode()
  bits,         \* the BitBuffer
  fb,           \* the framebuffer: the <<b, g, r>> of each pixel, row by row
  rgba, cursor, \* the cursor that is decoded, and the last one that was
  rects         \* number of rectangles so far

readVars == <<rect, before, wire, rects>>
vars == <<step, readVars, job, x, y, i, bits, fb, rgba, cursor>>

-----------------------------------------------------------------------------
(* The server                                                              *)

\* A cursor may be empty, which hides it.
NoCursor == [method |-> "cursor", palette |-> 2, x |-> 0, y |-> 0,
             width |-> 0, height |-> 0, picture |-> <<>>]

\* Encodings, with the number of colors they show.
Kinds == ({"raw", "copy", "jpeg", "cursor", "palette"} \X {2})
           \cup {<<"palette", Len(Colors)>>, <<"fill", 1>>}

\* Rectangles of w times h pixels inside the framebuffer; a picture has an index
\* into Colors for every position.
RectanglesOf(kind, w, h) ==
  [method : {kind[1]}, palette : {kind[2]}, x : 0 .. FbWidth - w,
   y : 0 .. FbHeight - h, width : {w}, height : {h},
   picture : [(0 .. w - 1) \X (0 .. h - 1) -> 1 .. kind[2]]]

Rectangles ==
  {NoCursor} \cup UNION {RectanglesOf(kind, w, h) :
                         kind \in Kinds, w \in 1 .. FbWidth, h \in 1 .. FbHeight}

\* The n-th color index of a picture, row by row.
Nth(r, n) == r.picture[<<n % r.width, n \div r.width>>]

Area(r) == r.width * r.height

Tpixel(index) == Colors[index]
Bgrx(index) == <<Colors[index][3], Colors[index][2], Colors[index][1], Padding>>

\* All pixels, each with that many channels.
Channels(r, count, Pixel(_)) ==
  [k \in 1 .. Area(r) * count |->
     Pixel(Nth(r, (k - 1) \div count))[((k - 1) % count) + 1]]

\* One bit for every pixel; every row starts with a new byte.
PackedRows(r) ==
  LET stride == (r.width + ByteBits - 1) \div ByteBits IN
  [k \in 1 .. stride * r.height |->
     [b \in 1 .. ByteBits |->
        LET column == ((k - 1) % stride) * ByteBits + b - 1
        IN  IF column >= r.width THEN Padding
            ELSE r.picture[<<column, (k - 1) \div stride>>] - 1]]

Compressed(bytes) ==
  IF Len(bytes) < TooShortForZlib THEN bytes ELSE <<1, [inflates |-> bytes]>>

\* What the protocol says the rectangle looks like.
Encoded(r) ==
  CASE r.method = "raw"     -> Channels(r, 4, Bgrx)
    [] r.method = "fill"    -> Tpixel(Nth(r, 0))
    [] r.method = "copy"    -> Compressed(Channels(r, 3, Tpixel))
    [] r.method = "palette" ->
         [k \in 1 .. 3 * r.palette |-> Tpixel((k - 1) \div 3 + 1)[((k - 1) % 3) + 1]]
           \o Compressed(IF r.palette = 2 THEN PackedRows(r)
                         ELSE [k \in 1 .. Area(r) |-> Nth(r, k - 1) - 1])
    [] r.method = "jpeg"    -> <<1, [lines |-> Channels(r, 4, Bgrx)]>>
    [] r.method = "cursor"  -> Channels(r, 4, Bgrx) \o PackedRows(r)

SendRectangle(r) ==
  /\ step = "idle"
  /\ rects < MaxRects
  /\ step' = "reading"
  /\ rect' = r
  /\ before' = fb
  /\ wire' = Encoded(r)
  /\ rects' = rects + 1
  /\ UNCHANGED <<job, x, y, i, bits, fb, rgba, cursor>>

-----------------------------------------------------------------------------
(* handle_rectangle: the payload                                           *)

\* read_bytes and parse_packet wait for bytes that were not sent.
Starved(n) == n > Len(wire)

\* The rectangle has n bytes.
Accept(n, new) ==
  IF Starved(n)
  THEN step' = "starved" /\ UNCHANGED <<wire, job>>
  ELSE /\ step' = "accepted"
       /\ wire' = SubSeq(wire, n + 1, Len(wire))
       /\ job' = new

Part(first, n) == SubSeq(wire, first, first + n - 1)
Job(colors, data, mask) ==
  [colors |-> colors, data |-> data, mask |-> mask, compressed |-> FALSE]

Color(n) == <<wire[3 * n - 2], wire[3 * n - 1], wire[3 * n]>>

\* A palette and then read_zlib_data.
AcceptZlib(no_of_colors, uncompressed_size) ==
  LET colors == [n \in 1 .. no_of_colors |-> Color(n)]
      at     == 3 * no_of_colors
  IN  IF uncompressed_size < TooShortForZlib
      THEN Accept(at + uncompressed_size,
                  Job(colors, Part(at + 1, uncompressed_size), <<>>))
      ELSE Accept(at + 1 + wire[at + 1],
                  [Job(colors, Part(at + 2, wire[at + 1]), <<>>)
                     EXCEPT !.compressed = TRUE])

\* Mistake: rows that do not fill their last byte are rounded down.
StrideDown(width) == width \div ByteBits

\* Bytes of a row of bits.
Stride(width) == (width + ByteBits - 1) \div ByteBits

ReadRectangle ==
  LET area == rect.width * rect.height IN
  /\ step = "reading"
  /\ \/ /\ rect.method = "raw"
        /\ Accept(4 * area, Job(<<>>, Part(1, 4 * area), <<>>))
     \/ /\ rect.method = "fill"
        /\ Accept(3, Job(<<Color(1)>>, <<>>, <<>>))
     \/ /\ rect.method = "palette"
        /\ AcceptZlib(rect.palette,
             rect.height * IF rect.palette = 2 THEN Stride(rect.width)
                           ELSE rect.width)
     \/ /\ rect.method = "copy"
        /\ AcceptZlib(0, area * 3)
     \/ /\ rect.method = "jpeg"
        /\ Accept(1 + wire[1], Job(<<>>, Part(2, wire[1]), <<>>))
     \/ /\ rect.method = "cursor"
        /\ LET mask == Stride(rect.width) * rect.height
           IN  Accept(4 * area + mask,
                      Job(<<>>, Part(1, 4 * area), Part(4 * area + 1, mask)))
  /\ UNCHANGED <<rect, before, rects, x, y, i, bits, fb, rgba, cursor>>

-----------------------------------------------------------------------------
(* BitBuffer                                                               *)

NewBits == [byte |-> <<>>, bit |-> 0, byte_pos |-> 0]

NextByte(bb) == [bb EXCEPT !.bit = 0]

\* next() indexes behind the data.
BitsEnd(bb, bytes) == bb.bit = 0 /\ bb.byte_pos >= Len(bytes)

Loaded(bb, bytes) ==
  IF bb.bit = 0
  THEN [bb EXCEPT !.byte = bytes[bb.byte_pos + 1], !.byte_pos = @ + 1]
  ELSE bb

\* What next() returns, and the buffer after it.
Bit(bb, bytes) == Head(Loaded(bb, bytes).byte)
AfterBit(bb, bytes) ==
  [Loaded(bb, bytes) EXCEPT !.byte = Tail(@), !.bit = (@ + 1) % ByteBits]

-----------------------------------------------------------------------------
(* decode()                                                                *)

\* ZlibDecoder::decode empties its buffer and returns what this chunk adds.
Inflated(data) == data[1].inflates

\* The data of a Tight rectangle are inflated; the loops begin.
BeginDecode ==
  /\ step = "accepted"
  /\ step' = "decoding"
  /\ job' = IF job.compressed THEN [job EXCEPT !.data = Inflated(@)] ELSE job
  /\ x' = 0 /\ y' = 0 /\ i' = 0
  /\ bits' = NewBits
  /\ rgba' = <<>>
  /\ UNCHANGED <<readVars, fb, cursor>>

InLoop(method) ==
  /\ step = "decoding"
  /\ rect.method = method
  /\ y < rect.height

TwoColors == Len(job.colors) = 2

\* Mistake: a row of bits goes on in the byte in which the last one ended.
RowBitsPacked == bits

\* The bits of a palette rectangle as they are read: each row starts with
\* next_byte().
RowBits == IF x = 0 THEN NextByte(bits) ELSE bits

\* A slice would be indexed behind its end, which is a panic.
Overrun ==
  \/ InLoop("raw")    /\ 4 * i + 3 > Len(job.data)
  \/ InLoop("copy")   /\ i + 3 > Len(job.data)
  \/ InLoop("palette") /\ IF TwoColors THEN BitsEnd(RowBits, job.data)
                          ELSE i >= Len(job.data)
  \/ InLoop("cursor") /\ (4 * i + 3 > Len(job.data) \/ BitsEnd(bits, job.mask))

Pos(px, py) == py * FbWidth + px

SetPixel(color) ==
  fb' = [fb EXCEPT ![Pos(x + rect.x, y + rect.y)] =
           <<color[3], color[2], color[1]>>]

\* The inner loop, and at its end the outer one.
NextPixel ==
  /\ IF x + 1 < rect.width THEN x' = x + 1 /\ y' = y ELSE x' = 0 /\ y' = y + 1
  /\ UNCHANGED <<step, readVars, job, cursor>>

Fill ==
  /\ InLoop("fill")
  /\ SetPixel(job.colors[1])
  /\ NextPixel
  /\ UNCHANGED <<i, bits, rgba>>

RawBgra ==
  /\ InLoop("raw") /\ ~ Overrun
  /\ SetPixel(<<job.data[4 * i + 3], job.data[4 * i + 2], job.data[4 * i + 1]>>)
  /\ i' = i + 1
  /\ NextPixel
  /\ UNCHANGED <<bits, rgba>>

\* Mistake: a Tight pixel has four bytes as well.
CopyFilterBgrx ==
  /\ InLoop("copy") /\ ~ Overrun
  /\ SetPixel(<<job.data[i + 1], job.data[i + 2], job.data[i + 3]>>)
  /\ i' = i + 4
  /\ NextPixel
  /\ UNCHANGED <<bits, rgba>>

CopyFilter ==
  /\ InLoop("copy") /\ ~ Overrun
  /\ SetPixel(<<job.data[i + 1], job.data[i + 2], job.data[i + 3]>>)
  /\ i' = i + 3
  /\ NextPixel
  /\ UNCHANGED <<bits, rgba>>

PaletteFilter ==
  /\ InLoop("palette") /\ ~ Overrun
  /\ IF TwoColors
     THEN /\ SetPixel(job.colors[Bit(RowBits, job.data) + 1])
          /\ bits' = AfterBit(RowBits, job.data)
          /\ UNCHANGED i
     ELSE /\ SetPixel(job.colors[job.data[i + 1] + 1])
          /\ i' = i + 1
          /\ UNCHANGED bits
  /\ NextPixel
  /\ UNCHANGED rgba

\* What current_line() returns after n calls of next_line().  The image has
\* the size of the rectangle.
ImageLine(n) ==
  SubSeq(job.data[1].lines, 4 * (n - 1) * rect.width + 1, 4 * n * rect.width)

\* All pixels of a line at once.
SetLine(line) ==
  LET first == Pos(rect.x, y + rect.y) IN
  fb' = [p \in DOMAIN fb |->
           LET k == 4 * (p - first)
           IN  IF p \in first .. first + rect.width - 1
               THEN <<line[k + 1], line[k + 2], line[k + 3]>> ELSE fb[p]]

JpegLine ==
  /\ InLoop("jpeg")
  /\ SetLine(ImageLine(y + 1))
  /\ y' = y + 1
  /\ UNCHANGED <<step, readVars, job, x, i, bits, rgba, cursor>>

CursorBgrx ==
  /\ InLoop("cursor") /\ ~ Overrun
  /\ rgba' = rgba \o <<job.data[4 * i + 3], job.data[4 * i + 2],
                       job.data[4 * i + 1], Bit(bits, job.mask) * 255>>
  /\ bits' = LET after == AfterBit(bits, job.mask)
             IN  IF x + 1 = rect.width THEN NextByte(after) ELSE after
  /\ i' = i + 1
  /\ NextPixel
  /\ UNCHANGED fb

\* The loops end; Cursor::change_data.
EndDecode ==
  /\ step = "decoding"
  /\ y >= rect.height
  /\ step' = "idle"
  /\ cursor' = IF rect.method = "cursor"
               THEN [data |-> rgba, size |-> <<rect.width, rect.height>>,
                     hotspot |-> <<rect.x, rect.y>>]
               ELSE cursor
  /\ UNCHANGED <<readVars, job, x, y, i, bits, fb, rgba>>

-----------------------------------------------------------------------------
Init ==
  /\ step = "idle"
  /\ rect = [method |-> "none"] /\ wire = <<>>
  /\ job = Job(<<>>, <<>>, <<>>)
  /\ x = 0 /\ y = 0 /\ i = 0
  /\ bits = NewBits
  /\ fb = [p \in 0 .. FbWidth * FbHeight - 1 |-> Gray]
  /\ before = fb
  /\ rgba = <<>> /\ cursor = [data |-> <<>>]
  /\ rects = 0

Decode ==
  \/ BeginDecode
  \/ Fill \/ RawBgra \/ CopyFilter \/ PaletteFilter \/ JpegLine \/ CursorBgrx
  \/ EndDecode

Next ==
  \/ \E r \in Rectangles : SendRectangle(r)
  \/ ReadRectangle
  \/ Decode

Spec == Init /\ [][Next]_vars

-----------------------------------------------------------------------------
(* Properties                                                              *)

(* The reader takes exactly the bytes the server sent for a rectangle:     *)
(* neither waits it for bytes that never come, nor takes the next packet's *)
(* for data, whatever the encoding and however wide the rectangle is.      *)
ReaderStaysInStep ==
  /\ step # "starved"
  /\ step = "accepted" => wire = <<>>

(* The loops of decode() never index behind the data the reader read for   *)
(* them: the sizes the two compute agree.                                  *)
SizesAgree == ~ Overrun

\* The framebuffer with the picture of the rectangle in it.
Painted(r, old) ==
  [p \in DOMAIN old |->
     LET column == p % FbWidth  row == p \div FbWidth
         inside == /\ column \in r.x .. r.x + r.width - 1
                   /\ row \in r.y .. r.y + r.height - 1
     IN  IF inside
         THEN SubSeq(Bgrx(r.picture[<<column - r.x, row - r.y>>]), 1, 3)
         ELSE old[p]]

\* Cursors are opaque where their picture has the second color.
Rgba(index) == Colors[index] \o <<IF index = 2 THEN 255 ELSE 0>>

(* The decoded picture is the one the server encoded, at its place and     *)
(* with its colors, and nothing else changes.                              *)
PictureIsReproduced ==
  step = "idle" /\ rects > 0 =>
    IF rect.method = "cursor"
    THEN /\ cursor = [data |-> Channels(rect, 4, Rgba),
                      size |-> <<rect.width, rect.height>>,
                      hotspot |-> <<rect.x, rect.y>>]
         /\ fb = before
    ELSE fb = Painted(rect, before)
=============================================================================
