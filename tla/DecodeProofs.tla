---------------------------- MODULE DecodeProofs ----------------------------
(***************************************************************************)
(* The reader and the decoder agree with the server on every rectangle:    *)
(* for framebuffers and rectangles of any size, bytes of any number of     *)
(* bits and any bound below which zlib is not used.                        *)
(*                                                                         *)
(* The invariant IInv describes every point of the loops of decode(): how  *)
(* much of the data is used up, where the BitBuffer is, and that the       *)
(* framebuffer is the old one with the first Count pixels of the picture   *)
(* in it.  Most of the lemmas are about positions: of pixels in rows, of   *)
(* channels in pixels, of bits in bytes.                                   *)
(***************************************************************************)
EXTENDS Decode, SequenceTheorems, TLAPS

-----------------------------------------------------------------------------
(* The invariant                                                           *)

\* What decode() walks over, once it is inflated.
Bytes(r) ==
  CASE r.method \in {"raw", "cursor"} -> Channels(r, 4, Bgrx)
    [] r.method = "fill"    -> <<>>
    [] r.method = "copy"    -> Channels(r, 3, Tpixel)
    [] r.method = "palette" -> IF r.palette = 2 THEN PackedRows(r)
                               ELSE [k \in 1 .. Area(r) |-> Nth(r, k - 1) - 1]
    [] r.method = "jpeg"    -> <<[lines |-> Channels(r, 4, Bgrx)]>>

\* The job's colors and mask are those of the rectangle.
JobInv ==
  /\ job = [colors |-> job.colors, data |-> job.data, mask |-> job.mask,
            compressed |-> job.compressed]
  /\ rect.method = "fill" => job.colors[1] = Tpixel(1)
  /\ rect.method = "palette" =>
       job.colors = [n \in 1 .. rect.palette |-> Tpixel(n)]
  /\ rect.method = "cursor" => job.mask = PackedRows(rect)

\* The pixels that the loops are through with, in the order of the rows.
Count == y * rect.width + x
Done(column, row) == row < y \/ (row = y /\ column < x)

\* The picture covers the framebuffer's column and row.
Covers(r, column, row) ==
  /\ column \in r.x .. r.x + r.width - 1
  /\ row \in r.y .. r.y + r.height - 1

\* The framebuffer with the first Count pixels of the picture in it.
Progress(p) ==
  LET column == p % FbWidth  row == p \div FbWidth
  IN  IF Covers(rect, column, row) /\ Done(column - rect.x, row - rect.y)
      THEN SubSeq(Bgrx(rect.picture[<<column - rect.x, row - rect.y>>]), 1, 3)
      ELSE before[p]

\* The buffer b has given out c bits of row l of the packed data, and no bit of
\* the byte after them.
BitsAt(b, data, stride, c, l) ==
  /\ b = [byte |-> b.byte, bit |-> b.bit, byte_pos |-> b.byte_pos]
  /\ b.bit = c % ByteBits
  /\ b.byte_pos = l * stride + Stride(c)
  /\ b.bit # 0 => b.byte = SubSeq(data[b.byte_pos], b.bit + 1, ByteBits)

\* What the loops have taken of the data.
Indices ==
  /\ rect.method \in {"raw", "cursor"} => i = Count
  /\ rect.method = "palette" /\ rect.palette # 2 => i = Count
  /\ rect.method = "copy" => i = 3 * Count
  /\ rect.method = "palette" /\ rect.palette = 2 =>
       BitsAt(RowBits, job.data, Stride(rect.width), x, y)
  /\ rect.method = "cursor" =>
       /\ BitsAt(bits, job.mask, Stride(rect.width), x, y)
       /\ rgba = [k \in 1 .. Count * 4 |->
                    Rgba(Nth(rect, (k - 1) \div 4))[((k - 1) % 4) + 1]]

LoopInv ==
  /\ x \in Nat /\ y \in 0 .. rect.height
  /\ x # 0 => x < rect.width /\ y < rect.height
  /\ rect.method = "jpeg" => x = 0
  /\ job.data = Bytes(rect)
  /\ fb = IF rect.method = "cursor" THEN before
          ELSE [p \in DOMAIN before |-> Progress(p)]
  /\ Indices

IInv ==
  /\ step \in {"idle", "reading", "accepted", "decoding"}
  /\ rects \in Nat
  /\ DOMAIN fb = 0 .. FbWidth * FbHeight - 1
  /\ fb = [p \in DOMAIN fb |-> fb[p]]
  /\ DOMAIN before = DOMAIN fb
  /\ before = [p \in DOMAIN before |-> before[p]]
  /\ step # "idle" => rect \in Rectangles
  /\ step = "reading" => wire = Encoded(rect) /\ fb = before
  /\ step = "accepted" =>
       /\ wire = <<>> /\ fb = before
       /\ JobInv
       /\ job.compressed \in BOOLEAN
       /\ job.data = IF job.compressed THEN <<[inflates |-> Bytes(rect)]>>
                     ELSE Bytes(rect)
  /\ step = "decoding" => JobInv /\ LoopInv
  /\ PictureIsReproduced

-----------------------------------------------------------------------------
(* Lemmas about arithmetic                                                 *)

(* A product with a factor that is larger by one, or not smaller.          *)
LEMMA Products ==
  ASSUME NEW a \in Nat, NEW b \in Nat, NEW w \in Nat, a < b
  PROVE  /\ a * w \in Nat /\ b * w \in Nat
         /\ (a + 1) * w = a * w + w
         /\ a * w + w <= b * w
<1>1. PICK d \in Nat : b = a + 1 + d
  <2>1. b - a - 1 \in Nat /\ b = a + 1 + (b - a - 1)
    OBVIOUS
  <2> QED BY <2>1
<1>2. b * w = a * w + w + d * w
  BY <1>1
<1>3. a * w \in Nat /\ b * w \in Nat /\ d * w \in Nat
  OBVIOUS
<1> QED BY <1>2, <1>3

(* The quotient and the rest of a division.                                *)
LEMMA Division ==
  ASSUME NEW n \in Nat, NEW w \in Nat, w > 0
  PROVE  /\ n \div w \in Nat /\ n % w \in 0 .. w - 1
         /\ n = (n \div w) * w + (n % w)
OBVIOUS

(* A quotient and a rest belong to one number.                             *)
LEMMA Unique ==
  ASSUME NEW a \in Nat, NEW w \in Nat, NEW b \in 0 .. w - 1
  PROVE  /\ a * w + b \in Nat
         /\ (a * w + b) \div w = a
         /\ (a * w + b) % w = b
<1> DEFINE n == a * w + b
           q == n \div w
           m == n % w
<1>1. w > 0 /\ a * w \in Nat /\ n \in Nat
  OBVIOUS
<1>2. q \in Nat /\ m \in 0 .. w - 1 /\ n = q * w + m
  BY <1>1, Division
<1>3. a * w + b = q * w + m
  BY <1>2
<1> HIDE DEF n, q, m
<1>4. q = a
  <2>1. ~ (a < q)
    <3> SUFFICES ASSUME a < q PROVE FALSE
      OBVIOUS
    <3>1. a * w + w <= q * w
      BY <1>2, Products
    <3> QED BY <1>1, <1>2, <1>3, <3>1
  <2>2. ~ (q < a)
    <3> SUFFICES ASSUME q < a PROVE FALSE
      OBVIOUS
    <3>1. q * w + w <= a * w
      BY <1>2, Products
    <3> QED BY <1>1, <1>2, <1>3, <3>1
  <2> QED BY <1>2, <2>1, <2>2
<1> QED BY <1>1, <1>2, <1>3, <1>4 DEF n, q, m

(* Column c of row l among h rows of w, row by row.                        *)
LEMMA Place ==
  ASSUME NEW w \in Nat, NEW h \in Nat, NEW c \in 0 .. w - 1, NEW l \in 0 .. h - 1
  PROVE  /\ l * w + c \in 0 .. w * h - 1
         /\ w * h \in Nat
         /\ (l + 1) * w = l * w + w
         /\ (l * w + c) \div w = l /\ (l * w + c) % w = c
<1>1. l * w \in Nat /\ h * w \in Nat /\ (l + 1) * w = l * w + w /\ l * w + w <= h * w
  BY Products
<1>2. h * w = w * h
  OBVIOUS
<1> QED BY <1>1, <1>2, Unique

(* And back: where a number is.                                            *)
LEMMA RowOf ==
  ASSUME NEW w \in Nat, NEW h \in Nat, NEW n \in 0 .. w * h - 1
  PROVE  /\ w > 0
         /\ n \div w \in 0 .. h - 1 /\ n % w \in 0 .. w - 1
         /\ n = (n \div w) * w + (n % w)
<1> DEFINE q == n \div w
           m == n % w
<1>1. w > 0 /\ n \in Nat
  OBVIOUS
<1>2. q \in Nat /\ m \in 0 .. w - 1 /\ n = q * w + m
  BY <1>1, Division
<1> HIDE DEF q, m
<1>3. q < h
  <2> SUFFICES ASSUME h < q \/ h = q PROVE FALSE
    BY <1>2
  <2>1. h * w = w * h /\ h * w \in Nat /\ q * w \in Nat
    BY <1>2
  <2>2. h * w <= q * w
    <3>1. CASE h < q
      BY <1>2, <2>1, <3>1, Products
    <3> QED BY <2>1, <3>1
  <2> QED BY <1>2, <2>1, <2>2
<1> QED BY <1>1, <1>2, <1>3 DEF q, m

-----------------------------------------------------------------------------
(* Lemmas about sequences                                                  *)

\* s is a sequence of n elements.
HasLength(s, n) == s = [k \in 1 .. n |-> s[k]]

(* Such a sequence is one of its elements.                                 *)
LEMMA IsSequence ==
  ASSUME NEW s, NEW n \in Nat, HasLength(s, n),
         NEW S, \A k \in 1 .. n : s[k] \in S
  PROVE  s \in Seq(S) /\ Len(s) = n /\ DOMAIN s = 1 .. n
  BY DEF HasLength

(* Sequences of one length with the same elements are the same.            *)
LEMMA SameSequence ==
  ASSUME NEW s, NEW t, NEW n \in Nat, HasLength(s, n), HasLength(t, n),
         \A k \in 1 .. n : s[k] = t[k]
  PROVE  s = t
  BY DEF HasLength

(* What a part of a sequence is.                                           *)
LEMMA PartOf ==
  ASSUME NEW s, NEW a \in Nat, NEW b \in Nat, a <= b + 1
  PROVE  /\ HasLength(SubSeq(s, a, b), b - a + 1)
         /\ \A k \in 1 .. b - a + 1 : SubSeq(s, a, b)[k] = s[a + k - 1]
<1> DEFINE t == SubSeq(s, a, b)
           S == {s[k] : k \in a .. b}
<1>1. \A k \in a .. b : s[k] \in S
  OBVIOUS
<1> HIDE DEF S
<1>2. /\ t \in Seq(S)
      /\ Len(t) = IF a <= b THEN b - a + 1 ELSE 0
      /\ \A k \in 1 .. b - a + 1 : t[k] = s[a + k - 1]
  BY <1>1, SubSeqProperties
<1> HIDE DEF t
<1>3. Len(t) = b - a + 1
  BY <1>2
<1>4. HasLength(t, b - a + 1)
  BY <1>2, <1>3, LenProperties DEF HasLength
<1> QED BY <1>2, <1>4 DEF t

(* What its beginning is.                                                  *)
LEMMA BeginningOf ==
  ASSUME NEW s, NEW n \in Nat
  PROVE  /\ HasLength(SubSeq(s, 1, n), n)
         /\ \A k \in 1 .. n : SubSeq(s, 1, n)[k] = s[k]
<1>1. PICK a \in Nat : a = 1
  OBVIOUS
<1> DEFINE t == SubSeq(s, a, n)
<1>p. a <= n + 1
  BY <1>1
<1>2. HasLength(t, n - a + 1) /\ \A k \in 1 .. n - a + 1 : t[k] = s[a + k - 1]
  BY <1>p, PartOf
<1> HIDE DEF t
<1>3. n - a + 1 = n /\ \A k \in 1 .. n : a + k - 1 = k
  BY <1>1
<1>4. HasLength(t, n) /\ \A k \in 1 .. n : t[k] = s[k]
  BY <1>2, <1>3
<1> QED BY <1>1, <1>4 DEF t

(* To read a sequence from its beginning to its end.                       *)
LEMMA ReadAll ==
  ASSUME NEW s, NEW n \in Nat, HasLength(s, n)
  PROVE  /\ Len(s) = n
         /\ SubSeq(s, 1, n) = s
         /\ SubSeq(s, n + 1, n) = <<>>
<1>1. Len(s) = n
  BY DEF HasLength
<1>2. SubSeq(s, 1, n) = s
  <2> DEFINE t == SubSeq(s, 1, n)
  <2>1. HasLength(t, n) /\ \A k \in 1 .. n : t[k] = s[k]
    BY BeginningOf
  <2> HIDE DEF t
  <2> QED BY <2>1, SameSequence DEF t
<1> QED BY <1>1, <1>2, SubSeqEmpty

\* u is s and then t.
Joins(u, s, t) == u = s \o t

(* Two sequences after each other.                                         *)
LEMMA Joined ==
  ASSUME NEW s, NEW n \in Nat, HasLength(s, n), NEW t, NEW m \in Nat, HasLength(t, m),
         NEW u, Joins(u, s, t)
  PROVE  /\ HasLength(u, n + m)
         /\ Len(u) = n + m
         /\ \A k \in 1 .. n + m : u[k] = IF k <= n THEN s[k] ELSE t[k - n]
<1> DEFINE S == {s[k] : k \in 1 .. n} \cup {t[k] : k \in 1 .. m}
<1>1. s \in Seq(S) /\ Len(s) = n /\ t \in Seq(S) /\ Len(t) = m
  <2>1. \A k \in 1 .. n : s[k] \in S
    OBVIOUS
  <2>2. \A k \in 1 .. m : t[k] \in S
    OBVIOUS
  <2> HIDE DEF S
  <2> QED BY <2>1, <2>2, IsSequence DEF HasLength
<1> HIDE DEF S
<1>2. /\ s \o t \in Seq(S) /\ Len(s \o t) = n + m
      /\ \A k \in 1 .. n + m : (s \o t)[k] = IF k <= n THEN s[k] ELSE t[k - n]
  BY <1>1, ConcatProperties
<1>3. HasLength(u, n + m)
  BY <1>1, <1>2, LenProperties DEF HasLength, Joins
<1> QED BY <1>1, <1>2, <1>3 DEF Joins

(* To read one sequence and then another.                                  *)
LEMMA ReadBoth ==
  ASSUME NEW s, NEW n \in Nat, HasLength(s, n), NEW t, NEW m \in Nat, HasLength(t, m),
         NEW u, Joins(u, s, t)
  PROVE  /\ Len(u) = n + m
         /\ SubSeq(u, 1, n) = s
         /\ SubSeq(u, n + 1, n + m) = t
         /\ SubSeq(u, n + m + 1, n + m) = <<>>
<1>1. Len(u) = n + m
  BY Joined
<1>2. \A k \in 1 .. n + m : u[k] = IF k <= n THEN s[k] ELSE t[k - n]
  BY Joined
<1>3. SubSeq(u, 1, n) = s
  <2> DEFINE v == SubSeq(u, 1, n)
  <2>1. HasLength(v, n) /\ \A k \in 1 .. n : v[k] = u[k]
    BY BeginningOf
  <2> HIDE DEF v
  <2>2. \A k \in 1 .. n : v[k] = s[k]
    BY <1>2, <2>1
  <2> QED BY <2>1, <2>2, SameSequence DEF v
<1>4. SubSeq(u, n + 1, n + m) = t
  <2> DEFINE v == SubSeq(u, n + 1, n + m)
  <2>1. /\ HasLength(v, n + m - (n + 1) + 1)
        /\ \A k \in 1 .. n + m - (n + 1) + 1 : v[k] = u[n + 1 + k - 1]
    BY PartOf
  <2> HIDE DEF v
  <2>2. n + m - (n + 1) + 1 = m /\ \A k \in 1 .. m : v[k] = t[k]
    BY <1>2, <2>1
  <2> QED BY <2>1, <2>2, SameSequence DEF v
<1> QED BY <1>1, <1>3, <1>4, SubSeqEmpty

-----------------------------------------------------------------------------
(* Lemmas about rectangles                                                 *)

\* What decode() relies on.
Proper(r) ==
  /\ r.x \in Nat /\ r.y \in Nat /\ r.width \in Nat /\ r.height \in Nat
  /\ r.x + r.width <= FbWidth /\ r.y + r.height <= FbHeight
  /\ r.method \in {"raw", "fill", "copy", "palette", "jpeg", "cursor"}
  /\ r.palette \in 1 .. Len(Colors)
  /\ r.method = "palette" => r.palette >= 2
  /\ r.method = "cursor" => r.palette = 2
  /\ r.method = "fill" => r.palette = 1
  /\ r.method = "cursor" \/ (r.width > 0 /\ r.height > 0)
  /\ r.height > 0 => r.width > 0
  /\ \A c \in 0 .. r.width - 1, l \in 0 .. r.height - 1 :
       r.picture[<<c, l>>] \in 1 .. r.palette

(* A rectangle of the server is inside the framebuffer and its picture has *)
(* an index for each of its places.                                        *)
LEMMA RectanglesAreProper == \A r \in Rectangles : Proper(r)
<1> SUFFICES ASSUME NEW r \in Rectangles PROVE Proper(r)
  OBVIOUS
<1>1. {ByteBits, FbWidth, FbHeight} \subseteq Nat \ {0} /\ Len(Colors) \in Nat /\ Len(Colors) > 2
  BY DecodeAssumption DEF DecodeAssumption
<1>2. CASE r = NoCursor
  BY <1>1, <1>2 DEF NoCursor, Proper
<1>3. CASE r # NoCursor
  <2>1. PICK kind \in Kinds, w \in 1 .. FbWidth, h \in 1 .. FbHeight :
          r \in RectanglesOf(kind, w, h)
    BY <1>3 DEF Rectangles
  <2>2. /\ kind[1] \in {"raw", "fill", "copy", "palette", "jpeg", "cursor"}
        /\ kind[2] \in 1 .. Len(Colors)
        /\ kind[1] = "palette" => kind[2] >= 2
        /\ kind[1] = "cursor" => kind[2] = 2
        /\ kind[1] = "fill" => kind[2] = 1
    BY <1>1, <2>1 DEF Kinds
  <2>3. /\ r.method = kind[1] /\ r.palette = kind[2] /\ r.width = w /\ r.height = h
        /\ r.x \in 0 .. FbWidth - w /\ r.y \in 0 .. FbHeight - h
        /\ r.picture \in [(0 .. w - 1) \X (0 .. h - 1) -> 1 .. kind[2]]
    BY <2>1 DEF RectanglesOf
  <2>4. \A c \in 0 .. w - 1, l \in 0 .. h - 1 : r.picture[<<c, l>>] \in 1 .. kind[2]
    BY <2>3
  <2> QED BY <1>1, <2>1, <2>2, <2>3, <2>4 DEF Proper
<1> QED BY <1>2, <1>3

(* The places of a picture, row by row.                                    *)
LEMMA Places ==
  ASSUME NEW r, Proper(r)
  PROVE  /\ Area(r) \in Nat
         /\ \A c \in 0 .. r.width - 1, l \in 0 .. r.height - 1 :
              /\ l * r.width + c \in 0 .. Area(r) - 1
              /\ Nth(r, l * r.width + c) = r.picture[<<c, l>>]
         /\ \A n \in 0 .. Area(r) - 1 : Nth(r, n) \in 1 .. r.palette
<1> DEFINE w == r.width
           h == r.height
<1>1. w \in Nat /\ h \in Nat /\ Area(r) = w * h /\ w * h \in Nat /\ w * h = h * w
  BY DEF Proper, Area
<1>p. \A c \in 0 .. w - 1, l \in 0 .. h - 1 : r.picture[<<c, l>>] \in 1 .. r.palette
  BY DEF Proper
<1>n. \A n : Nth(r, n) = r.picture[<<n % w, n \div w>>]
  BY DEF Nth
<1> HIDE DEF w, h
<1>2. ASSUME NEW c \in 0 .. w - 1, NEW l \in 0 .. h - 1
      PROVE  /\ l * w + c \in 0 .. Area(r) - 1
             /\ Nth(r, l * w + c) = r.picture[<<c, l>>]
  <2> DEFINE n == l * w + c
  <2>1. n \in 0 .. w * h - 1 /\ n \div w = l /\ n % w = c
    BY <1>1, Place
  <2> HIDE DEF n
  <2>2. n \in 0 .. Area(r) - 1 /\ Nth(r, n) = r.picture[<<c, l>>]
    BY <1>1, <1>n, <2>1
  <2> QED BY <2>2 DEF n
<1>3. ASSUME NEW n \in 0 .. Area(r) - 1 PROVE Nth(r, n) \in 1 .. r.palette
  <2>1. n \div w \in 0 .. h - 1 /\ n % w \in 0 .. w - 1
    BY <1>1, RowOf
  <2> QED BY <1>n, <1>p, <2>1
<1> QED BY <1>1, <1>2, <1>3 DEF w, h

-----------------------------------------------------------------------------
(* Lemmas about packed bits                                                *)

(* How many bytes the first c bits of a row have touched, and what one     *)
(* more bit changes.                                                       *)
LEMMA Strides ==
  ASSUME NEW c \in Nat
  PROVE  /\ ByteBits \in Nat /\ ByteBits > 0
         /\ c \div ByteBits \in Nat /\ c % ByteBits \in 0 .. ByteBits - 1
         /\ c = (c \div ByteBits) * ByteBits + (c % ByteBits)
         /\ Stride(c) = IF c % ByteBits = 0 THEN c \div ByteBits ELSE (c \div ByteBits) + 1
         /\ Stride(c + 1) = (c \div ByteBits) + 1
         /\ (c + 1) % ByteBits
              = IF (c % ByteBits) + 1 = ByteBits THEN 0 ELSE (c % ByteBits) + 1
<1> DEFINE B == ByteBits
           q == c \div B
           m == c % B
<1>1. B \in Nat /\ B > 0
  BY DecodeAssumption DEF DecodeAssumption
<1>2. q \in Nat /\ m \in 0 .. B - 1 /\ c = q * B + m
  BY <1>1, Division
<1>s. \A n : Stride(n) = (n + B - 1) \div B
  BY DEF Stride
<1> HIDE DEF B, q, m
<1>3. q * B \in Nat /\ (q + 1) * B = q * B + B
  BY <1>1, <1>2
<1>4. Stride(c) = IF m = 0 THEN q ELSE q + 1
  <2>1. CASE m = 0
    <3>1. c + B - 1 = q * B + (B - 1) /\ B - 1 \in 0 .. B - 1
      BY <1>1, <1>2, <1>3, <2>1
    <3> QED BY <1>1, <1>2, <1>s, <2>1, <3>1, Unique
  <2>2. CASE m # 0
    <3> DEFINE a == q + 1
               b == m - 1
    <3>1. c + B - 1 = a * B + b /\ b \in 0 .. B - 1 /\ a \in Nat
      BY <1>1, <1>2, <1>3, <2>2
    <3> HIDE DEF a, b
    <3>2. (a * B + b) \div B = a
      BY <1>1, <3>1, Unique
    <3> QED BY <1>s, <2>2, <3>1, <3>2 DEF a
  <2> QED BY <2>1, <2>2
<1>5. Stride(c + 1) = q + 1
  <2> DEFINE a == q + 1
  <2>1. c + 1 + B - 1 = a * B + m /\ a \in Nat
    BY <1>1, <1>2, <1>3
  <2> HIDE DEF a
  <2>2. (a * B + m) \div B = a
    BY <1>1, <1>2, <2>1, Unique
  <2> QED BY <1>s, <2>1, <2>2 DEF a
<1>6. (c + 1) % B = IF m + 1 = B THEN 0 ELSE m + 1
  <2>1. CASE m + 1 = B
    <3>1. c + 1 = (q + 1) * B + 0 /\ 0 \in 0 .. B - 1 /\ q + 1 \in Nat
      BY <1>1, <1>2, <1>3, <2>1
    <3> QED BY <1>1, <2>1, <3>1, Unique
  <2>2. CASE m + 1 # B
    <3>1. c + 1 = q * B + (m + 1) /\ m + 1 \in 0 .. B - 1
      BY <1>1, <1>2, <1>3, <2>2
    <3> QED BY <1>1, <1>2, <2>2, <3>1, Unique
  <2> QED BY <2>1, <2>2
<1> QED BY <1>1, <1>2, <1>4, <1>5, <1>6 DEF B, q, m

(* No bit, no byte.                                                        *)
LEMMA NoBits == Stride(0) = 0 /\ 0 % ByteBits = 0
<1> DEFINE B == ByteBits
<1>1. B \in Nat /\ B > 0
  BY DecodeAssumption DEF DecodeAssumption
<1>s. Stride(0) = (0 + B - 1) \div B
  BY DEF Stride
<1> HIDE DEF B
<1>2. B - 1 \in 0 .. B - 1 /\ 0 \in 0 .. B - 1
  BY <1>1
<1>3. (0 * B + (B - 1)) \div B = 0 /\ (0 * B + 0) % B = 0
  BY <1>1, <1>2, Unique
<1>4. 0 + B - 1 = 0 * B + (B - 1) /\ 0 * B + 0 = 0
  BY <1>1
<1> QED BY <1>s, <1>3, <1>4 DEF B

(* A row has bytes for all its bits.                                       *)
LEMMA StrideCovers ==
  ASSUME NEW w \in Nat, NEW c \in 0 .. w - 1
  PROVE  Stride(w) \in Nat /\ c \div ByteBits \in 0 .. Stride(w) - 1
<1> DEFINE B == ByteBits
           q == c \div B
           s == Stride(w)
<1>1. B \in Nat /\ B > 0 /\ q \in Nat /\ q * B <= c /\ q * B \in Nat /\ c < w
  <2> DEFINE m == c % B
  <2>1. c \in Nat /\ c < w
    OBVIOUS
  <2>2. B \in Nat /\ B > 0 /\ q \in Nat /\ m \in Nat /\ c = q * B + m
    BY <2>1, Strides
  <2> HIDE DEF B, q, m
  <2> QED BY <2>1, <2>2
<1>2. s \in Nat /\ s * B \in Nat /\ w <= s * B
  <2>1. /\ w \div B \in Nat /\ w % B \in 0 .. B - 1 /\ w = (w \div B) * B + (w % B)
        /\ s = IF w % B = 0 THEN w \div B ELSE (w \div B) + 1
    BY Strides
  <2> DEFINE p == w \div B
             m == w % B
  <2> HIDE DEF p, m
  <2>2. p \in Nat /\ m \in 0 .. B - 1 /\ w = p * B + m /\ s = IF m = 0 THEN p ELSE p + 1
    BY <2>1 DEF p, m
  <2>3. p * B \in Nat /\ (p + 1) * B = p * B + B
    BY <1>1, <2>2
  <2> QED BY <1>1, <2>2, <2>3
<1> HIDE DEF B, q, s
<1>3. q < s
  <2> SUFFICES ASSUME s < q \/ s = q PROVE FALSE
    BY <1>1, <1>2
  <2>1. s * B <= q * B
    <3>1. CASE s < q
      BY <1>1, <1>2, <3>1, Products
    <3> QED BY <1>1, <3>1
  <2> QED BY <1>1, <1>2, <2>1
<1> QED BY <1>1, <1>2, <1>3 DEF B, q, s

(* Where the bit of a pixel is.                                            *)
LEMMA PackedBit ==
  ASSUME NEW r, Proper(r), NEW c \in 0 .. r.width - 1, NEW l \in 0 .. r.height - 1,
         NEW k, k = l * Stride(r.width) + (c \div ByteBits) + 1
  PROVE  /\ Len(PackedRows(r)) = Stride(r.width) * r.height
         /\ l * Stride(r.width) \in Nat
         /\ k \in 1 .. Stride(r.width) * r.height
         /\ HasLength(PackedRows(r)[k], ByteBits)
         /\ PackedRows(r)[k][(c % ByteBits) + 1] = r.picture[<<c, l>>] - 1
<1> DEFINE B == ByteBits
           q == c \div B
           m == c % B
           w == r.width
           h == r.height
           s == Stride(w)
           n == s * h
           d == PackedRows(r)
<1>1. B \in Nat /\ w \in Nat /\ h \in Nat /\ c \in Nat /\ l \in Nat /\ c < w
  <2>1. B \in Nat
    BY DecodeAssumption DEF DecodeAssumption
  <2>2. w \in Nat /\ h \in Nat
    BY DEF Proper
  <2> HIDE DEF B
  <2> QED BY <2>1, <2>2
<1>2. s \in Nat /\ q \in 0 .. s - 1 /\ m \in 0 .. B - 1 /\ c = q * B + m
  BY <1>1, Strides, StrideCovers
<1>3. d = [j \in 1 .. n |->
             [b \in 1 .. B |->
                LET column == ((j - 1) % s) * B + b - 1
                IN  IF column >= w THEN Padding
                    ELSE r.picture[<<column, (j - 1) \div s>>] - 1]]
  BY DEF PackedRows, Stride
<1>k. k = l * s + q + 1
  OBVIOUS
<1> HIDE DEF B, q, m, w, h, s, d
<1>4. /\ n \in Nat /\ l * s \in Nat /\ k - 1 = l * s + q /\ k - 1 \in 0 .. n - 1
      /\ (k - 1) \div s = l /\ (k - 1) % s = q
  <2>1. l \in 0 .. h - 1
    BY DEF h
  <2>2. l * s \in Nat /\ n \in Nat
    BY <1>1, <1>2
  <2>3. k - 1 = l * s + q
    BY <1>k, <1>2, <2>2
  <2> QED BY <1>1, <1>2, <2>1, <2>2, <2>3, Place
<1> HIDE DEF n
<1>5. k \in 1 .. n
  BY <1>4, <1>2, <1>k
<1>6. d[k] = [b \in 1 .. B |->
                IF q * B + b - 1 >= w THEN Padding
                ELSE r.picture[<<q * B + b - 1, l>>] - 1]
  BY <1>3, <1>4, <1>5
<1>7. HasLength(d[k], B)
  BY <1>6 DEF HasLength
<1>8. d[k][m + 1] = r.picture[<<c, l>>] - 1
  <2>1. m + 1 \in 1 .. B /\ q * B + (m + 1) - 1 = c
    BY <1>1, <1>2
  <2> QED BY <1>1, <1>6, <2>1
<1>9. Len(d) = n
  BY <1>3, <1>4
<1> QED BY <1>4, <1>5, <1>7, <1>8, <1>9 DEF B, q, m, w, h, s, n, d

(* next() returns the bit of the pixel and leaves the buffer before the    *)
(* next one; next_byte() at the end of a row leads to the row below.       *)
LEMMA NextBit ==
  ASSUME NEW r, Proper(r), NEW c \in 0 .. r.width - 1, NEW l \in 0 .. r.height - 1,
         NEW b, BitsAt(b, PackedRows(r), Stride(r.width), c, l),
         NEW after, after = AfterBit(b, PackedRows(r))
  PROVE  /\ ~ BitsEnd(b, PackedRows(r))
         /\ Bit(b, PackedRows(r)) = r.picture[<<c, l>>] - 1
         /\ BitsAt(after, PackedRows(r), Stride(r.width), c + 1, l)
         /\ c + 1 = r.width => BitsAt(NextByte(after), PackedRows(r), Stride(r.width), 0, l + 1)
<1> DEFINE B == ByteBits
           q == c \div B
           m == c % B
           s == Stride(r.width)
           d == PackedRows(r)
           k == l * s + q + 1
<1>1. r.width \in Nat /\ r.height \in Nat
  BY DEF Proper
<1>2. c \in Nat /\ l \in Nat /\ s \in Nat
  BY <1>1, StrideCovers
<1>3. /\ B \in Nat /\ B > 0 /\ q \in Nat /\ m \in 0 .. B - 1
      /\ Stride(c) = IF m = 0 THEN q ELSE q + 1
      /\ Stride(c + 1) = q + 1
      /\ (c + 1) % B = IF m + 1 = B THEN 0 ELSE m + 1
  BY <1>2, Strides
<1>4. /\ Len(d) = s * r.height /\ l * s \in Nat
      /\ k \in 1 .. s * r.height
      /\ HasLength(d[k], B)
      /\ d[k][m + 1] = r.picture[<<c, l>>] - 1
  BY PackedBit
<1>5. PICK v, p : /\ b = [byte |-> v, bit |-> m, byte_pos |-> p]
                  /\ p = l * s + Stride(c)
                  /\ m # 0 => v = SubSeq(d[p], m + 1, B)
  BY DEF BitsAt
<1>p. l * s + q + 1 = k /\ after = AfterBit(b, d)
  OBVIOUS
<1> HIDE DEF B, q, m, s, d, k
<1>6. Loaded(b, d) = [byte |-> SubSeq(d[k], m + 1, B), bit |-> m, byte_pos |-> k]
  <2>1. CASE m = 0
    <3>1. p + 1 = k
      BY <1>3, <1>4, <1>5, <1>p, <2>1
    <3>2. SubSeq(d[k], m + 1, B) = d[k]
      BY <1>3, <1>4, <2>1, ReadAll
    <3>3. b.bit = 0 /\ b.byte_pos = p
      BY <1>5, <2>1
    <3>4. Loaded(b, d) = [byte |-> d[p + 1], bit |-> m, byte_pos |-> p + 1]
      BY <1>5, <2>1, <3>3 DEF Loaded
    <3> QED BY <3>1, <3>2, <3>4
  <2>2. CASE m # 0
    <3>1. p = k
      BY <1>3, <1>4, <1>5, <1>p, <2>2
    <3>2. b.bit # 0
      BY <1>5, <2>2
    <3> QED BY <1>5, <2>2, <3>1, <3>2 DEF Loaded
  <2> QED BY <2>1, <2>2
<1>7. /\ Head(SubSeq(d[k], m + 1, B)) = d[k][m + 1]
      /\ Tail(SubSeq(d[k], m + 1, B)) = SubSeq(d[k], m + 1 + 1, B)
  <2> DEFINE S == {d[k][j] : j \in 1 .. B}
  <2>1. \A j \in 1 .. B : d[k][j] \in S
    OBVIOUS
  <2> HIDE DEF S
  <2>2. d[k] \in Seq(S) /\ Len(d[k]) = B
    BY <1>3, <1>4, <2>1, IsSequence
  <2>3. m + 1 \in 1 .. Len(d[k]) /\ B \in m + 1 .. Len(d[k])
    BY <1>3, <2>2
  <2> QED BY <2>2, <2>3, HeadTailOfSubSeq
<1>8. ~ BitsEnd(b, d)
  <2>1. m = 0 => p + 1 = k
    BY <1>3, <1>4, <1>5, <1>p
  <2>2. b.bit = m /\ b.byte_pos = p
    BY <1>5
  <2>3. k \in 1 .. Len(d)
    BY <1>4
  <2>4. m = 0 => ~ (p >= Len(d))
    <3> SUFFICES ASSUME m = 0 PROVE ~ (p >= Len(d))
      OBVIOUS
    <3>1. Len(d) \in Nat
      <4>1. \A n \in Nat : s * n \in Nat
        BY <1>2
      <4> QED BY <1>1, <1>4, <4>1
    <3>2. \A n \in Nat : n + 1 = k => ~ (n >= Len(d))
      BY <2>3, <3>1
    <3>3. Stride(c) \in Nat /\ l * s \in Nat
      BY <1>3, <1>4
    <3>4. \A n, o \in Nat : n + o \in Nat
      OBVIOUS
    <3>5. p \in Nat
      BY <1>5, <3>3, <3>4
    <3> QED BY <2>1, <3>2, <3>5
  <2> QED BY <2>2, <2>4 DEF BitsEnd
<1>9. Bit(b, d) = r.picture[<<c, l>>] - 1
  <2> DEFINE t == SubSeq(d[k], m + 1, B)
             bb == Loaded(b, d)
  <2>0. bb = [byte |-> t, bit |-> m, byte_pos |-> k]
    BY <1>6
  <2> HIDE DEF t, bb
  <2>1. bb.byte = t
    BY <2>0
  <2> QED BY <1>4, <1>7, <2>1 DEF Bit, t, bb
<1>10. after = [byte |-> SubSeq(d[k], m + 1 + 1, B), bit |-> (m + 1) % B, byte_pos |-> k]
  <2> DEFINE t == SubSeq(d[k], m + 1, B)
             bb == Loaded(b, d)
  <2>1. after = [bb EXCEPT !.byte = Tail(@), !.bit = (@ + 1) % B]
    BY <1>p DEF AfterBit, B
  <2>2. bb = [byte |-> t, bit |-> m, byte_pos |-> k]
    BY <1>6
  <2>3. Tail(t) = SubSeq(d[k], m + 1 + 1, B)
    BY <1>7
  <2> HIDE DEF t, bb
  <2>4. after = [byte |-> Tail(t), bit |-> (m + 1) % B, byte_pos |-> k]
    BY <2>1, <2>2
  <2> QED BY <2>3, <2>4
<1>11. (m + 1) % B = IF m + 1 = B THEN 0 ELSE m + 1
  <2>1. CASE m + 1 = B
    <3>1. (1 * B + 0) % B = 0
      BY <1>3, Unique
    <3> QED BY <1>3, <2>1, <3>1
  <2>2. CASE m + 1 # B
    <3> DEFINE n == m + 1
    <3>1. n \in 0 .. B - 1
      BY <1>3, <2>2
    <3> HIDE DEF n
    <3>2. (0 * B + n) % B = n
      BY <1>3, <3>1, Unique
    <3> QED BY <1>3, <2>2, <3>1, <3>2 DEF n
  <2> QED BY <2>1, <2>2
<1>12. BitsAt(after, d, s, c + 1, l)
  <2>1. (m + 1) % B = (c + 1) % B /\ k = l * s + Stride(c + 1)
    BY <1>3, <1>4, <1>11, <1>p
  <2>2. (m + 1) % B # 0 => (m + 1) % B = m + 1
    BY <1>11
  <2> DEFINE n == (m + 1) % B
             t == SubSeq(d[k], m + 1 + 1, B)
  <2>3. n # 0 => t = SubSeq(d[k], n + 1, B)
    BY <2>2
  <2>4. n = (c + 1) % ByteBits /\ k = l * s + Stride(c + 1)
    BY <2>1 DEF B
  <2>5. after = [byte |-> t, bit |-> n, byte_pos |-> k]
    BY <1>10
  <2> HIDE DEF n, t
  <2>6. after.byte = t /\ after.bit = n /\ after.byte_pos = k
    BY <2>5
  <2> QED BY <2>3, <2>4, <2>5, <2>6 DEF BitsAt, B
<1>13. ASSUME c + 1 = r.width PROVE BitsAt(NextByte(after), d, s, 0, l + 1)
  <2>1. (l + 1) * s = l * s + s /\ l * s \in Nat
    BY <1>2, Products
  <2>2. k = (l + 1) * s /\ s = q + 1
    BY <1>3, <1>13, <1>p, <2>1 DEF s
  <2>3. Stride(0) = 0 /\ 0 % B = 0
    BY NoBits DEF B
  <2>4. NextByte(after) = [byte |-> SubSeq(d[k], m + 1 + 1, B), bit |-> 0, byte_pos |-> k]
    <3> DEFINE n == (m + 1) % B
               t == SubSeq(d[k], m + 1 + 1, B)
    <3>1. after = [byte |-> t, bit |-> n, byte_pos |-> k]
      BY <1>10
    <3> HIDE DEF n, t
    <3>2. NextByte(after) = [byte |-> t, bit |-> 0, byte_pos |-> k]
      BY <3>1 DEF NextByte
    <3> QED BY <3>2 DEF t
  <2>5. k = (l + 1) * s + Stride(0)
    BY <1>2, <2>1, <2>2, <2>3
  <2> QED BY <2>3, <2>4, <2>5 DEF BitsAt, B
<1> QED BY <1>8, <1>9, <1>12, <1>13 DEF d, s

-----------------------------------------------------------------------------
(* Lemmas about encodings                                                  *)

(* A color has three channels.                                             *)
LEMMA ColorParts ==
  ASSUME NEW index \in 1 .. Len(Colors)
  PROVE  /\ Colors[index] = <<Colors[index][1], Colors[index][2], Colors[index][3]>>
         /\ HasLength(Colors[index], 3)
<1>1. Colors[index] \in Nat \X Nat \X Nat
  BY DecodeAssumption DEF DecodeAssumption
<1>2. PICK a, b, c \in Nat : Colors[index] = <<a, b, c>>
  BY <1>1
<1> QED BY <1>2 DEF HasLength

\* s has the channels of all pixels f.
HasChannels(s, f, count, size) ==
  \A k \in 1 .. size * count : s[k] = f[(k - 1) \div count][((k - 1) % count) + 1]

(* The c-th channel of the n-th pixel.                                     *)
LEMMA ChannelOf ==
  ASSUME NEW count \in Nat, NEW size \in Nat, NEW s, NEW f, HasChannels(s, f, count, size),
         NEW n \in 0 .. size - 1, NEW c \in 1 .. count
  PROVE  /\ n * count + c \in 1 .. size * count
         /\ s[n * count + c] = f[n][c]
<1> DEFINE b == c - 1
           k == n * count + c
<1>1. b \in 0 .. count - 1 /\ b + 1 = c
  OBVIOUS
<1>2. /\ n * count + b \in 0 .. count * size - 1 /\ count * size \in Nat
      /\ (n * count + b) \div count = n /\ (n * count + b) % count = b
  <2> HIDE DEF b
  <2> QED BY <1>1, Place
<1>3. n * count \in Nat /\ count * size = size * count
  OBVIOUS
<1>4. k \in 1 .. size * count /\ k - 1 = n * count + b
  BY <1>2, <1>3
<1> HIDE DEF b, k
<1>5. s[k] = f[n][b + 1]
  BY <1>2, <1>4 DEF HasChannels
<1> QED BY <1>1, <1>4, <1>5 DEF k

(* Blue is first.                                                          *)
LEMMA BgrxParts ==
  \A index : /\ Bgrx(index)[1] = Colors[index][3]
             /\ Bgrx(index)[2] = Colors[index][2]
             /\ Bgrx(index)[3] = Colors[index][1]
BY DEF Bgrx

(* The channels of a pixel on the wire.                                    *)
LEMMA BgrxChannels ==
  ASSUME NEW r, Proper(r), NEW s, s = Channels(r, 4, Bgrx)
  PROVE  /\ HasLength(s, Area(r) * 4) /\ Area(r) * 4 \in Nat
         /\ \A n \in 0 .. Area(r) - 1 :
              /\ 4 * n + 3 <= Area(r) * 4
              /\ s[4 * n + 1] = Colors[Nth(r, n)][3]
              /\ s[4 * n + 2] = Colors[Nth(r, n)][2]
              /\ s[4 * n + 3] = Colors[Nth(r, n)][1]
<1> DEFINE f == [n \in Nat |-> Bgrx(Nth(r, n))]
           size == Area(r)
<1>1. size \in Nat
  BY Places
<1>2. s = [k \in 1 .. size * 4 |-> Bgrx(Nth(r, (k - 1) \div 4))[((k - 1) % 4) + 1]]
  BY DEF Channels
<1>3. HasLength(s, size * 4)
  BY <1>2 DEF HasLength
<1> HIDE DEF size
<1>4. HasChannels(s, f, 4, size)
  <2> SUFFICES ASSUME NEW k \in 1 .. size * 4
               PROVE  s[k] = f[(k - 1) \div 4][((k - 1) % 4) + 1]
    BY DEF HasChannels
  <2>1. (k - 1) \div 4 \in Nat
    BY <1>1
  <2> QED BY <1>2, <2>1
<1>5. \A n \in 0 .. size - 1 :
        f[n][1] = Colors[Nth(r, n)][3] /\ f[n][2] = Colors[Nth(r, n)][2] /\ f[n][3] = Colors[Nth(r, n)][1]
  BY <1>1, BgrxParts
<1> HIDE DEF f
<1>6. ASSUME NEW n \in 0 .. size - 1
      PROVE  /\ 4 * n + 3 <= size * 4
             /\ s[4 * n + 1] = f[n][1]
             /\ s[4 * n + 2] = f[n][2]
             /\ s[4 * n + 3] = f[n][3]
  <2>1. \A c \in 1 .. 4 : s[n * 4 + c] = f[n][c]
    BY <1>1, <1>4, ChannelOf
  <2>2. s[n * 4 + 1] = f[n][1] /\ s[n * 4 + 2] = f[n][2] /\ s[n * 4 + 3] = f[n][3]
    BY <2>1
  <2>3. n * 4 = 4 * n /\ 4 * n + 3 <= size * 4
    BY <1>1
  <2> QED BY <2>2, <2>3
<1>7. size * 4 \in Nat
  BY <1>1
<1> QED BY <1>3, <1>5, <1>6, <1>7 DEF size

(* The channels of a Tight pixel.                                          *)
LEMMA TpixelChannels ==
  ASSUME NEW r, Proper(r), NEW s, s = Channels(r, 3, Tpixel)
  PROVE  /\ HasLength(s, Area(r) * 3) /\ Area(r) * 3 \in Nat
         /\ \A n \in 0 .. Area(r) - 1 :
              /\ 3 * n + 3 <= Area(r) * 3
              /\ s[3 * n + 1] = Colors[Nth(r, n)][1]
              /\ s[3 * n + 2] = Colors[Nth(r, n)][2]
              /\ s[3 * n + 3] = Colors[Nth(r, n)][3]
<1> DEFINE f == [n \in Nat |-> Tpixel(Nth(r, n))]
           size == Area(r)
<1>1. size \in Nat
  BY Places
<1>2. s = [k \in 1 .. size * 3 |-> Tpixel(Nth(r, (k - 1) \div 3))[((k - 1) % 3) + 1]]
  BY DEF Channels
<1>3. HasLength(s, size * 3)
  BY <1>2 DEF HasLength
<1> HIDE DEF size
<1>4. HasChannels(s, f, 3, size)
  <2> SUFFICES ASSUME NEW k \in 1 .. size * 3
               PROVE  s[k] = f[(k - 1) \div 3][((k - 1) % 3) + 1]
    BY DEF HasChannels
  <2>1. (k - 1) \div 3 \in Nat
    BY <1>1
  <2> QED BY <1>2, <2>1
<1>5. \A n \in 0 .. size - 1 :
        f[n][1] = Colors[Nth(r, n)][1] /\ f[n][2] = Colors[Nth(r, n)][2] /\ f[n][3] = Colors[Nth(r, n)][3]
  BY <1>1 DEF Tpixel
<1> HIDE DEF f
<1>6. ASSUME NEW n \in 0 .. size - 1
      PROVE  /\ 3 * n + 3 <= size * 3
             /\ s[3 * n + 1] = f[n][1]
             /\ s[3 * n + 2] = f[n][2]
             /\ s[3 * n + 3] = f[n][3]
  <2>1. \A c \in 1 .. 3 : s[n * 3 + c] = f[n][c]
    BY <1>1, <1>4, ChannelOf
  <2>2. s[n * 3 + 1] = f[n][1] /\ s[n * 3 + 2] = f[n][2] /\ s[n * 3 + 3] = f[n][3]
    BY <2>1
  <2>3. n * 3 = 3 * n /\ 3 * n + 3 <= size * 3
    BY <1>1
  <2> QED BY <2>2, <2>3
<1>7. size * 3 \in Nat
  BY <1>1
<1> QED BY <1>3, <1>5, <1>6, <1>7 DEF size

(* The colors of a palette.                                                *)
LEMMA PaletteChannels ==
  ASSUME NEW c \in 1 .. Len(Colors),
         NEW s, s = [k \in 1 .. 3 * c |-> Tpixel((k - 1) \div 3 + 1)[((k - 1) % 3) + 1]]
  PROVE  /\ HasLength(s, 3 * c)
         /\ \A n \in 1 .. c : <<s[3 * n - 2], s[3 * n - 1], s[3 * n]>> = Tpixel(n)
<1>1. HasLength(s, 3 * c)
  BY DEF HasLength
<1>2. ASSUME NEW n \in 1 .. c PROVE <<s[3 * n - 2], s[3 * n - 1], s[3 * n]>> = Tpixel(n)
  <2>1. /\ {3 * n - 2, 3 * n - 1, 3 * n} \subseteq 1 .. 3 * c
        /\ (3 * n - 2 - 1) \div 3 + 1 = n /\ ((3 * n - 2 - 1) % 3) + 1 = 1
        /\ (3 * n - 1 - 1) \div 3 + 1 = n /\ ((3 * n - 1 - 1) % 3) + 1 = 2
        /\ (3 * n - 1) \div 3 + 1 = n /\ ((3 * n - 1) % 3) + 1 = 3
    OBVIOUS
  <2>2. s[3 * n - 2] = Tpixel(n)[1] /\ s[3 * n - 1] = Tpixel(n)[2] /\ s[3 * n] = Tpixel(n)[3]
    BY <2>1
  <2>3. n \in 1 .. Len(Colors)
    BY DecodeAssumption DEF DecodeAssumption
  <2> QED BY <2>2, <2>3, ColorParts DEF Tpixel
<1> QED BY <1>1, <1>2

-----------------------------------------------------------------------------
(* What the reader takes off the connection                                *)

(* All packed rows.                                                        *)
LEMMA PackedLength ==
  ASSUME NEW r, Proper(r)
  PROVE  /\ Stride(r.width) \in Nat /\ Stride(r.width) * r.height \in Nat
         /\ HasLength(PackedRows(r), Stride(r.width) * r.height)
<1> DEFINE w == r.width
           s == Stride(w)
           h == r.height
<1>1. w \in Nat /\ h \in Nat
  BY DEF Proper
<1>2. s \in Nat
  <2> HIDE DEF w
  <2>1. /\ ByteBits \in Nat /\ w \div ByteBits \in Nat
        /\ s = IF w % ByteBits = 0 THEN w \div ByteBits ELSE (w \div ByteBits) + 1
    BY <1>1, Strides
  <2> HIDE DEF s
  <2> QED BY <2>1
<1>3. HasLength(PackedRows(r), s * h)
  BY DEF HasLength, PackedRows, Stride
<1> HIDE DEF w, s, h
<1>4. s * h \in Nat
  BY <1>1, <1>2
<1> QED BY <1>2, <1>3, <1>4 DEF w, s, h

(* A compressed byte after its length.                                     *)
LEMMA TwoBytes ==
  ASSUME NEW s, NEW z, s = <<1, z>>
  PROVE  HasLength(s, 2) /\ s[1] = 1 /\ s[2] = z /\ SubSeq(s, 2, 2) = <<z>>
<1>1. HasLength(s, 2) /\ s[1] = 1 /\ s[2] = z
  BY DEF HasLength
<1>2. SubSeq(s, 2, 2) = <<z>>
  <2>1. HasLength(SubSeq(s, 2, 2), 2 - 2 + 1)
        /\ \A k \in 1 .. 2 - 2 + 1 : SubSeq(s, 2, 2)[k] = s[2 + k - 1]
    BY PartOf
  <2> DEFINE t == SubSeq(s, 2, 2)
  <2> HIDE DEF t
  <2>2. HasLength(t, 1) /\ t[1] = z
    BY <1>1, <2>1 DEF t
  <2>3. t = <<z>>
    BY <2>2 DEF HasLength
  <2> QED BY <2>3 DEF t
<1> QED BY <1>1, <1>2

(* The reader takes everything there is.                                   *)
LEMMA AcceptAll ==
  ASSUME NEW n \in Nat, NEW new, HasLength(wire, n), Accept(n, new)
  PROVE  step' = "accepted" /\ wire' = <<>> /\ job' = new
<1>1. Len(wire) = n /\ SubSeq(wire, n + 1, n) = <<>>
  BY ReadAll
<1>2. ~ Starved(n)
  BY <1>1 DEF Starved
<1> QED BY <1>1, <1>2 DEF Accept

(* A palette and data, compressed or too short for that.                   *)
LEMMA AcceptsZlib ==
  ASSUME NEW c \in Nat, NEW cs, HasLength(cs, 3 * c),
         NEW size \in Nat, NEW data, HasLength(data, size),
         NEW packed, packed = Compressed(data), Joins(wire, cs, packed),
         AcceptZlib(c, size)
  PROVE  /\ step' = "accepted" /\ wire' = <<>>
         /\ \E zipped \in BOOLEAN :
              job' = [colors |-> [n \in 1 .. c |-> <<cs[3 * n - 2], cs[3 * n - 1], cs[3 * n]>>],
                      data |-> IF zipped THEN <<[inflates |-> data]>> ELSE data,
                      mask |-> <<>>, compressed |-> zipped]
<1> DEFINE colors == [n \in 1 .. c |-> <<cs[3 * n - 2], cs[3 * n - 1], cs[3 * n]>>]
           at == 3 * c
<1>1. at \in Nat /\ HasLength(cs, at) /\ TooShortForZlib \in Nat
  BY DecodeAssumption DEF DecodeAssumption
<1>2. Len(data) = size
  BY ReadAll
<1>3. ASSUME NEW m \in Nat, HasLength(packed, m)
      PROVE  [n \in 1 .. c |-> Color(n)] = colors
  <2> SUFFICES ASSUME NEW n \in 1 .. c
               PROVE  Color(n) = <<cs[3 * n - 2], cs[3 * n - 1], cs[3 * n]>>
    OBVIOUS
  <2>1. \A k \in 1 .. at + m : wire[k] = IF k <= at THEN cs[k] ELSE packed[k - at]
    <3> HIDE DEF at
    <3> QED BY <1>1, <1>3, Joined
  <2>2. \A k \in 1 .. 3 * c : wire[k] = cs[k]
    BY <1>1, <1>3, <2>1
  <2> DEFINE j == 3 * n
  <2>3. j \in 1 .. 3 * c /\ j - 1 \in 1 .. 3 * c /\ j - 2 \in 1 .. 3 * c
    OBVIOUS
  <2> HIDE DEF j
  <2>4. wire[j] = cs[j] /\ wire[j - 1] = cs[j - 1] /\ wire[j - 2] = cs[j - 2]
    BY <2>2, <2>3
  <2> QED BY <2>4 DEF Color, j
<1>4. CASE size < TooShortForZlib
  <2>1. packed = data
    BY <1>2, <1>4 DEF Compressed
  <2>2. /\ Len(wire) = at + size /\ SubSeq(wire, at + 1, at + size) = data
        /\ HasLength(wire, at + size)
    <3> HIDE DEF at
    <3> QED BY <1>1, <2>1, ReadBoth, Joined
  <2>3. Accept(at + size, Job(colors, Part(at + 1, size), <<>>))
    BY <1>3, <1>4, <2>1 DEF AcceptZlib
  <2> DEFINE new == Job(colors, Part(at + 1, size), <<>>)
  <2>4. new = [colors |-> colors, data |-> data, mask |-> <<>>, compressed |-> FALSE]
    <3>1. at + 1 + size - 1 = at + size
      BY <1>1
    <3> HIDE DEF at, colors
    <3> QED BY <2>2, <3>1 DEF Job, Part
  <2> HIDE DEF at, colors, new
  <2>5. at + size \in Nat
    BY <1>1
  <2>6. step' = "accepted" /\ wire' = <<>> /\ job' = new
    BY <2>2, <2>3, <2>5, AcceptAll DEF new
  <2>7. job' = [colors |-> colors, data |-> IF FALSE THEN <<[inflates |-> data]>> ELSE data,
                mask |-> <<>>, compressed |-> FALSE]
    BY <2>4, <2>6
  <2> QED BY <2>6, <2>7 DEF colors
<1>5. CASE ~ (size < TooShortForZlib)
  <2> DEFINE z == [inflates |-> data]
  <2>1. packed = <<1, z>>
    BY <1>2, <1>5 DEF Compressed
  <2>2. HasLength(packed, 2) /\ packed[1] = 1 /\ packed[2] = z
    <3> HIDE DEF z
    <3> QED BY <2>1, TwoBytes
  <2>3. /\ HasLength(wire, at + 2)
        /\ \A k \in 1 .. at + 2 : wire[k] = IF k <= at THEN cs[k] ELSE packed[k - at]
    <3> HIDE DEF at, z
    <3> QED BY <1>1, <2>2, Joined
  <2>4. wire[at + 1] = 1 /\ wire[at + 2] = z
    <3> HIDE DEF at, z
    <3> DEFINE a == at + 1
               b == at + 2
    <3>1. /\ a \in 1 .. b /\ ~ (a <= at) /\ a - at = 1
          /\ b \in 1 .. b /\ ~ (b <= at) /\ b - at = 2
      BY <1>1
    <3>2. \A k \in 1 .. b : wire[k] = IF k <= at THEN cs[k] ELSE packed[k - at]
      BY <2>3
    <3> HIDE DEF a, b
    <3>3. wire[a] = packed[1] /\ wire[b] = packed[2]
      BY <3>1, <3>2
    <3> QED BY <2>2, <3>3 DEF a, b
  <2>5. Part(at + 2, 1) = <<z>>
    <3> HIDE DEF at, z
    <3> DEFINE a == at + 2
               t == SubSeq(wire, a, a)
    <3>1. a \in Nat /\ a <= a + 1 /\ a - a + 1 = 1 /\ a + 1 - 1 = a
      BY <1>1
    <3> HIDE DEF a
    <3>2. HasLength(t, a - a + 1) /\ \A k \in 1 .. a - a + 1 : t[k] = wire[a + k - 1]
      BY <3>1, PartOf
    <3> HIDE DEF t
    <3>3. HasLength(t, 1) /\ t[1] = wire[a]
      BY <3>1, <3>2
    <3>4. t = <<z>>
      BY <2>4, <3>3 DEF HasLength, a
    <3> QED BY <3>1, <3>4 DEF Part, t, a
  <2> DEFINE new == [colors |-> colors, data |-> <<z>>, mask |-> <<>>, compressed |-> TRUE]
  <2>6. Accept(at + 1 + 1, new)
    <3>1. [Job(colors, <<z>>, <<>>) EXCEPT !.compressed = TRUE] = new
      <4> DEFINE d == <<z>>
                 e == <<>>
                 zipped == TRUE
                 j == Job(colors, d, e)
      <4>1. j = [colors |-> colors, data |-> d, mask |-> e, compressed |-> FALSE]
        BY DEF Job
      <4> HIDE DEF colors, z, d, e, j, zipped
      <4>2. [j EXCEPT !.compressed = zipped]
              = [colors |-> colors, data |-> d, mask |-> e, compressed |-> zipped]
        BY <4>1
      <4> QED BY <4>2 DEF d, e, j, zipped
    <3>2. Accept(at + 1 + wire[at + 1],
                 [Job(colors, Part(at + 2, wire[at + 1]), <<>>) EXCEPT !.compressed = TRUE])
      BY <1>3, <1>5, <2>2 DEF AcceptZlib
    <3> HIDE DEF at, colors, z, new
    <3> QED BY <2>4, <2>5, <3>1, <3>2
  <2> HIDE DEF at, colors, z, new
  <2>7. at + 1 + 1 \in Nat /\ at + 1 + 1 = at + 2
    BY <1>1
  <2>8. step' = "accepted" /\ wire' = <<>> /\ job' = new
    BY <2>3, <2>6, <2>7, AcceptAll
  <2>9. job' = [colors |-> colors, data |-> IF TRUE THEN <<[inflates |-> data]>> ELSE data,
                mask |-> <<>>, compressed |-> TRUE]
    BY <2>8 DEF new, z
  <2> QED BY <2>8, <2>9 DEF colors
<1> QED BY <1>4, <1>5

-----------------------------------------------------------------------------
(* Reading preserves the invariant                                         *)

\* The reader has everything there is, and the decoder gets what it needs.
Delivered ==
  /\ step' = "accepted" /\ wire' = <<>>
  /\ \E colors, mask : \E zipped \in BOOLEAN :
       /\ job' = [colors |-> colors,
                  data |-> IF zipped THEN <<[inflates |-> Bytes(rect)]>> ELSE Bytes(rect),
                  mask |-> mask, compressed |-> zipped]
       /\ rect.method = "fill" => colors[1] = Tpixel(1)
       /\ rect.method = "palette" => colors = [n \in 1 .. rect.palette |-> Tpixel(n)]
       /\ rect.method = "cursor" => mask = PackedRows(rect)

(* The same of data that are not compressed.                               *)
LEMMA DeliveredPlain ==
  ASSUME step' = "accepted", wire' = <<>>,
         NEW colors, NEW data, NEW mask, job' = Job(colors, data, mask),
         data = Bytes(rect),
         rect.method = "fill" => colors[1] = Tpixel(1),
         rect.method = "palette" => colors = [n \in 1 .. rect.palette |-> Tpixel(n)],
         rect.method = "cursor" => mask = PackedRows(rect)
  PROVE  Delivered
<1>1. job' = [colors |-> colors, data |-> data, mask |-> mask, compressed |-> FALSE]
  BY DEF Job
<1>2. job' = [colors |-> colors,
              data |-> IF FALSE THEN <<[inflates |-> Bytes(rect)]>> ELSE Bytes(rect),
              mask |-> mask, compressed |-> FALSE]
  BY <1>1
<1> QED BY <1>2 DEF Delivered

(* Four bytes of every pixel.                                              *)
LEMMA DeliversRaw ==
  ASSUME Proper(rect), wire = Encoded(rect), rect.method = "raw",
         Accept(4 * (rect.width * rect.height),
                Job(<<>>, Part(1, 4 * (rect.width * rect.height)), <<>>))
  PROVE  Delivered
<1> DEFINE n == 4 * (rect.width * rect.height)
<1>1. wire = Channels(rect, 4, Bgrx) /\ Bytes(rect) = wire
  BY DEF Encoded, Bytes
<1>2. n \in Nat /\ HasLength(wire, n)
  <2>1. HasLength(wire, Area(rect) * 4) /\ Area(rect) * 4 \in Nat
    BY <1>1, BgrxChannels
  <2>2. Area(rect) \in Nat /\ Area(rect) = rect.width * rect.height
    BY Places DEF Area
  <2>3. Area(rect) * 4 = n
    BY <2>2
  <2> QED BY <2>1, <2>3
<1> HIDE DEF n
<1>3. Part(1, n) = wire
  BY <1>2, ReadAll DEF Part
<1>4. Accept(n, Job(<<>>, wire, <<>>))
  BY <1>3 DEF n
<1>5. step' = "accepted" /\ wire' = <<>> /\ job' = Job(<<>>, wire, <<>>)
  BY <1>2, <1>4, AcceptAll
<1> QED BY <1>1, <1>5, DeliveredPlain

(* One color.                                                              *)
LEMMA DeliversFill ==
  ASSUME Proper(rect), wire = Encoded(rect), rect.method = "fill",
         Accept(3, Job(<<Color(1)>>, <<>>, <<>>))
  PROVE  Delivered
<1>1. Nth(rect, 0) = 1
  <2>1. 0 \in 0 .. Area(rect) - 1
    <3> DEFINE w == rect.width  h == rect.height
    <3>1. w \in Nat /\ h \in Nat /\ w > 0 /\ h > 0 /\ Area(rect) = w * h
      BY DEF Proper, Area
    <3> HIDE DEF w, h
    <3>2. w * h \in Nat /\ w * h > 0
      BY <3>1
    <3> QED BY <3>1, <3>2
  <2>2. Nth(rect, 0) \in 1 .. rect.palette /\ rect.palette = 1
    BY <2>1, Places DEF Proper
  <2> QED BY <2>2
<1>2. wire = Tpixel(1) /\ Bytes(rect) = <<>>
  BY <1>1 DEF Encoded, Bytes
<1>3. 1 \in 1 .. Len(Colors)
  BY DecodeAssumption DEF DecodeAssumption
<1>4. HasLength(wire, 3) /\ wire = <<wire[1], wire[2], wire[3]>>
  BY <1>2, <1>3, ColorParts DEF Tpixel
<1>5. Color(1) = Tpixel(1)
  BY <1>2, <1>4 DEF Color
<1> DEFINE colors == <<Color(1)>>
<1>6. colors[1] = Tpixel(1)
  BY <1>5
<1> HIDE DEF colors
<1>7. Accept(3, Job(colors, <<>>, <<>>))
  BY DEF colors
<1>8. step' = "accepted" /\ wire' = <<>> /\ job' = Job(colors, <<>>, <<>>)
  BY <1>4, <1>7, AcceptAll
<1> QED BY <1>2, <1>6, <1>8, DeliveredPlain

(* One byte that JPEG compressed.                                          *)
LEMMA DeliversJpeg ==
  ASSUME wire = Encoded(rect), rect.method = "jpeg",
         Accept(1 + wire[1], Job(<<>>, Part(2, wire[1]), <<>>))
  PROVE  Delivered
<1> DEFINE z == [lines |-> Channels(rect, 4, Bgrx)]
<1>1. wire = <<1, z>> /\ Bytes(rect) = <<z>>
  BY DEF Encoded, Bytes
<1> HIDE DEF z
<1>2. HasLength(wire, 2) /\ wire[1] = 1 /\ SubSeq(wire, 2, 2) = <<z>>
  BY <1>1, TwoBytes
<1>3. Part(2, 1) = <<z>>
  BY <1>2 DEF Part
<1>4. Accept(2, Job(<<>>, <<z>>, <<>>))
  BY <1>2, <1>3
<1>5. step' = "accepted" /\ wire' = <<>> /\ job' = Job(<<>>, <<z>>, <<>>)
  BY <1>2, <1>4, AcceptAll
<1> QED BY <1>1, <1>5, DeliveredPlain

(* The pixels of a cursor and its bits.                                    *)
LEMMA DeliversCursor ==
  ASSUME Proper(rect), wire = Encoded(rect), rect.method = "cursor",
         NEW mask, mask = Stride(rect.width) * rect.height,
         Accept(4 * (rect.width * rect.height) + mask,
                Job(<<>>, Part(1, 4 * (rect.width * rect.height)),
                    Part(4 * (rect.width * rect.height) + 1, mask)))
  PROVE  Delivered
<1> DEFINE n == 4 * (rect.width * rect.height)
           s == Channels(rect, 4, Bgrx)
           t == PackedRows(rect)
<1>1. Joins(wire, s, t) /\ Bytes(rect) = s
  BY DEF Encoded, Bytes, Joins
<1>2. n \in Nat /\ HasLength(s, n)
  <2>1. HasLength(s, Area(rect) * 4) /\ Area(rect) * 4 \in Nat
    BY BgrxChannels
  <2>2. Area(rect) \in Nat /\ Area(rect) = rect.width * rect.height
    BY Places DEF Area
  <2>3. Area(rect) * 4 = n
    BY <2>2
  <2> HIDE DEF n, s
  <2> QED BY <2>1, <2>3
<1>3. mask \in Nat /\ HasLength(t, mask)
  BY PackedLength
<1>p. Accept(n + mask, Job(<<>>, Part(1, n), Part(n + 1, mask)))
  OBVIOUS
<1> HIDE DEF n, s
<1>4. /\ HasLength(wire, n + mask)
      /\ SubSeq(wire, 1, n) = s
      /\ SubSeq(wire, n + 1, n + mask) = t
  <2> HIDE DEF t
  <2> QED BY <1>1, <1>2, <1>3, Joined, ReadBoth
<1>5. Part(1, n) = s /\ Part(n + 1, mask) = t
  <2>1. 1 + n - 1 = n /\ n + 1 + mask - 1 = n + mask
    BY <1>2, <1>3
  <2> HIDE DEF t
  <2> QED BY <1>4, <2>1 DEF Part
<1>6. n + mask \in Nat
  BY <1>2, <1>3
<1>7. step' = "accepted" /\ wire' = <<>> /\ job' = Job(<<>>, s, t)
  <2> HIDE DEF t
  <2> QED BY <1>4, <1>5, <1>6, <1>p, AcceptAll
<1> QED BY <1>1, <1>7, DeliveredPlain

(* Three bytes of every pixel, compressed or not.                          *)
LEMMA DeliversCopy ==
  ASSUME Proper(rect), wire = Encoded(rect), rect.method = "copy",
         AcceptZlib(0, (rect.width * rect.height) * 3)
  PROVE  Delivered
<1> DEFINE n == (rect.width * rect.height) * 3
           s == Channels(rect, 3, Tpixel)
           p == Compressed(s)
           e == <<>>
           c == 0
<1>1. wire = p /\ Bytes(rect) = s
  BY DEF Encoded, Bytes
<1>2. n \in Nat /\ HasLength(s, n)
  <2>1. HasLength(s, Area(rect) * 3) /\ Area(rect) * 3 \in Nat
    BY TpixelChannels
  <2>2. Area(rect) = rect.width * rect.height
    BY DEF Area
  <2> HIDE DEF s
  <2> QED BY <2>1, <2>2
<1>3. PICK m \in Nat : HasLength(p, m)
  <2> DEFINE z == [inflates |-> s]
  <2>1. p = s \/ p = <<1, z>>
    BY DEF Compressed
  <2> HIDE DEF s, p, n, z
  <2>2. ASSUME p = <<1, z>> PROVE HasLength(p, 2)
    BY <2>2, TwoBytes
  <2> QED BY <1>2, <2>1, <2>2
<1>4. Joins(wire, e, p)
  <2> DEFINE S == {p[k] : k \in 1 .. m}
  <2> HIDE DEF p
  <2>1. \A k \in 1 .. m : p[k] \in S
    OBVIOUS
  <2> HIDE DEF S
  <2>2. p \in Seq(S)
    BY <1>3, <2>1, IsSequence
  <2> QED BY <1>1, <2>2, ConcatEmptySeq DEF Joins
<1>5. HasLength(e, 3 * c) /\ c \in Nat
  BY DEF HasLength
<1>6. AcceptZlib(c, n)
  OBVIOUS
<1>7. p = Compressed(s)
  OBVIOUS
<1> HIDE DEF n, s, p, e, c
<1>8. /\ step' = "accepted" /\ wire' = <<>>
      /\ \E zipped \in BOOLEAN :
           job' = [colors |-> [k \in 1 .. c |-> <<e[3 * k - 2], e[3 * k - 1], e[3 * k]>>],
                   data |-> IF zipped THEN <<[inflates |-> s]>> ELSE s,
                   mask |-> <<>>, compressed |-> zipped]
  BY <1>2, <1>4, <1>5, <1>6, <1>7, AcceptsZlib
<1> QED BY <1>1, <1>8 DEF Delivered

(* A palette and the indices of the pixels.                                *)
LEMMA DeliversPalette ==
  ASSUME Proper(rect), wire = Encoded(rect), rect.method = "palette",
         AcceptZlib(rect.palette, rect.height * IF rect.palette = 2 THEN Stride(rect.width)
                                                ELSE rect.width)
  PROVE  Delivered
<1> DEFINE c == rect.palette
           n == rect.height * IF rect.palette = 2 THEN Stride(rect.width) ELSE rect.width
           s == Bytes(rect)
           p == Compressed(s)
           e == [k \in 1 .. 3 * c |-> Tpixel((k - 1) \div 3 + 1)[((k - 1) % 3) + 1]]
           colors == [k \in 1 .. c |-> <<e[3 * k - 2], e[3 * k - 1], e[3 * k]>>]
<1>1. Joins(wire, e, p) /\ p = Compressed(s)
  BY DEF Encoded, Bytes, Joins
<1>2. c \in 1 .. Len(Colors) /\ c \in Nat
  <2>1. c \in 1 .. Len(Colors)
    BY DEF Proper
  <2> HIDE DEF c
  <2> QED BY <2>1
<1>3. n \in Nat /\ HasLength(s, n)
  <2>0. rect.width \in Nat /\ rect.height \in Nat
    BY DEF Proper
  <2>1. CASE rect.palette = 2
    <3>1. s = PackedRows(rect)
      BY <2>1 DEF Bytes
    <3>2. Stride(rect.width) \in Nat /\ HasLength(s, Stride(rect.width) * rect.height)
      BY <3>1, PackedLength
    <3> DEFINE d == Stride(rect.width)  h == rect.height
    <3>3. n = h * d
      BY <2>1
    <3> HIDE DEF n, s, d, h
    <3>4. h * d = d * h /\ h * d \in Nat
      BY <2>0, <3>2 DEF d, h
    <3> QED BY <3>2, <3>3, <3>4 DEF d, h
  <2>2. CASE rect.palette # 2
    <3>1. s = [k \in 1 .. Area(rect) |-> Nth(rect, k - 1) - 1]
      BY <2>2 DEF Bytes
    <3>2. HasLength(s, Area(rect))
      BY <3>1 DEF HasLength
    <3> DEFINE w == rect.width  h == rect.height
    <3>3. n = h * w /\ Area(rect) = w * h
      BY <2>2 DEF Area
    <3> HIDE DEF n, s, w, h
    <3>4. h * w = w * h /\ h * w \in Nat
      BY <2>0 DEF w, h
    <3> QED BY <3>2, <3>3, <3>4
  <2> QED BY <2>1, <2>2
<1>4. AcceptZlib(c, n)
  OBVIOUS
<1> HIDE DEF n, s, p
<1>5. HasLength(e, 3 * c) /\ \A k \in 1 .. c : <<e[3 * k - 2], e[3 * k - 1], e[3 * k]>> = Tpixel(k)
  <2> HIDE DEF c
  <2> QED BY <1>2, PaletteChannels
<1>6. colors = [k \in 1 .. c |-> Tpixel(k)]
  <2> HIDE DEF e
  <2> QED BY <1>5
<1> HIDE DEF e
<1>7. /\ step' = "accepted" /\ wire' = <<>>
      /\ \E zipped \in BOOLEAN :
           job' = [colors |-> [k \in 1 .. c |-> <<e[3 * k - 2], e[3 * k - 1], e[3 * k]>>],
                   data |-> IF zipped THEN <<[inflates |-> s]>> ELSE s,
                   mask |-> <<>>, compressed |-> zipped]
  <2> HIDE DEF c
  <2> QED BY <1>1, <1>2, <1>3, <1>4, <1>5, AcceptsZlib
<1>8. PICK zipped \in BOOLEAN :
        job' = [colors |-> colors, data |-> IF zipped THEN <<[inflates |-> s]>> ELSE s,
                mask |-> <<>>, compressed |-> zipped]
  BY <1>7
<1> HIDE DEF colors
<1>9. rect.method = "palette" /\ colors = [k \in 1 .. rect.palette |-> Tpixel(k)]
  BY <1>6
<1> QED BY <1>7, <1>8, <1>9 DEF Delivered, s

(* A rectangle is read.                                                    *)
LEMMA ReadStep ==
  ASSUME IInv, ReadRectangle
  PROVE  IInv'
<1>1. /\ rects \in Nat
      /\ DOMAIN fb = 0 .. FbWidth * FbHeight - 1
      /\ fb = [p \in DOMAIN fb |-> fb[p]]
      /\ DOMAIN before = DOMAIN fb
      /\ before = [p \in DOMAIN before |-> before[p]]
      /\ rect \in Rectangles /\ wire = Encoded(rect) /\ fb = before
  BY DEF IInv, ReadRectangle
<1>2. UNCHANGED <<rect, before, rects, fb>>
  BY DEF ReadRectangle
<1>3. Proper(rect)
  BY <1>1, RectanglesAreProper
<1>4. Delivered
  <2>1. CASE /\ rect.method = "raw"
             /\ Accept(4 * (rect.width * rect.height),
                       Job(<<>>, Part(1, 4 * (rect.width * rect.height)), <<>>))
    BY <1>1, <1>3, <2>1, DeliversRaw
  <2>2. CASE rect.method = "fill" /\ Accept(3, Job(<<Color(1)>>, <<>>, <<>>))
    BY <1>1, <1>3, <2>2, DeliversFill
  <2>3. CASE /\ rect.method = "palette"
             /\ AcceptZlib(rect.palette,
                           rect.height * IF rect.palette = 2 THEN Stride(rect.width)
                                         ELSE rect.width)
    BY <1>1, <1>3, <2>3, DeliversPalette
  <2>4. CASE rect.method = "copy" /\ AcceptZlib(0, (rect.width * rect.height) * 3)
    BY <1>1, <1>3, <2>4, DeliversCopy
  <2>5. CASE rect.method = "jpeg" /\ Accept(1 + wire[1], Job(<<>>, Part(2, wire[1]), <<>>))
    BY <1>1, <2>5, DeliversJpeg
  <2>6. CASE /\ rect.method = "cursor"
             /\ Accept(4 * (rect.width * rect.height) + Stride(rect.width) * rect.height,
                       Job(<<>>, Part(1, 4 * (rect.width * rect.height)),
                           Part(4 * (rect.width * rect.height) + 1,
                                Stride(rect.width) * rect.height)))
    BY <1>1, <1>3, <2>6, DeliversCursor
  <2> QED BY <2>1, <2>2, <2>3, <2>4, <2>5, <2>6 DEF ReadRectangle
<1>5. step' = "accepted" /\ wire' = <<>>
  BY <1>4 DEF Delivered
<1>6. PICK colors, mask : \E zipped \in BOOLEAN :
        /\ job' = [colors |-> colors,
                   data |-> IF zipped THEN <<[inflates |-> Bytes(rect)]>> ELSE Bytes(rect),
                   mask |-> mask, compressed |-> zipped]
        /\ rect.method = "fill" => colors[1] = Tpixel(1)
        /\ rect.method = "palette" => colors = [n \in 1 .. rect.palette |-> Tpixel(n)]
        /\ rect.method = "cursor" => mask = PackedRows(rect)
  BY <1>4 DEF Delivered
<1>7. PICK zipped \in BOOLEAN :
        /\ job' = [colors |-> colors,
                   data |-> IF zipped THEN <<[inflates |-> Bytes(rect)]>> ELSE Bytes(rect),
                   mask |-> mask, compressed |-> zipped]
        /\ rect.method = "fill" => colors[1] = Tpixel(1)
        /\ rect.method = "palette" => colors = [n \in 1 .. rect.palette |-> Tpixel(n)]
        /\ rect.method = "cursor" => mask = PackedRows(rect)
  BY <1>6
<1>8. PICK data : data = IF zipped THEN <<[inflates |-> Bytes(rect)]>> ELSE Bytes(rect)
  OBVIOUS
<1>9. job' = [colors |-> colors, data |-> data, mask |-> mask, compressed |-> zipped]
  BY <1>7, <1>8
<1>10. JobInv' /\ job'.compressed = zipped /\ job'.data = data
  BY <1>2, <1>7, <1>9 DEF JobInv
<1>11. /\ job'.compressed \in BOOLEAN
       /\ job'.data = IF job'.compressed THEN <<[inflates |-> Bytes(rect')]>> ELSE Bytes(rect')
  BY <1>2, <1>8, <1>10
<1>12. PictureIsReproduced'
  BY <1>5 DEF PictureIsReproduced
<1> QED BY <1>1, <1>2, <1>5, <1>10, <1>11, <1>12 DEF IInv

-----------------------------------------------------------------------------
(* The loops preserve the invariant                                        *)

(* The inner loop is inside the rectangle.                                 *)
LEMMA InsideLoop ==
  ASSUME IInv, NEW method, InLoop(method)
  PROVE  /\ Proper(rect) /\ JobInv /\ LoopInv
         /\ rect.method = method
         /\ x \in 0 .. rect.width - 1 /\ y \in 0 .. rect.height - 1
<1>1. step = "decoding" /\ rect.method = method /\ y < rect.height
  BY DEF InLoop
<1>2. JobInv /\ LoopInv /\ Proper(rect)
  BY <1>1, RectanglesAreProper DEF IInv
<1>3. /\ rect.width \in Nat /\ rect.height \in Nat
      /\ rect.height > 0 => rect.width > 0
  BY <1>2 DEF Proper
<1>4. x \in Nat /\ y \in 0 .. rect.height /\ (x # 0 => x < rect.width)
  BY <1>2 DEF LoopInv
<1> QED BY <1>1, <1>2, <1>3, <1>4

(* The next pixel is the next place of the picture.                        *)
LEMMA NextPlace ==
  ASSUME Proper(rect), x \in 0 .. rect.width - 1, y \in 0 .. rect.height - 1,
         NextPixel
  PROVE  /\ rect' = rect /\ step' = step /\ job' = job /\ before' = before
         /\ x' \in Nat /\ y' \in 0 .. rect.height
         /\ x' # 0 => x' < rect.width /\ y' < rect.height
         /\ Count \in 0 .. Area(rect) - 1
         /\ Nth(rect, Count) = rect.picture[<<x, y>>]
         /\ Count' = Count + 1
         /\ \A c \in 0 .. rect.width - 1, l \in 0 .. rect.height - 1 :
              Done(c, l)' <=> Done(c, l) \/ (c = x /\ l = y)
<1> DEFINE w == rect.width  h == rect.height
<1>1. w \in Nat /\ h \in Nat /\ x \in 0 .. w - 1 /\ y \in 0 .. h - 1
  BY DEF Proper
<1>2. rect' = rect /\ step' = step /\ job' = job /\ before' = before
  BY DEF NextPixel, readVars
<1>3. IF x + 1 < w THEN x' = x + 1 /\ y' = y ELSE x' = 0 /\ y' = y + 1
  BY DEF NextPixel
<1>4. Count \in 0 .. Area(rect) - 1 /\ Nth(rect, Count) = rect.picture[<<x, y>>]
  BY Places DEF Count
<1>5. Count = y * w + x /\ Count' = y' * w + x'
  BY <1>2 DEF Count
<1> HIDE DEF w, h
<1>6. /\ x' \in Nat /\ y' \in 0 .. h
      /\ x' # 0 => x' < w /\ y' < h
  BY <1>1, <1>3
<1>7. y * w \in Nat /\ (y + 1) * w = y * w + w
  BY <1>1
<1>8. Count' = Count + 1
  <2>1. CASE x + 1 < w
    BY <1>1, <1>3, <1>5, <1>7, <2>1
  <2>2. CASE ~ (x + 1 < w)
    BY <1>1, <1>3, <1>5, <1>7, <2>2
  <2> QED BY <2>1, <2>2
<1>9. ASSUME NEW c \in 0 .. w - 1, NEW l \in 0 .. h - 1
      PROVE  Done(c, l)' <=> Done(c, l) \/ (c = x /\ l = y)
  BY <1>1, <1>3 DEF Done
<1> QED BY <1>2, <1>4, <1>6, <1>8, <1>9 DEF w, h

(* What a pixel of the framebuffer keeps of one on the wire.               *)
LEMMA BgrOf ==
  ASSUME NEW index
  PROVE  SubSeq(Bgrx(index), 1, 3)
           = <<Colors[index][3], Colors[index][2], Colors[index][1]>>
<1> DEFINE s == Bgrx(index)
           t == SubSeq(s, 1, 3)
<1>1. /\ s[1] = Colors[index][3] /\ s[2] = Colors[index][2] /\ s[3] = Colors[index][1]
  BY BgrxParts
<1>2. HasLength(t, 3) /\ \A k \in 1 .. 3 : t[k] = s[k]
  <2> HIDE DEF s
  <2> QED BY BeginningOf
<1> HIDE DEF s, t
<1>3. t = <<s[1], s[2], s[3]>>
  BY <1>2 DEF HasLength
<1> QED BY <1>1, <1>3 DEF s, t

(* The framebuffer's columns and rows.                                     *)
LEMMA Located ==
  ASSUME NEW p \in 0 .. FbWidth * FbHeight - 1
  PROVE  /\ p % FbWidth \in Nat /\ p \div FbWidth \in Nat
         /\ p = Pos(p % FbWidth, p \div FbWidth)
<1> DEFINE w == FbWidth  h == FbHeight
<1>1. w \in Nat /\ h \in Nat
  BY DecodeAssumption DEF DecodeAssumption
<1>2. p \in 0 .. w * h - 1 /\ Pos(p % w, p \div w) = (p \div w) * w + (p % w)
  BY DEF Pos
<1> HIDE DEF w, h
<1>3. /\ p \div w \in 0 .. h - 1 /\ p % w \in 0 .. w - 1
      /\ p = (p \div w) * w + (p % w)
  BY <1>1, <1>2, RowOf
<1> QED BY <1>1, <1>2, <1>3 DEF w

(* Where a pixel of the picture is in the framebuffer.                     *)
LEMMA Target ==
  ASSUME NEW r, Proper(r), NEW c \in 0 .. r.width - 1, NEW l \in 0 .. r.height - 1
  PROVE  /\ Pos(c + r.x, l + r.y) \in 0 .. FbWidth * FbHeight - 1
         /\ \A p \in 0 .. FbWidth * FbHeight - 1 :
              /\ p % FbWidth \in Nat /\ p \div FbWidth \in Nat
              /\ p = Pos(c + r.x, l + r.y)
                   <=> p % FbWidth = c + r.x /\ p \div FbWidth = l + r.y
<1> DEFINE w == FbWidth  h == FbHeight
           cc == c + r.x  ll == l + r.y
           t == ll * w + cc
<1>1. w \in Nat /\ h \in Nat
  BY DecodeAssumption DEF DecodeAssumption
<1>2. cc \in 0 .. w - 1 /\ ll \in 0 .. h - 1
  <2>1. /\ r.x \in Nat /\ r.y \in Nat /\ r.width \in Nat /\ r.height \in Nat
        /\ r.x + r.width <= w /\ r.y + r.height <= h
    BY DEF Proper
  <2> HIDE DEF w, h
  <2> QED BY <1>1, <2>1
<1>3. Pos(cc, ll) = t
  BY DEF Pos
<1> HIDE DEF w, h, cc, ll
<1>4. t \in 0 .. w * h - 1 /\ t \div w = ll /\ t % w = cc
  BY <1>1, <1>2, Place
<1>5. ASSUME NEW p \in 0 .. w * h - 1
      PROVE  /\ p % w \in Nat /\ p \div w \in Nat
             /\ p = t <=> p % w = cc /\ p \div w = ll
  <2>1. /\ p \div w \in 0 .. h - 1 /\ p % w \in 0 .. w - 1
        /\ p = (p \div w) * w + (p % w)
    BY <1>1, RowOf
  <2>2. ASSUME p % w = cc, p \div w = ll PROVE p = t
    BY <2>1, <2>2
  <2> HIDE DEF t
  <2>3. ASSUME p = t PROVE p % w = cc /\ p \div w = ll
    BY <1>4, <2>3
  <2> QED BY <1>1, <2>1, <2>2, <2>3
<1> HIDE DEF t
<1> QED BY <1>3, <1>4, <1>5 DEF w, h, cc, ll

(* What the picture covers are its own columns and rows.                   *)
LEMMA Covered ==
  ASSUME NEW r, Proper(r), NEW column \in Nat, NEW row \in Nat,
         NEW c \in 0 .. r.width - 1, NEW l \in 0 .. r.height - 1
  PROVE  /\ Covers(r, column, row) => /\ column - r.x \in 0 .. r.width - 1
                                      /\ row - r.y \in 0 .. r.height - 1
         /\ column = c + r.x /\ row = l + r.y
              <=> Covers(r, column, row) /\ column - r.x = c /\ row - r.y = l
<1> DEFINE a == r.x  b == r.y  w == r.width  h == r.height
<1>1. a \in Nat /\ b \in Nat /\ w \in Nat /\ h \in Nat /\ c \in 0 .. w - 1 /\ l \in 0 .. h - 1
  BY DEF Proper
<1>2. Covers(r, column, row) <=> /\ column \in a .. a + w - 1
                                 /\ row \in b .. b + h - 1
  BY DEF Covers
<1> HIDE DEF a, b, w, h
<1>3. /\ Covers(r, column, row) => column - a \in 0 .. w - 1 /\ row - b \in 0 .. h - 1
      /\ column = c + a /\ row = l + b
           <=> Covers(r, column, row) /\ column - a = c /\ row - b = l
  BY <1>1, <1>2
<1> QED BY <1>3 DEF a, b, w, h

(* One pixel makes progress.                                               *)
LEMMA OneMore ==
  ASSUME Proper(rect), x \in 0 .. rect.width - 1, y \in 0 .. rect.height - 1,
         NextPixel, NEW p \in 0 .. FbWidth * FbHeight - 1,
         NEW new, new = SubSeq(Bgrx(rect.picture[<<x, y>>]), 1, 3)
  PROVE  Progress(p)' = IF p = Pos(x + rect.x, y + rect.y) THEN new ELSE Progress(p)
<1> DEFINE column == p % FbWidth
           row == p \div FbWidth
           t == Pos(x + rect.x, y + rect.y)
<1>1. PICK c, l : c = column - rect.x /\ l = row - rect.y
  OBVIOUS
<1> DEFINE pixel == SubSeq(Bgrx(rect.picture[<<c, l>>]), 1, 3)
<1>2. /\ rect' = rect /\ before' = before
      /\ \A a \in 0 .. rect.width - 1, b \in 0 .. rect.height - 1 :
           Done(a, b)' <=> Done(a, b) \/ (a = x /\ b = y)
  BY NextPlace
<1>3. /\ column \in Nat /\ row \in Nat
      /\ p = t <=> column = x + rect.x /\ row = y + rect.y
  BY Target
<1>4. /\ Progress(p) = IF Covers(rect, column, row) /\ Done(c, l) THEN pixel ELSE before[p]
      /\ Progress(p)' = IF Covers(rect, column, row) /\ Done(c, l)' THEN pixel ELSE before[p]
  BY <1>1, <1>2 DEF Progress, Done, Covers
<1>5. c = x /\ l = y => pixel = new
  OBVIOUS
<1> HIDE DEF column, row, t, pixel
<1>6. /\ Covers(rect, column, row) => c \in 0 .. rect.width - 1 /\ l \in 0 .. rect.height - 1
      /\ p = t <=> Covers(rect, column, row) /\ c = x /\ l = y
  BY <1>1, <1>3, Covered
<1>7. Progress(p)' = IF p = t THEN new ELSE Progress(p)
  BY <1>2, <1>4, <1>5, <1>6
<1> QED BY <1>7 DEF t

(* A pixel with the color of the picture makes progress.                   *)
LEMMA Paints ==
  ASSUME Proper(rect), x \in 0 .. rect.width - 1, y \in 0 .. rect.height - 1,
         DOMAIN before = 0 .. FbWidth * FbHeight - 1,
         fb = [p \in DOMAIN before |-> Progress(p)],
         NextPixel,
         NEW color, SetPixel(color),
         NEW index, index = rect.picture[<<x, y>>],
         <<color[3], color[2], color[1]>>
           = <<Colors[index][3], Colors[index][2], Colors[index][1]>>
  PROVE  fb' = [p \in DOMAIN before |-> Progress(p)']
<1> DEFINE t == Pos(x + rect.x, y + rect.y)
           new == SubSeq(Bgrx(index), 1, 3)
<1>1. fb' = [fb EXCEPT ![t] = new]
  BY BgrOf DEF SetPixel
<1>2. \A p \in DOMAIN before : Progress(p)' = IF p = t THEN new ELSE Progress(p)
  BY OneMore
<1>3. t \in DOMAIN before
  BY Target
<1> HIDE DEF t, new
<1> QED BY <1>1, <1>2, <1>3

(* The loops go on.                                                        *)
LEMMA StillDecoding ==
  ASSUME IInv, step = "decoding", step' = "decoding",
         UNCHANGED <<rect, before, rects>>, JobInv', LoopInv'
  PROVE  IInv'
<1>1. /\ rects \in Nat /\ rect \in Rectangles
      /\ DOMAIN before = 0 .. FbWidth * FbHeight - 1
      /\ before = [p \in DOMAIN before |-> before[p]]
  BY DEF IInv
<1>2. rects' = rects /\ rect' = rect /\ before' = before
  OBVIOUS
<1>3. DOMAIN fb' = DOMAIN before /\ fb' = [p \in DOMAIN fb' |-> fb'[p]]
  <2>1. fb' = before \/ fb' = [p \in DOMAIN before |-> Progress(p)']
    BY <1>2 DEF LoopInv
  <2>2. CASE fb' = before
    BY <1>1, <2>2
  <2>3. CASE fb' = [p \in DOMAIN before |-> Progress(p)']
    BY <2>3
  <2> QED BY <2>1, <2>2, <2>3
<1>4. PictureIsReproduced'
  BY DEF PictureIsReproduced
<1> QED BY <1>1, <1>2, <1>3, <1>4 DEF IInv

(* The decoder begins.                                                     *)
LEMMA BeginStep ==
  ASSUME IInv, BeginDecode
  PROVE  IInv'
<1>1. /\ rects \in Nat /\ rect \in Rectangles
      /\ DOMAIN fb = 0 .. FbWidth * FbHeight - 1
      /\ fb = [p \in DOMAIN fb |-> fb[p]]
      /\ DOMAIN before = DOMAIN fb
      /\ before = [p \in DOMAIN before |-> before[p]]
      /\ fb = before /\ JobInv /\ job.compressed \in BOOLEAN
      /\ job.data = IF job.compressed THEN <<[inflates |-> Bytes(rect)]>> ELSE Bytes(rect)
  BY DEF IInv, BeginDecode
<1>2. /\ rect' = rect /\ before' = before /\ rects' = rects /\ fb' = fb
      /\ x' = 0 /\ y' = 0 /\ i' = 0 /\ bits' = NewBits /\ rgba' = <<>> /\ step' = "decoding"
      /\ job' = IF job.compressed THEN [job EXCEPT !.data = Inflated(@)] ELSE job
  BY DEF BeginDecode, readVars
<1>3. Proper(rect)
  BY <1>1, RectanglesAreProper
<1>4. job' = [colors |-> job.colors, data |-> Bytes(rect), mask |-> job.mask,
              compressed |-> job.compressed]
  <2>1. PICK a, d, m, z : job = [colors |-> a, data |-> d, mask |-> m, compressed |-> z]
    BY <1>1 DEF JobInv
  <2>2. CASE job.compressed
    <3> DEFINE v == Bytes(rect)
    <3> HIDE DEF v
    <3>1. d = <<[inflates |-> v]>>
      BY <1>1, <2>1, <2>2 DEF v
    <3>2. Inflated(d) = v
      BY <3>1 DEF Inflated
    <3>3. job' = [colors |-> a, data |-> v, mask |-> m, compressed |-> z]
      BY <1>2, <2>1, <2>2, <3>2
    <3> QED BY <2>1, <3>3 DEF v
  <2>3. CASE ~ job.compressed
    BY <1>1, <1>2, <2>1, <2>3
  <2> QED BY <2>2, <2>3
<1>5. JobInv' /\ job'.data = Bytes(rect) /\ job'.mask = job.mask
  BY <1>1, <1>2, <1>4 DEF JobInv
<1>6. Count' = 0 /\ rect.width \in Nat /\ rect.height \in Nat
  <2>1. rect.width \in Nat /\ rect.height \in Nat
    BY <1>3 DEF Proper
  <2> QED BY <1>2, <2>1 DEF Count
<1>7. ASSUME NEW data PROVE BitsAt(NewBits, data, Stride(rect.width), 0, 0)
  <2> DEFINE s == Stride(rect.width)
  <2>1. s \in Nat /\ 0 * s = 0
    BY <1>3, PackedLength
  <2> HIDE DEF s
  <2>2. /\ NewBits = [byte |-> <<>>, bit |-> 0, byte_pos |-> 0]
        /\ NewBits.bit = 0 /\ NewBits.byte_pos = 0
    BY DEF NewBits
  <2> HIDE DEF NewBits
  <2>3. BitsAt(NewBits, data, s, 0, 0)
    BY <2>1, <2>2, NoBits DEF BitsAt, NewBits
  <2> QED BY <2>3 DEF s
<1>8. RowBits' = NewBits
  BY <1>2 DEF RowBits, NextByte, NewBits
<1>9. Indices'
  <2>1. rgba' = [k \in 1 .. Count' * 4 |->
                   Rgba(Nth(rect', (k - 1) \div 4))[((k - 1) % 4) + 1]]
    BY <1>2, <1>6
  <2>2. BitsAt(RowBits', job'.data, Stride(rect'.width), x', y')
    BY <1>2, <1>7, <1>8
  <2>3. BitsAt(bits', job'.mask, Stride(rect'.width), x', y')
    BY <1>2, <1>7
  <2>4. i' = Count' /\ i' = 3 * Count'
    BY <1>2, <1>6
  <2> QED BY <2>1, <2>2, <2>3, <2>4 DEF Indices
<1>10. ASSUME NEW p \in DOMAIN before PROVE Progress(p)' = before[p]
  <2> DEFINE column == p % FbWidth  row == p \div FbWidth
  <2>1. column \in Nat /\ row \in Nat
    BY <1>1, Located
  <2>2. ~ (Covers(rect, column, row) /\ Done(column - rect.x, row - rect.y)')
    <3> SUFFICES ASSUME Covers(rect, column, row), Done(column - rect.x, row - rect.y)'
                 PROVE  FALSE
      OBVIOUS
    <3>1. row - rect.y >= 0 /\ column - rect.x >= 0
      <4>1. rect.x \in Nat /\ rect.y \in Nat
        BY <1>3 DEF Proper
      <4> QED BY <1>6, <2>1, <4>1 DEF Covers
    <3>2. rect.x \in Nat /\ rect.y \in Nat
      BY <1>3 DEF Proper
    <3> QED BY <1>2, <2>1, <3>1, <3>2 DEF Done
  <2>3. Progress(p)' = IF Covers(rect, column, row) /\ Done(column - rect.x, row - rect.y)'
                       THEN SubSeq(Bgrx(rect.picture[<<column - rect.x, row - rect.y>>]), 1, 3)
                       ELSE before[p]
    BY <1>2 DEF Progress, Covers, Done
  <2> QED BY <2>2, <2>3
<1>11. fb' = IF rect'.method = "cursor" THEN before'
             ELSE [p \in DOMAIN before' |-> Progress(p)']
  <2>1. fb' = [p \in DOMAIN before |-> Progress(p)']
    BY <1>1, <1>2, <1>10
  <2> QED BY <1>1, <1>2, <2>1
<1>12. LoopInv'
  <2>1. x' \in Nat /\ y' \in 0 .. rect'.height /\ x' = 0
    BY <1>2, <1>6
  <2> QED BY <1>2, <1>5, <1>9, <1>11, <2>1 DEF LoopInv
<1>13. PictureIsReproduced'
  BY <1>2 DEF PictureIsReproduced
<1> QED BY <1>1, <1>2, <1>5, <1>12, <1>13 DEF IInv

(* A pixel is painted.                                                     *)
LEMMA PixelStep ==
  ASSUME IInv, NEW method, InLoop(method), method \notin {"cursor", "jpeg"},
         NextPixel,
         NEW color, SetPixel(color),
         NEW index, index = rect.picture[<<x, y>>],
         <<color[3], color[2], color[1]>>
           = <<Colors[index][3], Colors[index][2], Colors[index][1]>>,
         Indices'
  PROVE  IInv'
<1>1. /\ Proper(rect) /\ JobInv /\ LoopInv
      /\ rect.method = method
      /\ x \in 0 .. rect.width - 1 /\ y \in 0 .. rect.height - 1
  BY InsideLoop
<1>2. /\ rect' = rect /\ step' = step /\ job' = job /\ before' = before
      /\ x' \in Nat /\ y' \in 0 .. rect.height
      /\ x' # 0 => x' < rect.width /\ y' < rect.height
  BY <1>1, NextPlace
<1>3. /\ DOMAIN before = 0 .. FbWidth * FbHeight - 1
      /\ fb = [p \in DOMAIN before |-> Progress(p)]
  BY <1>1 DEF IInv, LoopInv
<1>4. fb' = [p \in DOMAIN before |-> Progress(p)']
  BY <1>1, <1>3, Paints
<1>5. rects' = rects /\ step = "decoding"
  BY DEF NextPixel, readVars, InLoop
<1>6. JobInv'
  BY <1>1, <1>2 DEF JobInv
<1>7. job'.data = Bytes(rect') /\ rect'.method \notin {"cursor", "jpeg"}
  BY <1>1, <1>2 DEF LoopInv
<1>8. fb' = IF rect'.method = "cursor" THEN before'
            ELSE [p \in DOMAIN before' |-> Progress(p)']
  BY <1>2, <1>4, <1>7
<1>9. LoopInv'
  BY <1>2, <1>7, <1>8 DEF LoopInv
<1> QED BY <1>2, <1>5, <1>6, <1>9, StillDecoding

(* One color for all pixels.                                               *)
LEMMA FillStep ==
  ASSUME IInv, Fill
  PROVE  IInv'
<1>1. /\ Proper(rect) /\ JobInv /\ rect.method = "fill"
      /\ x \in 0 .. rect.width - 1 /\ y \in 0 .. rect.height - 1
  BY InsideLoop DEF Fill
<1>2. NextPixel /\ InLoop("fill") /\ SetPixel(job.colors[1])
  BY DEF Fill
<1>3. rect.picture[<<x, y>>] = 1
  <2>1. rect.picture[<<x, y>>] \in 1 .. rect.palette
    BY <1>1 DEF Proper
  <2>2. rect.palette = 1
    BY <1>1 DEF Proper
  <2> QED BY <2>1, <2>2
<1>4. job.colors[1] = Colors[1]
  BY <1>1 DEF JobInv, Tpixel
<1>5. rect' = rect
  BY <1>2 DEF NextPixel, readVars
<1>6. Indices'
  BY <1>1, <1>5 DEF Indices
<1> DEFINE color == Colors[1]
<1>7. SetPixel(color)
  BY <1>2, <1>4
<1>8. PICK index : index = rect.picture[<<x, y>>] /\ index = 1
  BY <1>3
<1>9. <<color[3], color[2], color[1]>>
        = <<Colors[index][3], Colors[index][2], Colors[index][1]>>
  BY <1>8
<1> HIDE DEF color
<1> QED BY <1>2, <1>6, <1>7, <1>8, <1>9, PixelStep

(* Four bytes for every pixel.                                             *)
LEMMA RawStep ==
  ASSUME IInv, RawBgra
  PROVE  IInv'
<1>1. /\ Proper(rect) /\ LoopInv /\ rect.method = "raw"
      /\ x \in 0 .. rect.width - 1 /\ y \in 0 .. rect.height - 1
  BY InsideLoop DEF RawBgra
<1> DEFINE d == job.data
           color == <<d[4 * i + 3], d[4 * i + 2], d[4 * i + 1]>>
           index == rect.picture[<<x, y>>]
<1>2. NextPixel /\ InLoop("raw") /\ SetPixel(color) /\ i' = i + 1
  BY DEF RawBgra
<1>3. /\ rect' = rect /\ Count' = Count + 1
      /\ Count \in 0 .. Area(rect) - 1 /\ Nth(rect, Count) = index
  BY <1>1, <1>2, NextPlace
<1>4. i = Count /\ d = Channels(rect, 4, Bgrx)
  BY <1>1 DEF LoopInv, Indices, Bytes
<1>5. /\ d[4 * i + 1] = Colors[index][3]
      /\ d[4 * i + 2] = Colors[index][2]
      /\ d[4 * i + 3] = Colors[index][1]
  <2> HIDE DEF d, index
  <2> QED BY <1>1, <1>3, <1>4, BgrxChannels
<1>6. Indices'
  <2>1. i' = Count'
    BY <1>2, <1>3, <1>4
  <2> QED BY <1>1, <1>3, <2>1 DEF Indices
<1>7. <<color[3], color[2], color[1]>>
        = <<Colors[index][3], Colors[index][2], Colors[index][1]>>
  <2> HIDE DEF index, d
  <2> QED BY <1>5
<1>8. index = rect.picture[<<x, y>>]
  OBVIOUS
<1> HIDE DEF color, index, d
<1> QED BY <1>2, <1>6, <1>7, <1>8, PixelStep

(* Three bytes for every pixel.                                            *)
LEMMA CopyStep ==
  ASSUME IInv, CopyFilter
  PROVE  IInv'
<1>1. /\ Proper(rect) /\ LoopInv /\ rect.method = "copy"
      /\ x \in 0 .. rect.width - 1 /\ y \in 0 .. rect.height - 1
  BY InsideLoop DEF CopyFilter
<1> DEFINE d == job.data
           color == <<d[i + 1], d[i + 2], d[i + 3]>>
           index == rect.picture[<<x, y>>]
           n == Count
<1>2. NextPixel /\ InLoop("copy") /\ SetPixel(color) /\ i' = i + 3
  BY DEF CopyFilter
<1>3. /\ rect' = rect /\ Count' = n + 1
      /\ n \in 0 .. Area(rect) - 1 /\ Nth(rect, n) = index
  BY <1>1, <1>2, NextPlace
<1>4. i = 3 * n /\ d = Channels(rect, 3, Tpixel)
  BY <1>1 DEF LoopInv, Indices, Bytes
<1>5. /\ d[i + 1] = Colors[index][1]
      /\ d[i + 2] = Colors[index][2]
      /\ d[i + 3] = Colors[index][3]
  <2> HIDE DEF d, index, n
  <2>1. /\ d[3 * n + 1] = Colors[Nth(rect, n)][1]
        /\ d[3 * n + 2] = Colors[Nth(rect, n)][2]
        /\ d[3 * n + 3] = Colors[Nth(rect, n)][3]
    BY <1>1, <1>3, <1>4, TpixelChannels
  <2> QED BY <1>3, <1>4, <2>1
<1>6. Indices'
  <2>1. i' = 3 * Count'
    <3>1. Area(rect) \in Nat
      BY <1>1, Places
    <3> HIDE DEF n
    <3> QED BY <1>2, <1>3, <1>4, <3>1
  <2> QED BY <1>1, <1>3, <2>1 DEF Indices
<1>7. <<color[3], color[2], color[1]>>
        = <<Colors[index][3], Colors[index][2], Colors[index][1]>>
  <2> HIDE DEF index, d
  <2> QED BY <1>5
<1>8. index = rect.picture[<<x, y>>]
  OBVIOUS
<1> HIDE DEF color, index, d, n
<1> QED BY <1>2, <1>6, <1>7, <1>8, PixelStep

(* A bit or a byte of the palette's indices for every pixel.               *)
LEMMA PaletteStep ==
  ASSUME IInv, PaletteFilter
  PROVE  IInv'
<1>1. /\ Proper(rect) /\ JobInv /\ LoopInv /\ rect.method = "palette"
      /\ x \in 0 .. rect.width - 1 /\ y \in 0 .. rect.height - 1
  BY InsideLoop DEF PaletteFilter
<1> DEFINE d == job.data
           index == rect.picture[<<x, y>>]
           n == Count
<1>2. NextPixel /\ InLoop("palette")
  BY DEF PaletteFilter
<1>3. /\ rect' = rect /\ job' = job /\ Count' = n + 1
      /\ n \in 0 .. Area(rect) - 1 /\ Nth(rect, n) = index
  BY <1>1, <1>2, NextPlace
<1>4. rect.palette \in Nat /\ index \in 1 .. rect.palette
  <2>1. index \in 1 .. rect.palette
    BY <1>1 DEF Proper
  <2>2. rect.palette \in 1 .. Len(Colors)
    BY <1>1 DEF Proper
  <2> QED BY <2>1, <2>2
<1>5. job.colors = [k \in 1 .. rect.palette |-> Colors[k]]
  BY <1>1 DEF JobInv, Tpixel
<1>6. TwoColors <=> rect.palette = 2
  <2> DEFINE c == job.colors  m == rect.palette
  <2> HIDE DEF c, m
  <2>1. m \in Nat /\ c = [k \in 1 .. m |-> Colors[k]]
    BY <1>4, <1>5 DEF c, m
  <2>2. Len(c) = m
    BY <2>1
  <2> QED BY <2>2 DEF TwoColors, c, m
<1> DEFINE color == Colors[index]
<1>7. <<color[3], color[2], color[1]>>
        = <<Colors[index][3], Colors[index][2], Colors[index][1]>>
  OBVIOUS
<1>8. CASE rect.palette = 2
  <2>1. d = PackedRows(rect) /\ BitsAt(RowBits, d, Stride(rect.width), x, y)
    BY <1>1, <1>8 DEF LoopInv, Indices, Bytes
  <2>2. /\ SetPixel(job.colors[Bit(RowBits, d) + 1])
        /\ bits' = AfterBit(RowBits, d)
    BY <1>6, <1>8 DEF PaletteFilter
  <2>3. /\ Bit(RowBits, d) = index - 1
        /\ BitsAt(bits', d, Stride(rect.width), x + 1, y)
        /\ x + 1 = rect.width => BitsAt(NextByte(bits'), d, Stride(rect.width), 0, y + 1)
    <3> HIDE DEF d
    <3> QED BY <1>1, <2>1, <2>2, NextBit
  <2>4. SetPixel(color)
    <3>1. index - 1 + 1 = index
      BY <1>4
    <3>2. job.colors[index] = color
      BY <1>4, <1>5
    <3> HIDE DEF index, color, d
    <3> QED BY <2>2, <2>3, <3>1, <3>2
  <2>5. BitsAt(RowBits', d, Stride(rect.width), x', y')
    <3>0. /\ rect.width \in Nat
          /\ IF x + 1 < rect.width THEN x' = x + 1 /\ y' = y ELSE x' = 0 /\ y' = y + 1
      BY <1>1, <1>2 DEF NextPixel, Proper
    <3>1. CASE x + 1 < rect.width
      <4>1. x' = x + 1 /\ y' = y /\ x' # 0
        BY <1>1, <3>0, <3>1
      <4>2. RowBits' = bits'
        BY <4>1 DEF RowBits
      <4> QED BY <2>3, <4>1, <4>2
    <3>2. CASE ~ (x + 1 < rect.width)
      <4>1. x' = 0 /\ y' = y + 1 /\ x + 1 = rect.width
        BY <1>1, <3>0, <3>2
      <4>2. RowBits' = NextByte(bits')
        BY <4>1 DEF RowBits
      <4> QED BY <2>3, <4>1, <4>2
    <3> QED BY <3>1, <3>2
  <2>6. Indices'
    BY <1>1, <1>3, <1>8, <2>5 DEF Indices
  <2>7. index = rect.picture[<<x, y>>]
    OBVIOUS
  <2> HIDE DEF index, color, d
  <2> QED BY <1>2, <1>7, <2>4, <2>6, <2>7, PixelStep
<1>9. CASE rect.palette # 2
  <2>1. i = n /\ d = [k \in 1 .. Area(rect) |-> Nth(rect, k - 1) - 1]
    BY <1>1, <1>9 DEF LoopInv, Indices, Bytes
  <2>2. SetPixel(job.colors[d[i + 1] + 1]) /\ i' = i + 1
    BY <1>6, <1>9 DEF PaletteFilter
  <2>3. d[i + 1] + 1 = index
    <3>1. Area(rect) \in Nat
      BY <1>1, Places
    <3>2. PICK k \in 1 .. Area(rect) : k = n + 1
      BY <1>3, <3>1
    <3>3. k - 1 = n /\ i + 1 = k
      BY <1>3, <2>1, <3>1, <3>2
    <3> HIDE DEF n, d, index
    <3>4. d[k] = Nth(rect, k - 1) - 1
      BY <2>1
    <3> QED BY <1>3, <1>4, <3>3, <3>4
  <2>4. SetPixel(color)
    <3>1. job.colors[index] = color
      BY <1>4, <1>5
    <3> HIDE DEF index, color, d
    <3> QED BY <2>2, <2>3, <3>1
  <2>5. i' = Count'
    BY <1>3, <2>1, <2>2
  <2>6. Indices'
    BY <1>1, <1>3, <1>9, <2>5 DEF Indices
  <2>7. index = rect.picture[<<x, y>>]
    OBVIOUS
  <2> HIDE DEF index, color, d
  <2> QED BY <1>2, <1>7, <2>4, <2>6, <2>7, PixelStep
<1> QED BY <1>8, <1>9

(* The channels of a cursor's pixel.                                       *)
LEMMA RgbaParts ==
  ASSUME NEW index \in 1 .. Len(Colors)
  PROVE  /\ Rgba(index)[1] = Colors[index][1]
         /\ Rgba(index)[2] = Colors[index][2]
         /\ Rgba(index)[3] = Colors[index][3]
         /\ Rgba(index)[4] = IF index = 2 THEN 255 ELSE 0
<1> DEFINE s == Colors[index]
           alpha == IF index = 2 THEN 255 ELSE 0
           t == <<alpha>>
           u == Rgba(index)
<1>1. HasLength(s, 3)
  BY ColorParts
<1>2. Joins(u, s, t)
  BY DEF Rgba, Joins
<1>3. HasLength(t, 1) /\ t[1] = alpha
  <2> HIDE DEF alpha
  <2> QED BY DEF HasLength
<1> HIDE DEF s, t, u, alpha
<1>4. \A k \in 1 .. 3 + 1 : u[k] = IF k <= 3 THEN s[k] ELSE t[k - 3]
  BY <1>1, <1>2, <1>3, Joined
<1>5. u[1] = s[1] /\ u[2] = s[2] /\ u[3] = s[3] /\ u[4] = t[1]
  BY <1>4
<1> QED BY <1>3, <1>5 DEF s, u, alpha

\* The first n pixels of a cursor.
RgbaOf(r, n) == [k \in 1 .. n * 4 |-> Rgba(Nth(r, (k - 1) \div 4))[((k - 1) % 4) + 1]]

(* One more pixel of a cursor.                                             *)
LEMMA OneMoreRgba ==
  ASSUME NEW r, NEW n \in Nat, NEW t, HasLength(t, 4),
         \A c \in 1 .. 4 : t[c] = Rgba(Nth(r, n))[c],
         NEW s, s = RgbaOf(r, n), NEW u, Joins(u, s, t)
  PROVE  u = RgbaOf(r, n + 1)
<1> DEFINE f == [m \in Nat |-> Rgba(Nth(r, m))]
           v == RgbaOf(r, n + 1)
           size == n + 1
<1>0. size \in Nat /\ n \in 0 .. size - 1
  OBVIOUS
<1>1. size \in Nat /\ size * 4 = n * 4 + 4 /\ n * 4 \in Nat
  OBVIOUS
<1>2. HasLength(s, n * 4) /\ HasLength(v, size * 4)
  BY DEF HasLength, RgbaOf
<1>4. HasChannels(v, f, 4, size)
  <2> SUFFICES ASSUME NEW k \in 1 .. size * 4
               PROVE  v[k] = f[(k - 1) \div 4][((k - 1) % 4) + 1]
    BY DEF HasChannels
  <2>1. (k - 1) \div 4 \in Nat
    BY <1>1
  <2> QED BY <2>1 DEF RgbaOf
<1>5. \A k \in 1 .. n * 4 : v[k] = s[k]
  <2> SUFFICES ASSUME NEW k \in 1 .. n * 4 PROVE v[k] = s[k]
    OBVIOUS
  <2>1. k \in 1 .. size * 4
    BY <1>1
  <2> HIDE DEF size
  <2>2. v[k] = Rgba(Nth(r, (k - 1) \div 4))[((k - 1) % 4) + 1]
    BY <2>1 DEF RgbaOf, size
  <2>3. s[k] = Rgba(Nth(r, (k - 1) \div 4))[((k - 1) % 4) + 1]
    BY DEF RgbaOf
  <2> QED BY <2>2, <2>3
<1>6. \A c \in 1 .. 4 : t[c] = f[n][c]
  OBVIOUS
<1> HIDE DEF f, v, size
<1>7. \A c \in 1 .. 4 : v[n * 4 + c] = f[n][c]
  <2> SUFFICES ASSUME NEW c \in 1 .. 4 PROVE v[n * 4 + c] = f[n][c]
    OBVIOUS
  <2> QED BY <1>0, <1>4, ChannelOf
<1>8. /\ HasLength(u, n * 4 + 4)
      /\ \A k \in 1 .. n * 4 + 4 : u[k] = IF k <= n * 4 THEN s[k] ELSE t[k - n * 4]
  <2> DEFINE m == n * 4
             four == 4
  <2>1. m \in Nat /\ HasLength(s, m) /\ four \in Nat /\ HasLength(t, four)
    BY <1>1, <1>2
  <2> HIDE DEF m, four
  <2>2. /\ HasLength(u, m + four)
        /\ \A k \in 1 .. m + four : u[k] = IF k <= m THEN s[k] ELSE t[k - m]
    BY <2>1, Joined
  <2> QED BY <2>2 DEF m, four
<1>9. \A k \in 1 .. size * 4 : u[k] = v[k]
  <2> SUFFICES ASSUME NEW k \in 1 .. size * 4 PROVE u[k] = v[k]
    OBVIOUS
  <2>1. CASE k <= n * 4
    BY <1>1, <1>5, <1>8, <2>1
  <2>2. CASE ~ (k <= n * 4)
    <3> DEFINE c == k - n * 4
    <3>1. c \in 1 .. 4 /\ n * 4 + c = k
      BY <1>1, <2>2
    <3> HIDE DEF c
    <3>2. v[k] = f[n][c]
      BY <1>7, <3>1
    <3>3. u[k] = t[c]
      BY <1>1, <1>8, <2>2 DEF c
    <3> QED BY <1>6, <3>1, <3>2, <3>3
  <2> QED BY <2>1, <2>2
<1>10. HasLength(u, size * 4)
  BY <1>1, <1>8
<1>11. u = v
  BY <1>1, <1>2, <1>9, <1>10, SameSequence
<1> QED BY <1>11 DEF v

(* A pixel and a bit of a cursor.                                          *)
LEMMA CursorStep ==
  ASSUME IInv, CursorBgrx
  PROVE  IInv'
<1>1. /\ Proper(rect) /\ JobInv /\ LoopInv /\ rect.method = "cursor"
      /\ x \in 0 .. rect.width - 1 /\ y \in 0 .. rect.height - 1
  BY InsideLoop DEF CursorBgrx
<1>2. PICK d, mask, n, index, alpha :
        /\ d = job.data /\ mask = job.mask /\ n = Count /\ index = rect.picture[<<x, y>>]
        /\ alpha = Bit(bits, mask) * 255
  OBVIOUS
<1>3. /\ NextPixel /\ InLoop("cursor") /\ i' = i + 1 /\ fb' = fb
      /\ rgba' = rgba \o <<d[4 * i + 3], d[4 * i + 2], d[4 * i + 1], alpha>>
      /\ bits' = IF x + 1 = rect.width THEN NextByte(AfterBit(bits, mask))
                 ELSE AfterBit(bits, mask)
  BY <1>2 DEF CursorBgrx
<1>4. /\ rect' = rect /\ step' = step /\ job' = job /\ before' = before
      /\ x' \in Nat /\ y' \in 0 .. rect.height
      /\ x' # 0 => x' < rect.width /\ y' < rect.height
      /\ n \in 0 .. Area(rect) - 1 /\ Nth(rect, n) = index
      /\ Count' = n + 1
  BY <1>1, <1>2, <1>3, NextPlace
<1>5. /\ d = Channels(rect, 4, Bgrx) /\ mask = PackedRows(rect) /\ i = n
      /\ rgba = RgbaOf(rect, n) /\ fb = before /\ job.data = Bytes(rect)
      /\ BitsAt(bits, mask, Stride(rect.width), x, y)
  BY <1>1, <1>2 DEF LoopInv, Indices, JobInv, Bytes, RgbaOf
<1>6. n \in Nat /\ index \in 1 .. 2 /\ index \in 1 .. Len(Colors)
  <2>1. index \in 1 .. rect.palette /\ rect.palette = 2
    BY <1>1, <1>2 DEF Proper
  <2>2. Len(Colors) \in Nat /\ Len(Colors) > 2
    BY DecodeAssumption DEF DecodeAssumption
  <2>3. Area(rect) \in Nat
    BY <1>1, Places
  <2> QED BY <1>4, <2>1, <2>2, <2>3
<1>7. /\ Bit(bits, mask) = index - 1
      /\ BitsAt(AfterBit(bits, mask), mask, Stride(rect.width), x + 1, y)
      /\ x + 1 = rect.width =>
           BitsAt(NextByte(AfterBit(bits, mask)), mask, Stride(rect.width), 0, y + 1)
  BY <1>1, <1>2, <1>5, NextBit
<1>8. BitsAt(bits', mask, Stride(rect.width), x', y')
  <2>1. /\ rect.width \in Nat
        /\ IF x + 1 < rect.width THEN x' = x + 1 /\ y' = y ELSE x' = 0 /\ y' = y + 1
    BY <1>1, <1>3 DEF NextPixel, Proper
  <2>2. CASE x + 1 < rect.width
    <3>1. x' = x + 1 /\ y' = y /\ x + 1 # rect.width
      BY <1>1, <2>1, <2>2
    <3> QED BY <1>3, <1>7, <3>1
  <2>3. CASE ~ (x + 1 < rect.width)
    <3>1. x' = 0 /\ y' = y + 1 /\ x + 1 = rect.width
      BY <1>1, <2>1, <2>3
    <3> QED BY <1>3, <1>7, <3>1
  <2> QED BY <2>2, <2>3
<1>9. rgba' = RgbaOf(rect, n + 1)
  <2>1. /\ d[4 * n + 1] = Colors[index][3]
        /\ d[4 * n + 2] = Colors[index][2]
        /\ d[4 * n + 3] = Colors[index][1]
    BY <1>1, <1>4, <1>5, BgrxChannels
  <2>2. alpha = IF index = 2 THEN 255 ELSE 0
    BY <1>2, <1>6, <1>7
  <2>3. PICK t : t = <<d[4 * i + 3], d[4 * i + 2], d[4 * i + 1], alpha>>
    OBVIOUS
  <2>4. HasLength(t, 4)
    BY <2>3 DEF HasLength
  <2>5. t[1] = d[4 * n + 3] /\ t[2] = d[4 * n + 2] /\ t[3] = d[4 * n + 1] /\ t[4] = alpha
    BY <1>5, <2>3
  <2>6. \A c \in 1 .. 4 : t[c] = Rgba(index)[c]
    <3>1. /\ t[1] = Rgba(index)[1] /\ t[2] = Rgba(index)[2]
          /\ t[3] = Rgba(index)[3] /\ t[4] = Rgba(index)[4]
      BY <1>6, <2>1, <2>2, <2>5, RgbaParts
    <3> QED BY <3>1
  <2>7. Joins(rgba', rgba, t)
    BY <1>3, <2>3 DEF Joins
  <2>8. \A c \in 1 .. 4 : t[c] = Rgba(Nth(rect, n))[c]
    BY <1>4, <2>6
  <2> QED BY <1>5, <1>6, <2>4, <2>7, <2>8, OneMoreRgba
<1>10. Indices'
  <2>1. i' = Count'
    BY <1>3, <1>4, <1>5
  <2>2. rgba' = [k \in 1 .. Count' * 4 |->
                   Rgba(Nth(rect', (k - 1) \div 4))[((k - 1) % 4) + 1]]
    BY <1>4, <1>9 DEF RgbaOf
  <2>3. BitsAt(bits', job'.mask, Stride(rect'.width), x', y')
    BY <1>2, <1>4, <1>8
  <2> QED BY <1>1, <1>4, <2>1, <2>2, <2>3 DEF Indices
<1>11. rects' = rects /\ step = "decoding"
  BY <1>3 DEF NextPixel, readVars, InLoop
<1>12. JobInv'
  BY <1>1, <1>4 DEF JobInv
<1>13. LoopInv'
  BY <1>1, <1>3, <1>4, <1>5, <1>10 DEF LoopInv
<1> QED BY <1>4, <1>11, <1>12, <1>13, StillDecoding

(* The pixels of a line in the framebuffer.                                *)
LEMMA LinePlaces ==
  ASSUME NEW r, Proper(r), r.width > 0, NEW l \in 0 .. r.height - 1,
         NEW first, first = Pos(r.x, l + r.y),
         NEW p \in 0 .. FbWidth * FbHeight - 1
  PROVE  /\ first \in Nat
         /\ p \in first .. first + r.width - 1
              <=> Covers(r, p % FbWidth, p \div FbWidth) /\ (p \div FbWidth) - r.y = l
         /\ p \in first .. first + r.width - 1 =>
              p - first \in 0 .. r.width - 1 /\ (p % FbWidth) - r.x = p - first
<1> DEFINE w == FbWidth  a == r.x  b == r.y  n == r.width
           column == p % FbWidth  row == p \div FbWidth
           m == (l + b) * w
<1>1. /\ w \in Nat /\ a \in Nat /\ b \in Nat /\ n \in Nat /\ r.height \in Nat /\ l \in Nat
      /\ a + n <= w /\ n > 0
  BY DecodeAssumption DEF DecodeAssumption, Proper
<1>2. /\ column \in Nat /\ row \in Nat
      /\ p = row * w + column
  BY Located DEF Pos
<1>3. m \in Nat /\ first = m + a
  <2>1. first = m + a
    BY DEF Pos
  <2> HIDE DEF w, b
  <2>2. m \in Nat
    BY <1>1
  <2> QED BY <2>1, <2>2
<1>4. \A c \in 0 .. n - 1 :
        p = Pos(c + a, l + b) <=> column = c + a /\ row = l + b
  BY Target
<1>5. \A c : Pos(c + a, l + b) = m + (c + a)
  BY DEF Pos
<1>6. Covers(r, column, row) => column - a \in 0 .. n - 1
  BY <1>1, <1>2 DEF Covers
<1>7. \A c \in 0 .. n - 1 : column = c + a /\ row = l + b => Covers(r, column, row)
  BY <1>1, <1>2 DEF Covers
<1>p. p \in Nat
  <2> HIDE DEF column, row, w
  <2> QED BY <1>1, <1>2
<1>q. row = l + b => p = m + column
  BY <1>2
<1> HIDE DEF w, a, b, n, column, row, m
<1>8. ASSUME p \in first .. first + n - 1
      PROVE  /\ p - first \in 0 .. n - 1 /\ column - a = p - first
             /\ Covers(r, column, row) /\ row - b = l
  <2> DEFINE c == p - first
  <2>1. c \in 0 .. n - 1 /\ p = m + (c + a)
    BY <1>1, <1>3, <1>8, <1>p
  <2> HIDE DEF c
  <2>2. column = c + a /\ row = l + b
    BY <1>4, <1>5, <2>1
  <2>3. Covers(r, column, row)
    BY <1>7, <2>1, <2>2
  <2>4. column - a = c /\ row - b = l
    BY <1>1, <2>1, <2>2
  <2> QED BY <2>1, <2>3, <2>4 DEF c
<1>9. ASSUME Covers(r, column, row), row - b = l
      PROVE  p \in first .. first + n - 1
  <2>1. row = l + b
    BY <1>1, <1>2, <1>9
  <2>2. p = m + column /\ column - a \in 0 .. n - 1
    BY <1>6, <1>9, <1>q, <2>1
  <2> QED BY <1>1, <1>2, <1>3, <2>2
<1>10. first \in Nat
  BY <1>1, <1>3
<1> QED BY <1>8, <1>9, <1>10 DEF a, b, n, column, row

(* The channels of a line that JPEG expands to.                            *)
LEMMA LineChannels ==
  ASSUME Proper(rect), NEW s, s = Channels(rect, 4, Bgrx), job.data[1].lines = s,
         NEW l \in 0 .. rect.height - 1, NEW c \in 0 .. rect.width - 1,
         NEW number \in Nat, number = l + 1, NEW line, line = ImageLine(number),
         NEW k, k = 4 * c
  PROVE  /\ line[k + 1] = Colors[rect.picture[<<c, l>>]][3]
         /\ line[k + 2] = Colors[rect.picture[<<c, l>>]][2]
         /\ line[k + 3] = Colors[rect.picture[<<c, l>>]][1]
<1> DEFINE w == rect.width
           m == l * w
           n == m + c
           a == 4 * m + 1
           b == 4 * m + 4 * w
           color == Colors[rect.picture[<<c, l>>]]
<1>1. line = SubSeq(s, 4 * (number - 1) * w + 1, 4 * number * w)
  BY DEF ImageLine
<1>2. w \in Nat /\ l \in Nat /\ c \in 0 .. w - 1 /\ rect.height \in Nat
  BY DEF Proper
<1>3. n \in 0 .. Area(rect) - 1 /\ Nth(rect, n) = rect.picture[<<c, l>>]
  BY Places
<1>4. /\ s[4 * n + 1] = color[3] /\ s[4 * n + 2] = color[2] /\ s[4 * n + 3] = color[1]
  <2> HIDE DEF n
  <2> QED BY <1>3, BgrxChannels
<1>5. m \in Nat /\ 4 * (number - 1) * w + 1 = a /\ 4 * number * w = b
  <2> HIDE DEF w
  <2>1. number - 1 = l /\ number * w = m + w /\ m \in Nat
    BY <1>2
  <2>2. 4 * l * w = 4 * m /\ 4 * number * w = 4 * (number * w)
    BY <1>2
  <2> HIDE DEF m
  <2> QED BY <1>2, <2>1, <2>2
<1>6. line = SubSeq(s, a, b)
  BY <1>1, <1>5
<1> HIDE DEF m, w
<1>7. a \in Nat /\ b \in Nat /\ a <= b + 1 /\ b - a + 1 = 4 * w
  BY <1>2, <1>5
<1>8. /\ a + (k + 1) - 1 = 4 * n + 1 /\ a + (k + 2) - 1 = 4 * n + 2
       /\ a + (k + 3) - 1 = 4 * n + 3
       /\ k + 1 \in 1 .. b - a + 1 /\ k + 2 \in 1 .. b - a + 1 /\ k + 3 \in 1 .. b - a + 1
  BY <1>2, <1>5
<1> HIDE DEF a, b, n, color
<1>9. \A j \in 1 .. b - a + 1 : line[j] = s[a + j - 1]
  BY <1>6, <1>7, PartOf
<1>10. /\ line[k + 1] = s[a + (k + 1) - 1]
       /\ line[k + 2] = s[a + (k + 2) - 1]
       /\ line[k + 3] = s[a + (k + 3) - 1]
  <2>1. PICK k1, k2, k3 : k1 = k + 1 /\ k2 = k + 2 /\ k3 = k + 3
    OBVIOUS
  <2>2. line[k1] = s[a + k1 - 1] /\ line[k2] = s[a + k2 - 1] /\ line[k3] = s[a + k3 - 1]
    BY <1>8, <1>9, <2>1
  <2> QED BY <2>1, <2>2
<1> QED BY <1>4, <1>8, <1>10 DEF color

(* A line of pixels is painted at once.                                    *)
LEMMA JpegStep ==
  ASSUME IInv, JpegLine
  PROVE  IInv'
<1>1. /\ Proper(rect) /\ JobInv /\ LoopInv /\ rect.method = "jpeg"
      /\ x \in 0 .. rect.width - 1 /\ y \in 0 .. rect.height - 1
  BY InsideLoop DEF JpegLine
<1>2. /\ step' = step /\ rect' = rect /\ before' = before /\ rects' = rects
      /\ job' = job /\ x' = x /\ y' = y + 1 /\ step = "decoding"
      /\ SetLine(ImageLine(y + 1))
  BY DEF JpegLine, readVars, InLoop
<1>3. /\ x = 0 /\ job.data = Bytes(rect)
      /\ job.data = <<[lines |-> Channels(rect, 4, Bgrx)]>>
      /\ DOMAIN before = 0 .. FbWidth * FbHeight - 1
      /\ fb = [p \in DOMAIN before |-> Progress(p)]
  BY <1>1 DEF IInv, LoopInv, Bytes
<1>w. rect.width > 0
  BY <1>1 DEF Proper
<1>s. job.data[1].lines = Channels(rect, 4, Bgrx)
  BY <1>3
<1>4. PICK first : first = Pos(rect.x, y + rect.y)
  OBVIOUS
<1>5. PICK line : line = ImageLine(y + 1)
  OBVIOUS
<1>6. fb' = [p \in DOMAIN before |->
               IF p \in first .. first + rect.width - 1
               THEN <<line[4 * (p - first) + 1], line[4 * (p - first) + 2],
                      line[4 * (p - first) + 3]>>
               ELSE Progress(p)]
  BY <1>2, <1>3, <1>4, <1>5 DEF SetLine
<1>7. ASSUME NEW p \in DOMAIN before
      PROVE  Progress(p)' = IF p \in first .. first + rect.width - 1
                            THEN <<line[4 * (p - first) + 1], line[4 * (p - first) + 2],
                                   line[4 * (p - first) + 3]>>
                            ELSE Progress(p)
  <2> DEFINE column == p % FbWidth
             row == p \div FbWidth
             here == p \in first .. first + rect.width - 1
  <2>0. p \in 0 .. FbWidth * FbHeight - 1
    BY <1>3
  <2>1. PICK c, l : c = column - rect.x /\ l = row - rect.y
    OBVIOUS
  <2>2. /\ here <=> Covers(rect, column, row) /\ l = y
        /\ here => p - first \in 0 .. rect.width - 1 /\ c = p - first
    BY <1>1, <1>w, <1>4, <2>0, <2>1, LinePlaces
  <2>3. Covers(rect, column, row) => c \in 0 .. rect.width - 1 /\ l \in 0 .. rect.height - 1
    <3>1. column \in Nat /\ row \in Nat
      BY <2>0, Located
    <3> HIDE DEF column, row
    <3> QED BY <1>1, <2>1, <3>1, Covered
  <2> DEFINE pixel == SubSeq(Bgrx(rect.picture[<<c, l>>]), 1, 3)
  <2>4. /\ Progress(p) = IF Covers(rect, column, row) /\ Done(c, l) THEN pixel ELSE before[p]
        /\ Progress(p)' = IF Covers(rect, column, row) /\ Done(c, l)' THEN pixel ELSE before[p]
    BY <1>2, <2>1 DEF Progress, Done
  <2>5. ASSUME c \in 0 .. rect.width - 1, l \in 0 .. rect.height - 1
        PROVE  Done(c, l)' <=> Done(c, l) \/ l = y
    <3>1. rect.width \in Nat /\ rect.height \in Nat
      BY <1>1 DEF Proper
    <3> QED BY <1>1, <1>2, <1>3, <2>5, <3>1 DEF Done
  <2>6. ASSUME here
        PROVE  pixel = <<line[4 * (p - first) + 1], line[4 * (p - first) + 2],
                         line[4 * (p - first) + 3]>>
    <3>1. PICK k : k = 4 * c
      OBVIOUS
    <3>2. c \in 0 .. rect.width - 1 /\ l = y /\ k = 4 * (p - first)
      BY <2>2, <2>6, <3>1
    <3>n. PICK number \in Nat : number = y + 1
      BY <1>1
    <3>3. /\ line[k + 1] = Colors[rect.picture[<<c, l>>]][3]
          /\ line[k + 2] = Colors[rect.picture[<<c, l>>]][2]
          /\ line[k + 3] = Colors[rect.picture[<<c, l>>]][1]
      BY <1>1, <1>s, <1>5, <3>1, <3>2, <3>n, LineChannels
    <3>4. pixel = <<Colors[rect.picture[<<c, l>>]][3], Colors[rect.picture[<<c, l>>]][2],
                    Colors[rect.picture[<<c, l>>]][1]>>
      BY BgrOf
    <3> HIDE DEF pixel
    <3> QED BY <3>2, <3>3, <3>4
  <2> HIDE DEF pixel, column, row, here
  <2>7. Progress(p)' = IF here THEN pixel ELSE Progress(p)
    BY <2>2, <2>3, <2>4, <2>5
  <2> QED BY <2>6, <2>7 DEF here
<1>8. fb' = [p \in DOMAIN before |-> Progress(p)']
  BY <1>6, <1>7
<1>9. Indices'
  BY <1>1, <1>2 DEF Indices
<1>10. JobInv'
  BY <1>1, <1>2 DEF JobInv
<1>11. x' \in Nat /\ y' \in 0 .. rect'.height /\ x' = 0
  <2>1. rect.height \in Nat
    BY <1>1 DEF Proper
  <2> QED BY <1>1, <1>2, <1>3, <2>1
<1>12. LoopInv'
  BY <1>1, <1>2, <1>3, <1>8, <1>9, <1>11 DEF LoopInv
<1> QED BY <1>2, <1>10, <1>12, StillDecoding

-----------------------------------------------------------------------------
(* The ends of a rectangle                                                 *)

(* What the loops leave behind is what the server meant.                   *)
LEMMA EndStep ==
  ASSUME IInv, EndDecode
  PROVE  IInv'
<1>1. /\ rects \in Nat /\ rect \in Rectangles
      /\ DOMAIN fb = 0 .. FbWidth * FbHeight - 1
      /\ fb = [p \in DOMAIN fb |-> fb[p]]
      /\ DOMAIN before = DOMAIN fb
      /\ before = [p \in DOMAIN before |-> before[p]]
      /\ LoopInv /\ y >= rect.height
  BY DEF IInv, EndDecode
<1>2. /\ step' = "idle" /\ rect' = rect /\ before' = before /\ rects' = rects
      /\ fb' = fb
      /\ cursor' = IF rect.method = "cursor"
                   THEN [data |-> rgba, size |-> <<rect.width, rect.height>>,
                         hotspot |-> <<rect.x, rect.y>>]
                   ELSE cursor
  BY DEF EndDecode, readVars
<1>3. Proper(rect)
  BY <1>1, RectanglesAreProper
<1>4. rect.width \in Nat /\ rect.height \in Nat /\ y = rect.height /\ x = 0
  <2>1. rect.width \in Nat /\ rect.height \in Nat
    BY <1>3 DEF Proper
  <2>2. x \in Nat /\ y \in 0 .. rect.height /\ (x # 0 => y < rect.height)
    BY <1>1 DEF LoopInv
  <2> QED BY <1>1, <2>1, <2>2
<1>5. CASE rect.method = "cursor"
  <2>1. fb = before /\ rgba = RgbaOf(rect, Count)
    BY <1>1, <1>5 DEF LoopInv, Indices, RgbaOf
  <2>2. Count = Area(rect)
    <3> DEFINE w == rect.width  h == rect.height
    <3>1. w \in Nat /\ h \in Nat /\ Count = h * w + 0 /\ Area(rect) = w * h
      BY <1>4 DEF Count, Area
    <3> HIDE DEF w, h
    <3> QED BY <3>1
  <2>3. RgbaOf(rect, Area(rect)) = Channels(rect, 4, Rgba)
    BY DEF RgbaOf, Channels
  <2>4. rgba = Channels(rect, 4, Rgba)
    BY <2>1, <2>2, <2>3
  <2>5. PictureIsReproduced'
    <3>1. cursor' = [data |-> Channels(rect', 4, Rgba),
                     size |-> <<rect'.width, rect'.height>>,
                     hotspot |-> <<rect'.x, rect'.y>>]
      BY <1>2, <1>5, <2>4
    <3>2. fb' = before' /\ rect'.method = "cursor"
      BY <1>2, <1>5, <2>1
    <3> QED BY <3>1, <3>2 DEF PictureIsReproduced
  <2> QED BY <1>1, <1>2, <2>5 DEF IInv
<1>6. CASE rect.method # "cursor"
  <2>1. fb = [p \in DOMAIN before |-> Progress(p)]
    BY <1>1, <1>6 DEF LoopInv
  <2>2. ASSUME NEW p \in DOMAIN before
        PROVE  Progress(p) = LET column == p % FbWidth  row == p \div FbWidth
                             IN  IF Covers(rect, column, row)
                                 THEN SubSeq(Bgrx(rect.picture[<<column - rect.x, row - rect.y>>]), 1, 3)
                                 ELSE before[p]
    <3> DEFINE column == p % FbWidth
               row == p \div FbWidth
    <3>1. column \in Nat /\ row \in Nat
      BY <1>1, Located
    <3>2. Covers(rect, column, row) => Done(column - rect.x, row - rect.y)
      <4> HIDE DEF column, row
      <4>1. /\ rect.x \in Nat /\ rect.y \in Nat
        BY <1>3 DEF Proper
      <4>2. Covers(rect, column, row) => row - rect.y < rect.height
        BY <1>4, <3>1, <4>1 DEF Covers
      <4> QED BY <1>4, <4>2 DEF Done
    <3>3. Progress(p) = IF Covers(rect, column, row) /\ Done(column - rect.x, row - rect.y)
                        THEN SubSeq(Bgrx(rect.picture[<<column - rect.x, row - rect.y>>]), 1, 3)
                        ELSE before[p]
      BY DEF Progress
    <3> QED BY <3>2, <3>3
  <2>3. fb = Painted(rect, before)
    BY <2>1, <2>2 DEF Painted, Covers
  <2>4. PictureIsReproduced'
    <3>1. fb' = Painted(rect', before') /\ rect'.method # "cursor"
      BY <1>2, <1>6, <2>3
    <3> QED BY <3>1 DEF PictureIsReproduced
  <2> QED BY <1>1, <1>2, <2>4 DEF IInv
<1> QED BY <1>5, <1>6

(* A rectangle is sent.                                                    *)
LEMMA SendStep ==
  ASSUME IInv, NEW r \in Rectangles, SendRectangle(r)
  PROVE  IInv'
<1>1. /\ rects \in Nat
      /\ DOMAIN fb = 0 .. FbWidth * FbHeight - 1
      /\ fb = [p \in DOMAIN fb |-> fb[p]]
  BY DEF IInv
<1>2. /\ step' = "reading" /\ rect' = r /\ before' = fb /\ fb' = fb
      /\ wire' = Encoded(r) /\ rects' = rects + 1
  BY DEF SendRectangle
<1>3. PictureIsReproduced'
  BY <1>2 DEF PictureIsReproduced
<1> QED BY <1>1, <1>2, <1>3 DEF IInv

(* The invariant holds at first.                                           *)
LEMMA InitInv == Init => IInv
<1> SUFFICES ASSUME Init PROVE IInv
  OBVIOUS
<1>1. /\ step = "idle" /\ rects = 0
      /\ fb = [p \in 0 .. FbWidth * FbHeight - 1 |-> Gray] /\ before = fb
  BY DEF Init
<1>2. PictureIsReproduced
  BY <1>1 DEF PictureIsReproduced
<1> QED BY <1>1, <1>2 DEF IInv

(* Every step preserves it.                                                *)
LEMMA StepInv == IInv /\ [Next]_vars => IInv'
<1> SUFFICES ASSUME IInv, [Next]_vars PROVE IInv'
  OBVIOUS
<1>1. CASE UNCHANGED vars
  <2>1. /\ step' = step /\ rects' = rects /\ rect' = rect /\ before' = before
        /\ wire' = wire /\ job' = job /\ x' = x /\ y' = y /\ i' = i
        /\ bits' = bits /\ fb' = fb /\ rgba' = rgba /\ cursor' = cursor
    BY <1>1 DEF vars, readVars
  <2>2. PictureIsReproduced'
    BY <2>1 DEF IInv, PictureIsReproduced
  <2>3. JobInv => JobInv'
    BY <2>1 DEF JobInv
  <2>4. Count' = Count /\ RowBits' = RowBits
    BY <2>1 DEF Count, RowBits
  <2>5. Indices => Indices'
    BY <2>1, <2>4 DEF Indices
  <2>6. \A p : Progress(p)' = Progress(p)
    BY <2>1 DEF Progress, Done
  <2>7. LoopInv => LoopInv'
    BY <2>1, <2>5, <2>6 DEF LoopInv
  <2> QED BY <2>1, <2>2, <2>3, <2>7 DEF IInv
<1>2. ASSUME NEW r \in Rectangles, SendRectangle(r) PROVE IInv'
  BY <1>2, SendStep
<1>3. CASE ReadRectangle
  BY <1>3, ReadStep
<1>4. CASE BeginDecode
  BY <1>4, BeginStep
<1>5. CASE Fill
  BY <1>5, FillStep
<1>6. CASE RawBgra
  BY <1>6, RawStep
<1>7. CASE CopyFilter
  BY <1>7, CopyStep
<1>8. CASE PaletteFilter
  BY <1>8, PaletteStep
<1>9. CASE JpegLine
  BY <1>9, JpegStep
<1>10. CASE CursorBgrx
  BY <1>10, CursorStep
<1>11. CASE EndDecode
  BY <1>11, EndStep
<1> QED BY <1>1, <1>2, <1>3, <1>4, <1>5, <1>6, <1>7, <1>8, <1>9, <1>10, <1>11
        DEF Next, Decode

(* Inside a row there is one more bit.                                     *)
LEMMA OneMoreBit ==
  ASSUME NEW r, Proper(r), NEW c \in 0 .. r.width - 1, NEW l \in 0 .. r.height - 1,
         NEW b, NEW d, d = PackedRows(r), BitsAt(b, d, Stride(r.width), c, l)
  PROVE  ~ BitsEnd(b, d)
<1>1. PICK after : after = AfterBit(b, PackedRows(r))
  OBVIOUS
<1>2. BitsAt(b, PackedRows(r), Stride(r.width), c, l)
  OBVIOUS
<1>3. ~ BitsEnd(b, PackedRows(r))
  BY <1>1, <1>2, NextBit
<1> QED BY <1>3

(* The loops find all the data they take.                                  *)
LEMMA NoOverrun == IInv => ~ Overrun
<1> SUFFICES ASSUME IInv PROVE ~ Overrun
  OBVIOUS
<1>1. ASSUME NEW method, InLoop(method)
      PROVE  /\ Proper(rect) /\ JobInv /\ LoopInv /\ rect.method = method
             /\ x \in 0 .. rect.width - 1 /\ y \in 0 .. rect.height - 1
             /\ Count \in 0 .. Area(rect) - 1 /\ Area(rect) \in Nat
  <2>1. /\ Proper(rect) /\ JobInv /\ LoopInv /\ rect.method = method
        /\ x \in 0 .. rect.width - 1 /\ y \in 0 .. rect.height - 1
    BY <1>1, InsideLoop
  <2>2. Count \in 0 .. Area(rect) - 1 /\ Area(rect) \in Nat
    BY <2>1, Places DEF Count
  <2> QED BY <2>1, <2>2
<1>2. ASSUME InLoop("raw") \/ InLoop("cursor") PROVE ~ (4 * i + 3 > Len(job.data))
  <2>1. /\ Proper(rect) /\ LoopInv /\ rect.method \in {"raw", "cursor"}
        /\ Count \in 0 .. Area(rect) - 1 /\ Area(rect) \in Nat
    BY <1>1, <1>2
  <2>2. PICK d, n : d = job.data /\ n = Count
    OBVIOUS
  <2>3. i = n /\ d = Channels(rect, 4, Bgrx)
    BY <2>1, <2>2 DEF LoopInv, Indices, Bytes
  <2>4. HasLength(d, Area(rect) * 4) /\ Area(rect) * 4 \in Nat /\ 4 * n + 3 <= Area(rect) * 4
    BY <2>1, <2>2, <2>3, BgrxChannels
  <2>5. Len(d) = Area(rect) * 4
    BY <2>4, ReadAll
  <2> QED BY <2>1, <2>2, <2>3, <2>4, <2>5
<1>3. ASSUME InLoop("copy") PROVE ~ (i + 3 > Len(job.data))
  <2>1. /\ Proper(rect) /\ LoopInv /\ rect.method = "copy"
        /\ Count \in 0 .. Area(rect) - 1 /\ Area(rect) \in Nat
    BY <1>1, <1>3
  <2>2. PICK d, n : d = job.data /\ n = Count
    OBVIOUS
  <2>3. i = 3 * n /\ d = Channels(rect, 3, Tpixel)
    BY <2>1, <2>2 DEF LoopInv, Indices, Bytes
  <2>4. HasLength(d, Area(rect) * 3) /\ Area(rect) * 3 \in Nat /\ 3 * n + 3 <= Area(rect) * 3
    BY <2>1, <2>2, <2>3, TpixelChannels
  <2>5. Len(d) = Area(rect) * 3
    BY <2>4, ReadAll
  <2> QED BY <2>1, <2>2, <2>3, <2>4, <2>5
<1>4. ASSUME InLoop("palette")
      PROVE  ~ IF TwoColors THEN BitsEnd(RowBits, job.data) ELSE i >= Len(job.data)
  <2>1. /\ Proper(rect) /\ JobInv /\ LoopInv /\ rect.method = "palette"
        /\ x \in 0 .. rect.width - 1 /\ y \in 0 .. rect.height - 1
        /\ Count \in 0 .. Area(rect) - 1 /\ Area(rect) \in Nat
    BY <1>1, <1>4
  <2>2. TwoColors <=> rect.palette = 2
    <3>1. PICK c, m : c = job.colors /\ m = rect.palette
      OBVIOUS
    <3>2. m \in Nat
      <4>1. m \in 1 .. Len(Colors)
        BY <2>1, <3>1 DEF Proper
      <4> QED BY <4>1
    <3>3. c = [k \in 1 .. m |-> Tpixel(k)]
      BY <2>1, <3>1 DEF JobInv
    <3>4. Len(c) = m
      BY <3>2, <3>3
    <3> QED BY <3>1, <3>4 DEF TwoColors
  <2>3. CASE rect.palette = 2
    <3>1. /\ job.data = PackedRows(rect)
          /\ BitsAt(RowBits, job.data, Stride(rect.width), x, y)
      BY <2>1, <2>3 DEF LoopInv, Indices, Bytes
    <3>2. PICK bb, d : bb = RowBits /\ d = job.data
      OBVIOUS
    <3>3. ~ BitsEnd(bb, d)
      BY <2>1, <3>1, <3>2, OneMoreBit
    <3> QED BY <2>2, <2>3, <3>2, <3>3
  <2>4. CASE rect.palette # 2
    <3>1. i = Count /\ job.data = [k \in 1 .. Area(rect) |-> Nth(rect, k - 1) - 1]
      BY <2>1, <2>4 DEF LoopInv, Indices, Bytes
    <3>2. Len(job.data) = Area(rect)
      BY <2>1, <3>1
    <3> QED BY <2>1, <2>2, <2>4, <3>1, <3>2
  <2> QED BY <2>3, <2>4
<1>5. ASSUME InLoop("cursor") PROVE ~ BitsEnd(bits, job.mask)
  <2>1. /\ Proper(rect) /\ JobInv /\ LoopInv /\ rect.method = "cursor"
        /\ x \in 0 .. rect.width - 1 /\ y \in 0 .. rect.height - 1
    BY <1>1, <1>5
  <2>2. /\ job.mask = PackedRows(rect)
        /\ BitsAt(bits, job.mask, Stride(rect.width), x, y)
    BY <2>1 DEF LoopInv, Indices, JobInv
  <2>3. PICK b, d : b = bits /\ d = job.mask
    OBVIOUS
  <2>4. ~ BitsEnd(b, d)
    BY <2>1, <2>2, <2>3, OneMoreBit
  <2> QED BY <2>3, <2>4
<1> QED BY <1>2, <1>3, <1>4, <1>5 DEF Overrun

-----------------------------------------------------------------------------
(* Theorems                                                                *)

(* The invariant holds of every behavior.                                 *)
LEMMA Invariance == Spec => []IInv
<1> QED BY InitInv, StepInv, PTL DEF Spec

(* handle_rectangle (src/client/src/lib.rs) takes exactly the bytes the    *)
(* server sent for a rectangle: it neither waits for bytes that never come *)
(* nor takes the next packet's for data, whatever the encoding, the size   *)
(* of a byte and of the rectangle are.                                     *)
THEOREM ReaderNeverStarves == Spec => []ReaderStaysInStep
<1>1. IInv => ReaderStaysInStep
  BY DEF IInv, ReaderStaysInStep
<1> QED BY <1>1, Invariance, PTL

(* No loop of decode() indexes behind the data that the reader read for it,*)
(* nor a BitBuffer behind its bits.                                        *)
THEOREM LoopsFindTheirData == Spec => []SizesAgree
<1>1. IInv => SizesAgree
  BY NoOverrun DEF SizesAgree
<1> QED BY <1>1, Invariance, PTL

(* A decoded rectangle is in the framebuffer as the server meant it, with  *)
(* its colors and at its place, and no other pixel has changed; a decoded  *)
(* cursor has its pixels, its transparency, its size and its hotspot.      *)
THEOREM DecodingInvertsEncoding == Spec => []PictureIsReproduced
<1>1. IInv => PictureIsReproduced
  BY DEF IInv
<1> QED BY <1>1, Invariance, PTL
=============================================================================
