------------------------------ MODULE Parsing ------------------------------
(***************************************************************************)
(* The parser combinators of src/protocol/parsing: a parser is a record    *)
(* that says what it is made of; Parse interprets it on an input and Write *)
(* on a value.  A value is a number, a text (its bytes), a sequence of     *)
(* values or, where a packet has variants, a record [type, body].          *)
(*                                                                         *)
(* All inputs of one packet share one buffer.  What matters here is that   *)
(* its length is set before the bytes arrive: when they do not, the buffer *)
(* claims bytes that are left from an earlier packet, or that nobody ever  *)
(* wrote.                                                                  *)
(***************************************************************************)
EXTENDS Integers, Sequences

Byte == 0 .. 255
Nothing == <<>>  \* the value ()

(* An input is a position in io: [mem, len, junk, net, ending], the memory *)
(* behind the shared buffer, the buffer's length, what memory holds that   *)
(* nobody wrote, the bytes that still arrive, and how the socket tells     *)
(* that no more do: the stream ends, or the connection was reset.          *)
Success(value, at, io) == [ok |-> TRUE, value |-> value, at |-> at, io |-> io]
Failure(error, at, io) == [ok |-> FALSE, error |-> error, at |-> at, io |-> io]
Map(r, f(_)) == IF r.ok THEN [r EXCEPT !.value = f(@)] ELSE r

(* How many bytes arrive when the buffer is to have len of them.           *)
Arriving(io, len) ==
  IF Len(io.net) < len - io.len THEN Len(io.net) ELSE len - io.len

(* Memory mem with bytes stored behind position at.                        *)
Store(mem, at, bytes) ==
  SubSeq(mem, 1, at) \o bytes \o SubSeq(mem, at + Len(bytes) + 1, Len(mem))

(* reserve, set_len and read_exact, which stores what comes before the     *)
(* stream ends.                                                            *)
Grow(io, len, arriving) ==
  LET unwritten == [i \in {i \in 1 .. len : i + Len(io.mem) <= len} |-> io.junk]
  IN [io EXCEPT !.len = len, !.net = SubSeq(@, arriving + 1, Len(@)),
        !.mem = Store(@ \o unwritten, io.len, SubSeq(io.net, 1, arriving))]

(* The bytes of the buffer from position at on, when it has len of them.   *)
Slice(io, at, len) == Success(SubSeq(io.mem, at + 1, len), len, io)

(* How read_exact fails, an error of std::io.  The socket reports a reset  *)
(* once and is at its end from then on.                                    *)
Endings == {"UnexpectedEof", "ConnectionReset"}
EndOfInput(at, io) == Failure(io.ending, at, [io EXCEPT !.ending = "UnexpectedEof"])

(* IoInput::read: n bytes from position at on, received as far as needed.  *)
Read(io, at, n) ==
  LET arriving == Arriving(io, at + n)
      grown == Grow(io, at + n, arriving)
  IN IF at + n <= io.len THEN Slice(io, at, at + n)
     ELSE IF arriving < at + n - io.len THEN EndOfInput(at, grown)
     ELSE Slice(grown, at, at + n)

-----------------------------------------------------------------------------
(* The combinators.  A leaf reads bytes.  Every other parser has a first   *)
(* parser p and most have a second one that goes on after it: Tuple (a     *)
(* nest of seq), ConstPrefix, Dep (whose first one counts the items of the *)
(* second) and Tagged.  Opt, a nest of opt, goes on if the first one fails.*)
(* Pred takes the set of values that its function accepts, Conv the two    *)
(* functions.                                                              *)
Ignored(n) == [kind |-> "ignored", len |-> n]
Unsigned(width) == [kind |-> "unsigned", width |-> width]
Signed(width) == [kind |-> "signed", width |-> width]
Utf8(n) == [kind |-> "utf8", len |-> n]
CompactLength == [kind |-> "compact"]
Leaves == {"ignored", "unsigned", "signed", "utf8", "compact"}

Tuple(ps) == IF ps = <<>> THEN Ignored(0)
             ELSE [kind |-> "tuple", p |-> Head(ps), rest |-> Tail(ps)]
ConstPrefix(p, c, suffix) ==
  [kind |-> "prefix", p |-> [kind |-> "pred", p |-> p, allowed |-> {c}],
   const |-> c, suffix |-> suffix]
Dep(p, body) == [kind |-> "dep", p |-> p, body |-> body]
Tagged(tag, variants) == [kind |-> "tagged", p |-> tag, variants |-> variants]
Opt(ps) == [kind |-> "opt", p |-> Head(ps), rest |-> Tail(ps)]

Conv(p, f, back) == [kind |-> "conv", p |-> p, f |-> f, back |-> back]
Pred(p, allowed) == [kind |-> "pred", p |-> p, allowed |-> allowed]
ZeroLen(p) == [kind |-> "zerolen", p |-> p]
Variant(name, p) == [kind |-> "variant", name |-> name, p |-> p]

U8 == Unsigned(1)
U16 == Unsigned(2)
U32 == Unsigned(4)
I32 == Signed(4)
Bool == Conv(U8, [n \in Byte |-> n > 0],
                 [b \in BOOLEAN |-> IF b THEN 1 ELSE 0])
NonZero(p) == Pred(p, 1 .. 255)
Literal(p, c) == ConstPrefix(p, c, Ignored(0))

(* Text and Array are the parameterized parsers: Dep gives their length.   *)
Text == [kind |-> "text"]
Array(item) == [kind |-> "array", item |-> item]
WithParams(body, n) ==
  IF body.kind = "text" THEN Utf8(n) ELSE Tuple([i \in 1 .. n |-> body.item])

(* The second parser of p when the value of the first one is x.            *)
GoesOn(p) == p.kind \in {"tuple", "prefix", "dep", "tagged"}
Second(p, x) ==
  CASE p.kind = "tuple"  -> Tuple(p.rest)
    [] p.kind = "prefix" -> p.suffix
    [] p.kind = "dep"    -> WithParams(p.body, x)
    [] p.kind = "tagged" -> p.variants[x]

-----------------------------------------------------------------------------
(* Big-endian numbers; a signed one is negative if its first byte is.      *)
RECURSIVE BigEndian(_)
BigEndian(bytes) ==
  IF bytes = <<>> THEN 0
  ELSE bytes[Len(bytes)] + 256 * BigEndian(SubSeq(bytes, 1, Len(bytes) - 1))
Sign(bytes) ==
  BigEndian(IF bytes[1] < 128 THEN bytes ELSE [bytes EXCEPT ![1] = @ - 256])
(* A number that is too large loses its first bytes.                       *)
Digits(n, width) == [i \in 1 .. width |-> (n \div 256^(width - i)) % 256]

(* CompactLength: up to three bytes, seven bits in each of the first two.  *)
RECURSIVE ReadCompact(_, _, _, _), AfterDigit(_, _, _)
ReadCompact(i, sum, at, io) == AfterDigit(i, sum, Read(io, at, 1))
AfterDigit(i, sum, r) ==
  IF ~r.ok THEN r
  ELSE IF i = 2 THEN [r EXCEPT !.value = sum + 128^2 * @[1]]
  ELSE IF r.value[1] < 128 THEN [r EXCEPT !.value = sum + 128^i * @[1]]
  ELSE ReadCompact(i + 1, sum + 128^i * (r.value[1] % 128), r.at, r.io)
CompactBytes(n) ==
  CASE n <= 127 -> <<n>>
    [] n \in 128 .. 16383 -> <<(n % 128) + 128, n \div 128>>
    [] OTHER -> <<(n % 128) + 128, ((n \div 128) % 128) + 128, n \div 16384>>

(* A byte above 127 stands for a text that is not UTF-8.                   *)
CheckUtf8(at, r) ==
  IF r.ok /\ \E i \in DOMAIN r.value : r.value[i] > 127
  THEN Failure("EncodingError", at, r.io) ELSE r

ParseLeaf(p, at, io) ==
  CASE p.kind = "ignored"  -> Map(Read(io, at, p.len), LAMBDA bytes : Nothing)
    [] p.kind = "unsigned" -> Map(Read(io, at, p.width), BigEndian)
    [] p.kind = "signed"   -> Map(Read(io, at, p.width), Sign)
    [] p.kind = "compact"  -> ReadCompact(0, 0, at, io)
    [] p.kind = "utf8"     -> CheckUtf8(at, Read(io, at, p.len))

(* What p makes of the success r of its only, or of its last, parser; it   *)
(* began at position at.                                                   *)
Finish(p, at, r) ==
  CASE p.kind = "conv"    -> [r EXCEPT !.value = p.f[@]]
    [] p.kind = "pred"    -> IF r.value \in p.allowed THEN r
                             ELSE Failure("PredicateFailed", at, r.io)
    [] p.kind = "zerolen" -> [r EXCEPT !.at = at]
    [] p.kind = "variant" -> [r EXCEPT !.value = [type |-> p.name, body |-> @]]
    [] OTHER -> r

(* Any error of an alternative, also the end of the stream, leads to the   *)
(* next one, at the same position of the same buffer.                      *)
RECURSIVE Parse(_, _, _), AfterFirst(_, _, _)
Parse(p, at, io) ==
  IF p.kind \in Leaves THEN ParseLeaf(p, at, io)
  ELSE AfterFirst(p, at, Parse(p.p, at, io))
AfterFirst(p, at, r) ==
  LET alternative == ~r.ok /\ p.kind = "opt" /\ p.rest # <<>>
      unknown == r.ok /\ p.kind = "tagged" /\ r.value \notin DOMAIN p.variants
  IN IF unknown THEN Failure("InvalidDiscriminator", at, r.io)
     ELSE IF alternative \/ (r.ok /\ GoesOn(p))
     THEN Map(Parse(IF alternative THEN Opt(p.rest) ELSE Second(p, r.value),
                    IF alternative THEN at ELSE r.at, r.io),
              LAMBDA v : IF p.kind = "tuple" THEN <<r.value>> \o v ELSE v)
     ELSE IF r.ok THEN Finish(p, at, r) ELSE r

-----------------------------------------------------------------------------
(* Writing appends to what was written; an alternative that fails leaves   *)
(* what it wrote so far.                                                   *)
Written(out) == [ok |-> TRUE, out |-> out]
Unwritten(out) == [ok |-> FALSE, out |-> out]

WriteLeaf(p, v, out) ==
  CASE p.kind = "ignored" -> Written(out \o [i \in 1 .. p.len |-> 0])
    [] p.kind \in {"unsigned", "signed"} -> Written(out \o Digits(v, p.width))
    [] p.kind = "utf8"    -> Written(out \o v)
    [] p.kind = "compact" ->
         IF v > 4194303 THEN Unwritten(out) ELSE Written(out \o CompactBytes(v))

(* The part of value v that the first parser of p writes.                  *)
FirstPart(p, v) ==
  CASE p.kind = "tuple"   -> Head(v)
    [] p.kind = "prefix"  -> p.const
    [] p.kind = "dep"     -> Len(v)
    [] p.kind = "tagged"  ->
         CHOOSE t \in DOMAIN p.variants : p.variants[t].name = v.type
    [] p.kind = "conv"    -> p.back[v]
    [] p.kind = "variant" -> v.body
    [] OTHER -> v

RECURSIVE Write(_, _, _), WriteSecond(_, _, _)
Write(p, v, out) ==
  IF p.kind \in Leaves THEN WriteLeaf(p, v, out)
  ELSE IF p.kind = "zerolen" THEN Written(out)
  ELSE IF p.kind = "variant" /\ v.type # p.name THEN Unwritten(out)
  ELSE WriteSecond(p, v, Write(p.p, FirstPart(p, v), out))
WriteSecond(p, v, w) ==
  LET alternative == ~w.ok /\ p.kind = "opt" /\ p.rest # <<>>
  IN IF alternative \/ (w.ok /\ GoesOn(p))
     THEN Write(IF alternative THEN Opt(p.rest) ELSE Second(p, FirstPart(p, v)),
                IF p.kind = "tuple" THEN Tail(v) ELSE v, w.out)
     ELSE w
=============================================================================
