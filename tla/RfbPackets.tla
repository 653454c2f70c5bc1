----------------------------- MODULE RfbPackets -----------------------------
(***************************************************************************)
(* The packets that a server sends, src/protocol/rfb.rs, built from the    *)
(* combinators of Parsing.  A packet! is the tuple of its fields, in their *)
(* order and with the ignored ones; a meta_packet! an Opt of variants, a   *)
(* tagged_meta_packet! a Tagged one.                                       *)
(***************************************************************************)
EXTENDS Parsing

SecNone == 1
SecVnc == 2
SecTight == 16
SecurityTypeCodes == {SecNone, SecVnc, SecTight}

(* The letters of a text do not matter; its length and its encoding do.    *)
Letters(n, letter) == [i \in 1 .. n |-> letter]
Version38 == Letters(12, 82)

ProtocolVersion == Pred(Utf8(12), {Version38})
ErrorReason == Dep(U32, Text)

SecurityTypesArray == Dep(NonZero(U8), Array(Pred(U8, SecurityTypeCodes)))
SecurityTypes ==
  Opt(<<Variant("SecurityTypesArray", SecurityTypesArray),
        ConstPrefix(U8, 0, Variant("ErrorReason", ErrorReason))>>)
SecurityResult ==
  Opt(<<Variant("Ok", Literal(U32, 0)),
        ConstPrefix(U32, 1, Variant("Failed", ErrorReason))>>)

PixelFormat == Tuple(<<U8, U8, Bool, Bool, U16, U16, U16, U8, U8, U8, Ignored(3)>>)
ServerInit == Tuple(<<U16, U16, PixelFormat, Dep(U32, Text)>>)

TPixel == Tuple(<<U8, U8, U8>>)

(* The control byte of the Tight encoding tells its methods apart.         *)
TightJpeg == Tuple(<<Pred(U8, 144 .. 159), CompactLength>>)
TightFill == Pred(U8, 128 .. 143)
PaletteFilter ==
  Conv(U8, [n \in Byte |-> n + 1], [n \in 1 .. 256 |-> n - 1])
TightFilter ==
  Tagged(U8, [i \in 0 .. 2 |->
    CASE i = 0 -> Variant("CopyFilter", Ignored(0))
      [] i = 1 -> Variant("PaletteFilter", PaletteFilter)
      [] i = 2 -> Variant("GradientFilter", Ignored(0))])
TightBasicFilterId == Tuple(<<Pred(U8, 64 .. 127), TightFilter>>)
TightBasicNoFilterId == Pred(U8, 0 .. 63)
TightMethod ==
  Opt(<<Variant("Jpeg", TightJpeg), Variant("Fill", TightFill),
        Variant("Basic", TightBasicFilterId),
        Variant("BasicNoFilterId", TightBasicNoFilterId)>>)
TightRectangle == Tuple(<<ZeroLen(U8), TightMethod>>)

Screen == Tuple(<<U32, U16, U16, U16, U16, U32>>)
ScreenCount == Conv(Tuple(<<U8, Ignored(3)>>),
                    [pair \in Byte \X {Nothing} |-> pair[1]],
                    [n \in Byte |-> <<n, Nothing>>])
Encodings == {0, 7, -223, -239, -308, -224}
RectanglePayload ==
  Tagged(I32, [e \in Encodings |->
    CASE e = 0    -> Variant("Raw", Ignored(0))
      [] e = 7    -> Variant("Tight", TightRectangle)
      [] e = -223 -> Variant("DesktopSize", Ignored(0))
      [] e = -239 -> Variant("Cursor", Ignored(0))
      [] e = -308 -> Variant("ExtendedDesktopSize", Dep(ScreenCount, Array(Screen)))
      [] e = -224 -> Variant("Last", Ignored(0))])
Rectangle == Tuple(<<U16, U16, U16, U16, RectanglePayload>>)

Fence == Tuple(<<Ignored(3), U32, Dep(U8, Array(U8))>>)
FramebufferUpdate == Tuple(<<Ignored(1), U16>>)
ServerCutText == Tuple(<<Ignored(3), Dep(U32, Text)>>)
ServerToClient ==
  Tagged(U8, [m \in {0, 2, 3, 150, 248} |->
    CASE m = 0   -> Variant("FramebufferUpdate", FramebufferUpdate)
      [] m = 2   -> Variant("Bell", Ignored(0))
      [] m = 3   -> Variant("ServerCutText", ServerCutText)
      [] m = 150 -> Variant("EndOfContinuousUpdates", Ignored(0))
      [] m = 248 -> Variant("Fence", Fence)])
=============================================================================
