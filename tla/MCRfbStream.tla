---------------------------- MODULE MCRfbStream ----------------------------
EXTENDS RfbStream

Item(packet, value) == [packet |-> packet, value |-> value, data |-> <<>>]
NoPacket(bytes) == [packet |-> "none", value |-> <<>>, data |-> bytes]
Variants(type, bodies) == {[type |-> type, body |-> b] : b \in bodies}

Versions == {Item("ProtocolVersion", Letters(12, letter)) : letter \in {82, 83}}
Reasons == {<<>>, <<71, 1>>, <<200>>}
Types == {Item("SecurityTypes", v) : v \in
           Variants("SecurityTypesArray", {<<1>>, <<16, 1>>, <<2>>, <<9, 1>>, <<2, 16, 1, 1>>})
           \cup Variants("ErrorReason", Reasons)}
Results == {Item("SecurityResult", v) : v \in
             Variants("Ok", {Nothing}) \cup Variants("Failed", Reasons)}
           \cup {NoPacket(<<0, 0, 0, 2>>)}
Format == <<32, 24, FALSE, TRUE, 255, 255, 255, 16, 8, 0, Nothing>>
Inits == {Item("ServerInit", <<300, 2, Format, name>>) : name \in Reasons}
Accepted == Item("SecurityResult", [type |-> "Ok", body |-> Nothing])
Offers == {t \in Types : t.value.type = "SecurityTypesArray" /\ t.value.body # <<9, 1>>}
Handshakes ==
  {<<v>> : v \in Versions}
  \cup {<<Item("ProtocolVersion", Version38), t, Accepted>> : t \in Types}
  \cup {<<Item("ProtocolVersion", Version38), t, r, i>> :
         t \in Offers, r \in Results, i \in Inits}

-----------------------------------------------------------------------------
Welcome == <<Item("ProtocolVersion", Version38),
             Item("SecurityTypes", [type |-> "SecurityTypesArray", body |-> <<1>>]),
             Accepted,
             Item("ServerInit", <<2, 1, Format, <<>>>>)>>

Count(n) == Item("ServerToClient", [type |-> "FramebufferUpdate", body |-> <<Nothing, n>>])
Other == {Item("ServerToClient", m) : m \in
            Variants("Bell", {Nothing}) \cup Variants("EndOfContinuousUpdates", {Nothing})
            \cup Variants("ServerCutText", {<<Nothing, <<72, 73>>>>, <<Nothing, <<72, 200>>>>})
            \cup Variants("Fence", {<<Nothing, 3, <<5, 0, 1>>>>})}
         \cup {NoPacket(<<7>>)}

(* Bytes that tell their places apart; zlib data of n bytes and its length.*)
Data(n) == [i \in 1 .. n |-> i % 120]
Zlib(n) == Write(CompactLength, n, <<>>).out \o Data(n)
Rect(w, h, payload, data) ==
  [packet |-> "Rectangle", value |-> <<0, 0, w, h, payload>>, data |-> data]
Tight(w, h, control, type, body, data) ==
  Rect(w, h, [type |-> "Tight", body |-> <<control, [type |-> type, body |-> body]>>], data)
Filter(type, body) == [type |-> type, body |-> body]

LastRect == Rect(0, 0, [type |-> "Last", body |-> Nothing], <<>>)
Rects == {
  Rect(2, 1, [type |-> "Raw", body |-> Nothing], Data(8)),
  Rect(9, 1, [type |-> "Cursor", body |-> Nothing], Data(36) \o Data(2)),
  Rect(3, 3, [type |-> "DesktopSize", body |-> Nothing], <<>>),
  Rect(3, 3, [type |-> "ExtendedDesktopSize", body |-> << <<1, 0, 0, 3, 3, 0>> >>], <<>>),
  Tight(2, 1, 129, "Fill", 129, Data(3)),
  Tight(2, 1, 144, "Jpeg", <<144, 5>>, Data(5)),
  Tight(2, 1, 150, "Jpeg", <<150, 130>>, Data(130)),
  Tight(3, 1, 1, "BasicNoFilterId", 1, Data(9)),
  Tight(2, 2, 2, "BasicNoFilterId", 2, Zlib(4)),
  Tight(9, 1, 64, "Basic", <<64, Filter("PaletteFilter", 2)>>, Data(6) \o Data(2)),
  Tight(6, 2, 80, "Basic", <<80, Filter("PaletteFilter", 3)>>, Data(9) \o Zlib(3)),
  Tight(1, 1, 64, "Basic", <<64, Filter("CopyFilter", Nothing)>>, Data(3))}

(* An update ends early with a last rectangle, or with its count.          *)
Updates == {Welcome \o <<Count(3), r, LastRect, Count(0)>> : r \in Rects}
           \cup {Welcome \o <<Count(2), LastRect, o, Count(1), LastRect>> : o \in Other}

AllScripts == Handshakes \cup Updates
=============================================================================
