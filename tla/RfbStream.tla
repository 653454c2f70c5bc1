----------------------------- MODULE RfbStream -----------------------------
(***************************************************************************)
(* The connection as the reader sees it, src/lib.rs: setup() and the       *)
(* packets and bytes that the main part and handle_rectangle take from the *)
(* socket.  The server writes a script of packets; after any byte it       *)
(* closes the connection, or the connection is reset.  What the packets cause is the matter of *)
(* FramePipeline and RfbWriteEnd; here the question is whether the client  *)
(* takes the packets that the server sent.                                 *)
(***************************************************************************)
EXTENDS RfbPackets

CONSTANTS
  Scripts,  \* what servers send: sequences of [packet, value, data], data
            \* being the bytes that follow a rectangle's packet
  Junk,     \* bytes that memory may hold that nobody wrote
  Faults    \* may writing to the server fail?

Replies == {"ProtocolVersion", "SecurityResponse", "ClientInit",
            "SetEncodings", "SetPixelFormat"}

ParserOf == [ProtocolVersion |-> ProtocolVersion, SecurityTypes |-> SecurityTypes,
             SecurityResult |-> SecurityResult, ServerInit |-> ServerInit,
             ServerToClient |-> ServerToClient, Rectangle |-> Rectangle]
Packets == DOMAIN ParserOf

(* What travels for an item of a script.  An item without a packet is      *)
(* bytes that are none.                                                    *)
Encoded(item) ==
  (IF item.packet \in Packets
   THEN Write(ParserOf[item.packet], item.value, <<>>).out ELSE <<>>) \o item.data
RECURSIVE Bytes(_)
Bytes(items) ==
  IF items = <<>> THEN <<>> ELSE Encoded(Head(items)) \o Bytes(Tail(items))

ASSUME StreamAssumption ==
  /\ Junk \subseteq Byte
  /\ Faults \in BOOLEAN
  /\ \A s \in Scripts : Bytes(s) \in Seq(Byte)

VARIABLES
  script, cut,  \* what the server means to send, and the bytes of it it sends
  ending,       \* how the connection ends after them
  io,           \* the socket and the buffer shared by all packets
  expects,      \* the packet that the reader takes next
  rects,        \* rectangles left of the FramebufferUpdate
  log,          \* packets taken, as in a script
  sent,         \* packets the client has sent
  outcome       \* the error that ended the connection

vars == <<script, cut, ending, io, expects, rects, log, sent, outcome>>

Outcomes == {"none", "broken", "io", "parse", "write", "refused", "panic"}

TypeOK ==
  /\ io.len \in 0 .. Len(io.mem)
  /\ io.mem \in Seq(Byte) /\ io.net \in Seq(Byte)
  /\ {ending, io.ending} \subseteq Endings
  /\ expects \in Packets
  /\ rects \in Nat
  /\ sent \in Seq(Replies)
  /\ outcome \in Outcomes

Init ==
  \E s \in Scripts, junk \in Junk :
    \E c \in 0 .. Len(Bytes(s)) :
      /\ script = s /\ cut = c
      /\ ending \in Endings
      /\ io = [mem |-> <<>>, len |-> 0, junk |-> junk, net |-> SubSeq(Bytes(s), 1, c),
               ending |-> ending]
      /\ expects = "ProtocolVersion"
      /\ rects = 0 /\ log = <<>> /\ sent = <<>> /\ outcome = "none"

-----------------------------------------------------------------------------
\* Mistake: set_len(0) is missing.
IoParseWithoutClearing(p, i) == Parse(p, 0, i)

(* io_parse starts with an empty buffer, whose memory it keeps.            *)
IoParse(p, i) == Parse(p, 0, [i EXCEPT !.len = 0])

(* The end of the stream is a broken connection, but only if the parser's  *)
(* last error tells of it; any other error, a reset as well, is reported   *)
(* as one at a position of the packet.                                     *)
ErrorOf(r) == IF r.error = "UnexpectedEof" THEN "broken" ELSE "parse"

(* read_bytes reads into memory of its own.                                *)
ReadBytes(n, i) ==
  IF n > Len(i.net) THEN Failure("io", 0, [i EXCEPT !.net = <<>>, !.ending = "UnexpectedEof"])
  ELSE Success(SubSeq(i.net, 1, n), 0, [i EXCEPT !.net = SubSeq(@, n + 1, Len(@))])

\* Mistake: 12 bytes count as too few to compress.
ReadZlibDataOffByOne(n, i) ==
  IF n <= 12 THEN ReadBytes(n, i)
  ELSE LET r == IoParse(CompactLength, i)
       IN IF r.ok THEN ReadBytes(r.value, r.io) ELSE Failure(ErrorOf(r), 0, r.io)

ReadZlibData(n, i) ==
  IF n < 12 THEN ReadBytes(n, i)
  ELSE LET r == IoParse(CompactLength, i)
       IN IF r.ok THEN ReadBytes(r.value, r.io) ELSE Failure(ErrorOf(r), 0, r.io)

RECURSIVE ReadColors(_, _)
ReadColors(n, i) ==
  IF n = 0 THEN Success(<<>>, 0, i)
  ELSE LET r == IoParse(TPixel, i)
       IN IF r.ok THEN ReadColors(n - 1, r.io) ELSE Failure(ErrorOf(r), 0, r.io)

(* The bytes that handle_rectangle takes after a rectangle's packet.       *)
TightData(w, h, method, i) ==
  CASE method.type = "Fill" -> ReadColors(1, i)
    [] method.type = "Jpeg" -> ReadBytes(method.body[2], i)
    [] method.type = "BasicNoFilterId" -> ReadZlibData(w * h * 3, i)
    [] method.type = "Basic" ->
         LET filter == method.body[2]
             colors == ReadColors(filter.body, i)
             stride == IF filter.body = 2 THEN (w + 7) \div 8 ELSE w
         IN IF filter.type # "PaletteFilter" THEN Failure("panic", 0, i)
            ELSE IF colors.ok THEN ReadZlibData(h * stride, colors.io) ELSE colors
RectangleData(r, i) ==
  LET w == r[3]
      h == r[4]
      pixels == ReadBytes(w * h * 4, i)
  IN CASE r[5].type = "Raw" -> pixels
       [] r[5].type = "Tight" -> TightData(w, h, r[5].body[2], i)
       [] r[5].type = "Cursor" ->
            IF pixels.ok THEN ReadBytes(((w + 7) \div 8) * h, pixels.io) ELSE pixels
       [] OTHER -> Success(<<>>, 0, i)

-----------------------------------------------------------------------------
Elements(s) == {s[i] : i \in DOMAIN s}

Stop(error) == outcome' = error /\ UNCHANGED <<sent, expects, rects>>

(* write_packet fails when the connection no longer takes bytes.           *)
SendAll(replies, next) ==
  \/ /\ sent' = sent \o replies /\ expects' = next
     /\ UNCHANGED <<rects, outcome>>
  \/ /\ Faults
     /\ \E n \in 0 .. Len(replies) - 1 : sent' = sent \o SubSeq(replies, 1, n)
     /\ outcome' = "write"
     /\ UNCHANGED <<expects, rects>>

(* parse_packet: either the next packet is taken or the connection ends.   *)
Fails(packet) ==
  LET r == IoParse(ParserOf[packet], io)
  IN /\ outcome = "none" /\ expects = packet /\ ~r.ok
     /\ io' = r.io
     /\ Stop(ErrorOf(r))
     /\ UNCHANGED <<script, cut, ending, log>>
ParsePacket(packet, r) ==
  /\ outcome = "none" /\ expects = packet /\ r.ok
  /\ io' = r.io
  /\ log' = Append(log, [packet |-> packet, value |-> r.value, data |-> <<>>])
  /\ UNCHANGED <<script, cut, ending>>

ReadVersion ==
  /\ ParsePacket("ProtocolVersion", IoParse(ProtocolVersion, io))
  /\ SendAll(<<"ProtocolVersion">>, "SecurityTypes")

ReadSecurityTypes ==
  LET r == IoParse(SecurityTypes, io)
  IN /\ ParsePacket("SecurityTypes", r)
     /\ IF r.value.type = "ErrorReason" \/ SecNone \notin Elements(r.value.body)
        THEN Stop("refused")
        ELSE SendAll(<<"SecurityResponse">>, "SecurityResult")

ReadSecurityResult ==
  LET r == IoParse(SecurityResult, io)
  IN /\ ParsePacket("SecurityResult", r)
     /\ IF r.value.type = "Failed" THEN Stop("refused")
        ELSE SendAll(<<"ClientInit">>, "ServerInit")

ReadServerInit ==
  /\ ParsePacket("ServerInit", IoParse(ServerInit, io))
  /\ SendAll(<<"SetEncodings", "SetPixelFormat">>, "ServerToClient")

ReadMessage ==
  LET r == IoParse(ServerToClient, io)
  IN /\ ParsePacket("ServerToClient", r)
     /\ rects' = IF r.value.type = "FramebufferUpdate" THEN r.value.body[2] ELSE 0
     /\ expects' = IF rects' > 0 THEN "Rectangle" ELSE "ServerToClient"
     /\ UNCHANGED <<sent, outcome>>

(* read_rectangles_and_start_decoding: the last rectangle may come early.  *)
ReadRectangle ==
  LET r == IoParse(Rectangle, io)
      d == RectangleData(r.value, r.io)
      taken == SubSeq(r.io.net, 1, Len(r.io.net) - Len(d.io.net))
  IN /\ outcome = "none" /\ expects = "Rectangle" /\ r.ok
     /\ io' = d.io
     /\ IF d.ok
        THEN /\ log' = Append(log, [packet |-> "Rectangle", value |-> r.value, data |-> taken])
             /\ rects' = IF r.value[5].type = "Last" THEN 0 ELSE rects - 1
             /\ expects' = IF rects' > 0 THEN "Rectangle" ELSE "ServerToClient"
             /\ UNCHANGED <<sent, outcome>>
        ELSE Stop(d.error) /\ UNCHANGED log
     /\ UNCHANGED <<script, cut, ending>>

Next ==
  \/ ReadVersion \/ ReadSecurityTypes \/ ReadSecurityResult \/ ReadServerInit
  \/ ReadMessage \/ ReadRectangle
  \/ \E packet \in Packets : Fails(packet)

Spec == Init /\ [][Next]_vars

-----------------------------------------------------------------------------
Last(s) == s[Len(s)]

Answered(reply) == reply \in Elements(sent)
Taken(packet) == {script[i].value : i \in {i \in DOMAIN log : log[i].packet = packet}}

(* Client and server agree about the conversation.  The client takes       *)
(* exactly the packets the server sent, in their order, each with its own  *)
(* bytes: none is made of bytes that were left in the buffer, none is      *)
(* skipped, and no byte is lost between two.  It asks for the security     *)
(* type None only if the server has it, and initializes the session only   *)
(* when the server let it in.                                              *)
ConversationAgrees ==
  /\ Len(log) <= Len(script) /\ log = SubSeq(script, 1, Len(log))
  /\ outcome = "none" =>
       io.net = SubSeq(Bytes(script), Len(Bytes(log)) + 1, cut)
  /\ Answered("SecurityResponse") =>
       \E types \in Taken("SecurityTypes") :
         types.type = "SecurityTypesArray" /\ SecNone \in Elements(types.body)
  /\ Answered("ClientInit") =>
       \E result \in Taken("SecurityResult") : result.type = "Ok"

(* A packet that the protocol allows and the client implements.  A text is *)
(* UTF-8 to the client, also the cut text, which is Latin-1 in RFB: it     *)
(* understands none with a letter outside ASCII.  Of the filters of Tight  *)
(* it implements one, and panics at the others.                            *)
Valid(text) == \A i \in DOMAIN text : text[i] < 128
Understood(item) ==
  CASE item.packet = "ProtocolVersion" -> item.value = Version38
    [] item.packet = "SecurityTypes" ->
         IF item.value.type = "ErrorReason" THEN Valid(item.value.body)
         ELSE Elements(item.value.body) \subseteq SecurityTypeCodes
    [] item.packet = "SecurityResult" ->
         item.value.type = "Failed" => Valid(item.value.body)
    [] item.packet = "ServerInit" -> Valid(item.value[4])
    [] item.packet = "Rectangle" ->
         item.value[5].type = "Tight" /\ item.value[5].body[2].type = "Basic"
           => item.value[5].body[2].body[2].type = "PaletteFilter"
    [] item.packet = "ServerToClient" ->
         item.value.type = "ServerCutText" => Valid(item.value.body[2])
    [] OTHER -> FALSE

(* The connection fails only for a reason: the next packet did not arrive  *)
(* in full, or it is none the client understands.  A packet that breaks    *)
(* off may be reported as one that cannot be parsed, because a reset is    *)
(* and because an Opt tries its other alternatives at the end of the       *)
(* stream; one that arrived in full and made the client panic is a Tight   *)
(* rectangle.  A server's refusal ends the connection, and only that is    *)
(* reported as one.                                                        *)
ErrorsAreDeserved ==
  LET next == Len(log) + 1
      arrived == next <= Len(script) /\ Len(Bytes(SubSeq(script, 1, next))) <= cut
  IN /\ outcome \in {"broken", "io"} => ~arrived
     /\ outcome = "parse" => ~arrived \/ ~Understood(script[next])
     /\ outcome = "panic" => ~Understood(script[next]) /\ script[next].packet = "Rectangle"
     /\ outcome = "refused" <=>
          /\ outcome # "none" /\ log # <<>>
          /\ \/ Last(log).packet = "SecurityTypes"
                /\ \/ Last(log).value.type = "ErrorReason"
                   \/ SecNone \notin Elements(Last(log).value.body)
             \/ Last(log).packet = "SecurityResult" /\ Last(log).value.type = "Failed"

(* A connection that the server closes is reported as broken, also inside  *)
(* a packet.                                                               *)
BrokenIsSaid ==
  outcome = "parse" /\ ending = "UnexpectedEof" =>
    /\ Len(log) < Len(script)
    /\ Len(Bytes(SubSeq(script, 1, Len(log) + 1))) <= cut
=============================================================================
