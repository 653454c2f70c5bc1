--------------------------- MODULE RfbWriteEndProofs ---------------------------
(***************************************************************************)
(* What the server reads from the write end, for any number of sizes,      *)
(* layouts, events and packets and for all sessions.                       *)
(*                                                                         *)
(* An event goes through the write end's channel and may end on the wire.  *)
(* The two are one sequence of which a step of the write end moves the     *)
(* border; the invariants say of every element what the last one of some   *)
(* type before it is, wherever the border is.                              *)
(*                                                                         *)
(* Motion is counted, in fractions of a pixel: see Whole.                  *)
(***************************************************************************)
EXTENDS RfbWriteEnd, TLAPS

\* Among the first i elements of q, e is the last one of its type ...
Last(q, i, e) ==
  \E k \in 1 .. i : q[k] = e /\ \A l \in (k + 1) .. i : q[l].type # e.type

\* ... or there is none of type t.
None(q, i, t) == \A k \in 1 .. i : q[k].type # t

\* The same for p followed by the first i elements of q.
LastOf(p, q, i, e) == Last(q, i, e) \/ (None(q, i, e.type) /\ Last(p, Len(p), e))
NoneOf(p, q, i, t) == None(q, i, t) /\ None(p, Len(p), t)

\* A request is for the size of the last "enable", on the wire w and in the
\* channel q after it; what comes next is for size s.
RequestsWritten(w) ==
  \A i \in DOMAIN w :
    w[i].type = "request" => Last(w, i, Event("enable", w[i].arg))
RequestsQueued(w, q, s) ==
  /\ \A i \in DOMAIN q :
       q[i].type = "request" => LastOf(w, q, i, Event("enable", q[i].arg))
  /\ LastOf(w, q, Len(q), Event("enable", s))

RequestInv ==
  /\ RequestsWritten(wire)
  /\ writer = "running" => RequestsQueued(wire, input, size)

\* The answer to fence n of f comes after the one to fence n - 1.
Answer(f, n) == Event("fence", <<f[n] \cap Supported, n>>)
Answered(p, q, i, f, n) ==
  IF n = 0 THEN NoneOf(p, q, i, "fence") ELSE LastOf(p, q, i, Answer(f, n))
FencesWritten(w, f) ==
  \A i \in DOMAIN w : w[i].type = "fence" =>
    \E n \in DOMAIN f : w[i] = Answer(f, n) /\ Answered(<<>>, w, i - 1, f, n - 1)
FencesQueued(w, q, f) ==
  /\ \A i \in DOMAIN q : q[i].type = "fence" =>
       \E n \in DOMAIN f : q[i] = Answer(f, n) /\ Answered(w, q, i - 1, f, n - 1)
  /\ Answered(w, q, Len(q), f, Len(f))

FenceInv ==
  /\ FencesWritten(wire, fences)
  /\ writer = "running" => FencesQueued(wire, input, fences)

\* The last motion in the channels q and g has the mask b of the buttons that
\* are pressed; when there is none the write end knows them as m.
Pressed(q, g, b, m) ==
  \/ \E e \in GuiEvents :
       e.type = "relative" /\ e.arg[1] = b /\ LastOf(q, g, Len(g), e)
  \/ NoneOf(q, g, Len(g), "relative") /\ b = m

ButtonInv ==
  /\ writer = "running" => Pressed(input, gui, buttons, previous_mouse_state)
  /\ previous_mouse_state = IF mouse = <<>> THEN 0 ELSE mouse[Len(mouse)].mask

\* The write end returns Ok only when the reader is gone.
EndInv == (writer = "ok" => reader = "returned") /\ reader # "panicked"

IInv == TypeOK /\ RequestInv /\ FenceInv /\ ButtonInv /\ MotionConserved /\ EndInv

-----------------------------------------------------------------------------
(* Lemmas about the last element of a type                                 *)

(* An element that is added is the last one of its type and leaves those   *)
(* of other types.                                                         *)
LEMMA Grown ==
  ASSUME NEW S, NEW q \in Seq(S), NEW e \in S
  PROVE  /\ Append(q, e) \in Seq(S) /\ Len(q) \in Nat
         /\ Len(Append(q, e)) = Len(q) + 1
         /\ DOMAIN q = 1 .. Len(q) /\ DOMAIN Append(q, e) = 1 .. (Len(q) + 1)
         /\ Append(q, e)[Len(q) + 1] = e
         /\ \A i \in 1 .. Len(q) : Append(q, e)[i] = q[i]
         /\ \A x : \A i \in 0 .. Len(q) : Last(Append(q, e), i, x) <=> Last(q, i, x)
         /\ \A t : \A i \in 0 .. Len(q) : None(Append(q, e), i, t) <=> None(q, i, t)
         /\ \A x : e.type # x.type =>
              (Last(Append(q, e), Len(q) + 1, x) <=> Last(q, Len(q), x))
         /\ Last(Append(q, e), Len(q) + 1, e)
         /\ \A t : None(Append(q, e), Len(q) + 1, t)
                     <=> (None(q, Len(q), t) /\ e.type # t)
<1> DEFINE n == Len(q)
           a == Append(q, e)
<1>1. /\ a \in Seq(S) /\ n \in Nat /\ Len(a) = n + 1
      /\ DOMAIN q = 1 .. n /\ DOMAIN a = 1 .. (n + 1)
      /\ a[n + 1] = e /\ \A i \in 1 .. n : a[i] = q[i]
  OBVIOUS
<1> HIDE DEF n, a
<1>2. ASSUME NEW x, NEW i \in 0 .. n PROVE Last(a, i, x) <=> Last(q, i, x)
  BY <1>1 DEF Last
<1>3. ASSUME NEW t, NEW i \in 0 .. n PROVE None(a, i, t) <=> None(q, i, t)
  BY <1>1 DEF None
<1>4. ASSUME NEW x, e.type # x.type PROVE Last(a, n + 1, x) <=> Last(q, n, x)
  <2>1. ASSUME Last(q, n, x) PROVE Last(a, n + 1, x)
    <3>1. PICK k \in 1 .. n : q[k] = x /\ \A l \in (k + 1) .. n : q[l].type # x.type
      BY <2>1 DEF Last
    <3>2. \A l \in (k + 1) .. (n + 1) : a[l].type # x.type
      BY <3>1, <1>1, <1>4
    <3>3. k \in 1 .. (n + 1) /\ a[k] = x
      BY <3>1, <1>1
    <3> QED BY <3>2, <3>3 DEF Last
  <2>2. ASSUME Last(a, n + 1, x) PROVE Last(q, n, x)
    <3>1. PICK k \in 1 .. (n + 1) :
            a[k] = x /\ \A l \in (k + 1) .. (n + 1) : a[l].type # x.type
      BY <2>2 DEF Last
    <3>2. k \in 1 .. n
      BY <3>1, <1>1, <1>4
    <3>3. \A l \in (k + 1) .. n : q[l].type # x.type
      BY <3>1, <3>2, <1>1
    <3> QED BY <3>1, <3>2, <3>3, <1>1 DEF Last
  <2> QED BY <2>1, <2>2
<1>5. Last(a, n + 1, e)
  <2>1. n + 1 \in 1 .. (n + 1) /\ \A l \in ((n + 1) + 1) .. (n + 1) : FALSE
    BY <1>1
  <2> QED BY <2>1, <1>1 DEF Last
<1>6. ASSUME NEW t PROVE None(a, n + 1, t) <=> (None(q, n, t) /\ e.type # t)
  BY <1>1 DEF None
<1> QED BY <1>1, <1>2, <1>3, <1>4, <1>5, <1>6 DEF n, a

(* The element that is taken counts when there is no later one.            *)
LEMMA Shrunk ==
  ASSUME NEW S, NEW q \in Seq(S), q # <<>>
  PROVE  /\ Tail(q) \in Seq(S) /\ Len(q) \in Nat /\ Len(q) >= 1
         /\ Len(Tail(q)) = Len(q) - 1
         /\ DOMAIN q = 1 .. Len(q) /\ DOMAIN Tail(q) = 1 .. (Len(q) - 1)
         /\ Head(q) = q[1] /\ Head(q) \in S
         /\ \A i \in 1 .. (Len(q) - 1) : Tail(q)[i] = q[i + 1]
         /\ \A x : \A i \in 0 .. (Len(q) - 1) :
              Last(q, i + 1, x)
                <=> (Last(Tail(q), i, x) \/ (None(Tail(q), i, x.type) /\ Head(q) = x))
         /\ \A t : \A i \in 0 .. (Len(q) - 1) :
              None(q, i + 1, t) <=> (None(Tail(q), i, t) /\ Head(q).type # t)
<1> DEFINE n == Len(q)
           b == Tail(q)
           h == Head(q)
<1>1. /\ b \in Seq(S) /\ n \in Nat /\ n >= 1 /\ Len(b) = n - 1
      /\ DOMAIN q = 1 .. n /\ DOMAIN b = 1 .. (n - 1)
      /\ h = q[1] /\ h \in S /\ \A i \in 1 .. (n - 1) : b[i] = q[i + 1]
  OBVIOUS
<1> HIDE DEF n, b, h
<1>2. ASSUME NEW t, NEW i \in 0 .. (n - 1)
      PROVE  None(q, i + 1, t) <=> (None(b, i, t) /\ h.type # t)
  <2>1. ASSUME None(q, i + 1, t) PROVE None(b, i, t) /\ h.type # t
    BY <2>1, <1>1 DEF None
  <2>2. ASSUME None(b, i, t), h.type # t, NEW k \in 1 .. (i + 1) PROVE q[k].type # t
    <3>1. CASE k = 1
      BY <2>2, <3>1, <1>1
    <3>2. CASE k # 1
      <4>1. k - 1 \in 1 .. i /\ k - 1 \in 1 .. (n - 1) /\ (k - 1) + 1 = k
        BY <3>2, <1>1
      <4> QED BY <4>1, <2>2, <1>1 DEF None
    <3> QED BY <3>1, <3>2
  <2> QED BY <2>1, <2>2 DEF None
<1>3. ASSUME NEW x, NEW i \in 0 .. (n - 1)
      PROVE  Last(q, i + 1, x) <=> (Last(b, i, x) \/ (None(b, i, x.type) /\ h = x))
  <2>1. ASSUME Last(q, i + 1, x) PROVE Last(b, i, x) \/ (None(b, i, x.type) /\ h = x)
    <3>1. PICK k \in 1 .. (i + 1) :
            q[k] = x /\ \A l \in (k + 1) .. (i + 1) : q[l].type # x.type
      BY <2>1 DEF Last
    <3>2. CASE k = 1
      <4>1. ASSUME NEW l \in 1 .. i PROVE b[l].type # x.type
        <5>1. l + 1 \in (k + 1) .. (i + 1) /\ b[l] = q[l + 1]
          BY <3>2, <1>1
        <5> QED BY <5>1, <3>1
      <4> QED BY <4>1, <3>1, <3>2, <1>1 DEF None
    <3>3. CASE k # 1
      <4> DEFINE m == k - 1
      <4>1. m \in 1 .. i /\ m + 1 = k /\ b[m] = q[m + 1]
        BY <3>3, <1>1
      <4> HIDE DEF m
      <4>2. ASSUME NEW l \in (m + 1) .. i PROVE b[l].type # x.type
        <5>1. l + 1 \in (k + 1) .. (i + 1) /\ b[l] = q[l + 1]
          BY <4>1, <1>1
        <5> QED BY <5>1, <3>1
      <4> QED BY <4>1, <4>2, <3>1 DEF Last
    <3> QED BY <3>2, <3>3
  <2>2. ASSUME Last(b, i, x) PROVE Last(q, i + 1, x)
    <3>1. PICK m \in 1 .. i : b[m] = x /\ \A l \in (m + 1) .. i : b[l].type # x.type
      BY <2>2 DEF Last
    <3> DEFINE k == m + 1
    <3>2. k \in 1 .. (i + 1) /\ q[k] = x
      BY <3>1, <1>1
    <3>3. ASSUME NEW l \in (k + 1) .. (i + 1) PROVE q[l].type # x.type
      <4>1. l - 1 \in (m + 1) .. i /\ l - 1 \in 1 .. (n - 1) /\ (l - 1) + 1 = l
        BY <1>1
      <4> QED BY <4>1, <3>1, <1>1
    <3> HIDE DEF k
    <3> QED BY <3>2, <3>3 DEF Last
  <2>3. ASSUME None(b, i, x.type), h = x PROVE Last(q, i + 1, x)
    <3>1. 1 \in 1 .. (i + 1) /\ q[1] = x
      BY <2>3, <1>1
    <3>2. ASSUME NEW l \in (1 + 1) .. (i + 1) PROVE q[l].type # x.type
      <4>1. l - 1 \in 1 .. i /\ l - 1 \in 1 .. (n - 1) /\ (l - 1) + 1 = l
        BY <1>1
      <4> QED BY <4>1, <2>3, <1>1 DEF None
    <3> QED BY <3>1, <3>2 DEF Last
  <2> QED BY <2>1, <2>2, <2>3
<1> QED BY <1>1, <1>2, <1>3 DEF n, b, h

(* At the border only what is in front of it counts.                       *)
LEMMA Border ==
  ASSUME NEW p, NEW q
  PROVE  /\ \A x : LastOf(p, q, 0, x) <=> Last(p, Len(p), x)
         /\ \A t : NoneOf(p, q, 0, t) <=> None(p, Len(p), t)
         /\ \A x, i : LastOf(<<>>, q, i, x) <=> Last(q, i, x)
         /\ \A t, i : NoneOf(<<>>, q, i, t) <=> None(q, i, t)
  BY DEF LastOf, NoneOf, Last, None

(* What is added after the border leaves what was there.                   *)
LEMMA Added ==
  ASSUME NEW S, NEW p \in Seq(S), NEW q \in Seq(S), NEW e \in S
  PROVE  /\ \A x : \A i \in 0 .. Len(q) :
              LastOf(p, Append(q, e), i, x) <=> LastOf(p, q, i, x)
         /\ \A t : \A i \in 0 .. Len(q) :
              NoneOf(p, Append(q, e), i, t) <=> NoneOf(p, q, i, t)
         /\ \A x : e.type # x.type =>
              (LastOf(p, Append(q, e), Len(q) + 1, x) <=> LastOf(p, q, Len(q), x))
         /\ LastOf(p, Append(q, e), Len(q) + 1, e)
         /\ \A t : e.type # t =>
              (NoneOf(p, Append(q, e), Len(q) + 1, t) <=> NoneOf(p, q, Len(q), t))
  BY Grown DEF LastOf, NoneOf

(* The border moves by one element.  Of type t it takes along what was     *)
(* there, or there was nothing and nothing comes.                          *)
LEMMA Moved ==
  ASSUME NEW S, NEW p \in Seq(S), NEW q \in Seq(S), q # <<>>, NEW r, NEW t,
         \/ r = p /\ Head(q).type # t
         \/ \E e \in S : /\ r = Append(p, e)
                         /\ e = Head(q) \/ (e.type # t /\ Head(q).type # t),
         NEW i \in 0 .. (Len(q) - 1)
  PROVE  /\ \A x : x.type = t => (LastOf(r, Tail(q), i, x) <=> LastOf(p, q, i + 1, x))
         /\ NoneOf(r, Tail(q), i, t) <=> NoneOf(p, q, i + 1, t)
<1> DEFINE h == Head(q)
           b == Tail(q)
<1>1. /\ \A x : Last(q, i + 1, x) <=> (Last(b, i, x) \/ (None(b, i, x.type) /\ h = x))
      /\ None(q, i + 1, t) <=> (None(b, i, t) /\ h.type # t)
  BY Shrunk
<1> HIDE DEF h, b
<1>2. /\ \A x : x.type = t =>
           (Last(r, Len(r), x) <=> (h = x \/ (h.type # t /\ Last(p, Len(p), x))))
      /\ None(r, Len(r), t) <=> (None(p, Len(p), t) /\ h.type # t)
  <2>1. CASE r = p /\ h.type # t
    BY <2>1
  <2>2. ASSUME NEW e \in S, r = Append(p, e), e = h \/ (e.type # t /\ h.type # t)
        PROVE  /\ \A x : x.type = t =>
                    (Last(r, Len(r), x) <=> (h = x \/ (h.type # t /\ Last(p, Len(p), x))))
               /\ None(r, Len(r), t) <=> (None(p, Len(p), t) /\ h.type # t)
    <3>1. /\ Len(r) = Len(p) + 1
          /\ \A x : e.type # x.type => (Last(r, Len(p) + 1, x) <=> Last(p, Len(p), x))
          /\ Last(r, Len(p) + 1, e)
          /\ None(r, Len(p) + 1, t) <=> (None(p, Len(p), t) /\ e.type # t)
          /\ r[Len(p) + 1] = e /\ Len(p) \in Nat
      BY <2>2, Grown
    <3>2. ASSUME NEW x, x.type = e.type, Last(r, Len(p) + 1, x) PROVE x = e
      <4> DEFINE n == Len(p) + 1
      <4>1. n \in Nat /\ r[n] = e
        BY <3>1
      <4> HIDE DEF n
      <4>2. PICK k \in 1 .. n : r[k] = x /\ \A l \in (k + 1) .. n : r[l].type # x.type
        BY <3>2 DEF Last, n
      <4>3. k = n
        BY <4>1, <4>2, <3>2
      <4> QED BY <4>1, <4>2, <4>3
    <3>3. None(r, Len(r), t) <=> (None(p, Len(p), t) /\ h.type # t)
      BY <2>2, <3>1
    <3>4. ASSUME NEW x, x.type = t
          PROVE  Last(r, Len(r), x) <=> (h = x \/ (h.type # t /\ Last(p, Len(p), x)))
      BY <2>2, <3>1, <3>2, <3>4
    <3> QED BY <3>3, <3>4
  <2> QED BY <2>1, <2>2 DEF h
<1> QED BY <1>1, <1>2 DEF LastOf, NoneOf, h, b

-----------------------------------------------------------------------------
(* Requests                                                                *)

(* The reader queues a size, a request for the last one, or something      *)
(* else.                                                                   *)
LEMMA RequestQueued ==
  ASSUME NEW w \in Seq(Messages), NEW q \in Seq(Messages), NEW e \in Messages,
         NEW s, NEW s2, RequestsQueued(w, q, s),
         \/ e = Event("enable", s2)
         \/ e = Event("request", s) /\ s2 = s
         \/ e.type \notin {"enable", "request"} /\ s2 = s
  PROVE  RequestsQueued(w, Append(q, e), s2)
<1> DEFINE n == Len(q)
           a == Append(q, e)
           Size(x) == Event("enable", x)
<1>1. /\ n \in Nat /\ Len(a) = n + 1 /\ DOMAIN q = 1 .. n
      /\ DOMAIN a = 1 .. (n + 1) /\ a[n + 1] = e /\ \A i \in 1 .. n : a[i] = q[i]
  BY Grown
<1>2. /\ \A x : \A i \in 0 .. n : LastOf(w, a, i, x) <=> LastOf(w, q, i, x)
      /\ \A x : e.type # x.type => (LastOf(w, a, n + 1, x) <=> LastOf(w, q, n, x))
      /\ LastOf(w, a, n + 1, e)
  BY Added
<1> HIDE DEF n, a
<1>3. /\ \A i \in 1 .. n : q[i].type = "request" => LastOf(w, q, i, Size(q[i].arg))
      /\ LastOf(w, q, n, Size(s))
  BY <1>1 DEF RequestsQueued, n
<1>4. \A x : Size(x).type = "enable" /\ Size(x).arg = x
  BY DEF Event
<1>5. e.type = "request" => e.arg = s /\ s2 = s
  BY DEF Event
<1>6. LastOf(w, a, n + 1, Size(s2))
  <2>1. CASE e = Size(s2)
    BY <2>1, <1>2
  <2>2. CASE e.type # "enable" /\ s2 = s
    BY <2>2, <1>2, <1>3, <1>4
  <2> QED BY <2>1, <2>2 DEF Event
<1>7. ASSUME NEW i \in 1 .. (n + 1), a[i].type = "request"
      PROVE  LastOf(w, a, i, Size(a[i].arg))
  <2>1. CASE i = n + 1
    BY <2>1, <1>7, <1>1, <1>5, <1>6
  <2>2. CASE i # n + 1
    <3>1. i \in 1 .. n /\ i \in 0 .. n
      BY <2>2, <1>1
    <3> QED BY <3>1, <1>7, <1>1, <1>2, <1>3
  <2> QED BY <2>1, <2>2
<1> QED BY <1>1, <1>6, <1>7 DEF RequestsQueued, a

(* The write end handles what was queued first.                            *)
LEMMA RequestMoved ==
  ASSUME NEW w \in Seq(Messages), NEW q \in Seq(Messages), q # <<>>, NEW r, NEW s,
         RequestsWritten(w), RequestsQueued(w, q, s),
         \/ r = w /\ Head(q).type \notin {"enable", "request"}
         \/ \E e \in Messages :
              /\ r = Append(w, e)
              /\ \/ e = Head(q)
                 \/ {e.type, Head(q).type} \cap {"enable", "request"} = {}
  PROVE  RequestsWritten(r) /\ RequestsQueued(r, Tail(q), s)
<1> DEFINE h == Head(q)
           b == Tail(q)
           n == Len(q)
           Size(x) == Event("enable", x)
<1>1. /\ n \in Nat /\ n >= 1 /\ Len(b) = n - 1 /\ DOMAIN q = 1 .. n
      /\ DOMAIN b = 1 .. (n - 1) /\ h = q[1] /\ \A i \in 1 .. (n - 1) : b[i] = q[i + 1]
  BY Shrunk
<1>2. \A x : Size(x).type = "enable" /\ Size(x).arg = x
  BY DEF Event
<1>3. \/ r = w /\ h.type # "enable"
      \/ \E e \in Messages : /\ r = Append(w, e)
                             /\ e = h \/ (e.type # "enable" /\ h.type # "enable")
  OBVIOUS
<1>4. ASSUME NEW i \in 0 .. (n - 1), NEW x
      PROVE  LastOf(r, b, i, Size(x)) <=> LastOf(w, q, i + 1, Size(x))
  BY <1>2, <1>3, Moved
<1>5. r = w \/ \E e \in Messages : r = Append(w, e) /\ (e = h \/ e.type # "request")
  OBVIOUS
<1> HIDE DEF h, b, n
<1>6. /\ \A i \in 1 .. n : q[i].type = "request" => LastOf(w, q, i, Size(q[i].arg))
      /\ LastOf(w, q, n, Size(s))
  BY <1>1 DEF RequestsQueued, n
<1>7. RequestsQueued(r, b, s)
  <2>1. ASSUME NEW i \in 1 .. (n - 1), b[i].type = "request"
        PROVE  LastOf(r, b, i, Size(b[i].arg))
    <3>1. i \in 0 .. (n - 1) /\ i + 1 \in 1 .. n /\ b[i] = q[i + 1]
      BY <1>1
    <3> QED BY <3>1, <2>1, <1>4, <1>6
  <2>2. LastOf(r, b, n - 1, Size(s))
    <3>1. n - 1 \in 0 .. (n - 1) /\ (n - 1) + 1 = n
      BY <1>1
    <3> QED BY <3>1, <1>4, <1>6
  <2> QED BY <2>1, <2>2, <1>1 DEF RequestsQueued
<1>8. RequestsWritten(r)
  <2>1. CASE r = w
    BY <2>1
  <2>2. ASSUME NEW e \in Messages, r = Append(w, e), e = h \/ e.type # "request"
        PROVE  RequestsWritten(r)
    <3> DEFINE m == Len(w)
    <3>1. /\ m \in Nat /\ Len(r) = m + 1 /\ DOMAIN w = 1 .. m /\ DOMAIN r = 1 .. (m + 1)
          /\ r[m + 1] = e /\ \A i \in 1 .. m : r[i] = w[i]
          /\ \A x : \A i \in 0 .. m : Last(r, i, x) <=> Last(w, i, x)
      BY <2>2, Grown
    <3> HIDE DEF m
    <3>2. ASSUME NEW i \in 1 .. (m + 1), r[i].type = "request"
          PROVE  Last(r, i, Size(r[i].arg))
      <4>1. CASE i = m + 1
        <5>1. r[i] = h /\ h.type = "request"
          BY <4>1, <3>1, <3>2, <2>2
        <5>2. 1 \in 1 .. n /\ 0 \in 0 .. (n - 1) /\ 0 + 1 = 1
          BY <1>1
        <5>3. LastOf(r, b, 0, Size(h.arg))
          BY <5>1, <5>2, <1>1, <1>4, <1>6
        <5> QED BY <5>1, <5>3, <4>1, <3>1, Border
      <4>2. CASE i # m + 1
        <5>1. i \in 1 .. m /\ i \in 0 .. m
          BY <4>2, <3>1
        <5> QED BY <5>1, <3>1, <3>2 DEF RequestsWritten
      <4> QED BY <4>1, <4>2
    <3> QED BY <3>1, <3>2 DEF RequestsWritten
  <2> QED BY <2>1, <2>2, <1>5
<1> QED BY <1>7, <1>8 DEF b

-----------------------------------------------------------------------------
(* Fences                                                                  *)

(* The reader queues the answer to a new fence or something else.          *)
LEMMA FenceQueued ==
  ASSUME NEW w \in Seq(Messages), NEW q \in Seq(Messages), NEW e \in Messages,
         NEW f \in Seq(SUBSET FenceFlags), NEW g, FencesQueued(w, q, f),
         \/ e.type # "fence" /\ g = f
         \/ \E flags \in SUBSET FenceFlags :
              g = Append(f, flags) /\ e = Event("fence", <<flags \cap Supported, Len(g)>>)
  PROVE  FencesQueued(w, Append(q, e), g)
<1> DEFINE n == Len(q)
           a == Append(q, e)
<1>1. /\ n \in Nat /\ Len(a) = n + 1 /\ DOMAIN q = 1 .. n
      /\ DOMAIN a = 1 .. (n + 1) /\ a[n + 1] = e /\ \A i \in 1 .. n : a[i] = q[i]
  BY Grown
<1>2. /\ \A x : \A i \in 0 .. n : LastOf(w, a, i, x) <=> LastOf(w, q, i, x)
      /\ \A t : \A i \in 0 .. n : NoneOf(w, a, i, t) <=> NoneOf(w, q, i, t)
      /\ \A x : e.type # x.type => (LastOf(w, a, n + 1, x) <=> LastOf(w, q, n, x))
      /\ \A t : e.type # t => (NoneOf(w, a, n + 1, t) <=> NoneOf(w, q, n, t))
      /\ LastOf(w, a, n + 1, e)
  BY Added
<1>3. Len(f) \in Nat /\ DOMAIN f = 1 .. Len(f)
  OBVIOUS
<1> HIDE DEF n, a
<1>4. \A h, m : Answer(h, m).type = "fence"
  BY DEF Answer, Event
<1>5. /\ DOMAIN f \subseteq DOMAIN g
      /\ \A m \in 1 .. Len(f) : Answer(g, m) = Answer(f, m)
  <2>1. CASE g = f
    BY <2>1
  <2>2. ASSUME NEW flags \in SUBSET FenceFlags, g = Append(f, flags)
        PROVE  DOMAIN f \subseteq DOMAIN g /\ \A m \in 1 .. Len(f) : g[m] = f[m]
    BY <2>2
  <2> QED BY <2>1, <2>2 DEF Answer
<1>6. ASSUME NEW i \in 0 .. n, NEW m \in 0 .. Len(f)
      PROVE  Answered(w, a, i, g, m) <=> Answered(w, q, i, f, m)
  <2>1. CASE m = 0
    BY <2>1, <1>2 DEF Answered
  <2>2. CASE m # 0
    <3>1. m \in 1 .. Len(f)
      BY <2>2, <1>3
    <3> QED BY <2>2, <3>1, <1>2, <1>5 DEF Answered
  <2> QED BY <2>1, <2>2
<1>7. ASSUME NEW i \in 1 .. n, a[i].type = "fence"
      PROVE  \E m \in DOMAIN g : a[i] = Answer(g, m) /\ Answered(w, a, i - 1, g, m - 1)
  <2>1. PICK m \in DOMAIN f : q[i] = Answer(f, m) /\ Answered(w, q, i - 1, f, m - 1)
    BY <1>7, <1>1 DEF FencesQueued
  <2>2. i - 1 \in 0 .. n /\ m - 1 \in 0 .. Len(f) /\ m \in 1 .. Len(f)
    BY <1>1, <1>3
  <2>3. Answered(w, a, i - 1, g, m - 1)
    BY <2>1, <2>2, <1>6
  <2>4. m \in DOMAIN g /\ a[i] = Answer(g, m)
    BY <2>1, <2>2, <1>1, <1>5
  <2> QED BY <2>3, <2>4
<1>8. n \in 0 .. n /\ Len(f) \in 0 .. Len(f) /\ Answered(w, q, n, f, Len(f))
  BY <1>1, <1>3 DEF FencesQueued, n
<1>9. CASE e.type # "fence" /\ g = f
  <2>1. Answered(w, a, n + 1, g, Len(g))
    BY <1>9, <1>8, <1>2, <1>4 DEF Answered
  <2>2. ASSUME NEW i \in 1 .. (n + 1), a[i].type = "fence" PROVE i \in 1 .. n
    BY <2>2, <1>9, <1>1
  <2> QED BY <2>1, <2>2, <1>1, <1>7 DEF FencesQueued, a
<1>10. ASSUME NEW flags \in SUBSET FenceFlags, g = Append(f, flags),
              e = Event("fence", <<flags \cap Supported, Len(g)>>)
       PROVE  FencesQueued(w, a, g)
  <2>1. /\ Len(g) = Len(f) + 1 /\ Len(g) \in DOMAIN g /\ Len(g) # 0
        /\ g[Len(g)] = flags /\ Len(g) - 1 = Len(f)
    <3>1. Len(g) = Len(f) + 1 /\ g[Len(f) + 1] = flags /\ DOMAIN g = 1 .. (Len(f) + 1)
      BY <1>10
    <3> QED BY <3>1, <1>3
  <2>2. e = Answer(g, Len(g))
    BY <2>1, <1>10 DEF Answer
  <2>3. Answered(w, a, n + 1, g, Len(g))
    BY <2>1, <2>2, <1>2 DEF Answered
  <2>4. Answered(w, a, (n + 1) - 1, g, Len(g) - 1)
    <3>1. (n + 1) - 1 = n
      BY <1>1
    <3> QED BY <3>1, <2>1, <1>6, <1>8
  <2>5. ASSUME NEW i \in 1 .. (n + 1), a[i].type = "fence"
        PROVE  \E m \in DOMAIN g : a[i] = Answer(g, m) /\ Answered(w, a, i - 1, g, m - 1)
    <3>1. CASE i = n + 1
      BY <3>1, <1>1, <2>1, <2>2, <2>4
    <3>2. CASE i # n + 1
      <4>1. i \in 1 .. n
        BY <3>2, <1>1
      <4> QED BY <4>1, <2>5, <1>7
    <3> QED BY <3>1, <3>2
  <2> QED BY <2>3, <2>5, <1>1 DEF FencesQueued
<1> QED BY <1>9, <1>10 DEF a

(* The write end handles what was queued first.                            *)
LEMMA FenceMoved ==
  ASSUME NEW w \in Seq(Messages), NEW q \in Seq(Messages), q # <<>>, NEW r,
         NEW f \in Seq(SUBSET FenceFlags),
         FencesWritten(w, f), FencesQueued(w, q, f),
         \/ r = w /\ Head(q).type # "fence"
         \/ \E e \in Messages :
              /\ r = Append(w, e)
              /\ e = Head(q) \/ (e.type # "fence" /\ Head(q).type # "fence")
  PROVE  FencesWritten(r, f) /\ FencesQueued(r, Tail(q), f)
<1> DEFINE h == Head(q)
           b == Tail(q)
           n == Len(q)
<1>1. /\ n \in Nat /\ n >= 1 /\ Len(b) = n - 1 /\ DOMAIN q = 1 .. n
      /\ DOMAIN b = 1 .. (n - 1) /\ h = q[1] /\ \A i \in 1 .. (n - 1) : b[i] = q[i + 1]
  BY Shrunk
<1>2. \A m : Answer(f, m).type = "fence"
  BY DEF Answer, Event
<1>3. ASSUME NEW i \in 0 .. (n - 1), NEW m
      PROVE  Answered(r, b, i, f, m) <=> Answered(w, q, i + 1, f, m)
  <2>1. /\ \A x : x.type = "fence" => (LastOf(r, b, i, x) <=> LastOf(w, q, i + 1, x))
        /\ NoneOf(r, b, i, "fence") <=> NoneOf(w, q, i + 1, "fence")
    BY Moved
  <2> QED BY <2>1, <1>2 DEF Answered
<1>4. r = w \/ \E e \in Messages : r = Append(w, e) /\ (e = h \/ e.type # "fence")
  OBVIOUS
<1> HIDE DEF h, b, n
<1>5. /\ \A i \in 1 .. n : q[i].type = "fence" =>
           \E m \in DOMAIN f : q[i] = Answer(f, m) /\ Answered(w, q, i - 1, f, m - 1)
      /\ Answered(w, q, n, f, Len(f))
  BY <1>1 DEF FencesQueued, n
<1>6. FencesQueued(r, b, f)
  <2>1. ASSUME NEW i \in 1 .. (n - 1), b[i].type = "fence"
        PROVE  \E m \in DOMAIN f : b[i] = Answer(f, m) /\ Answered(r, b, i - 1, f, m - 1)
    <3>1. /\ i - 1 \in 0 .. (n - 1) /\ i + 1 \in 1 .. n /\ b[i] = q[i + 1]
          /\ (i - 1) + 1 = i /\ (i + 1) - 1 = i
      BY <1>1
    <3>2. PICK m \in DOMAIN f : q[i + 1] = Answer(f, m) /\ Answered(w, q, i, f, m - 1)
      BY <3>1, <2>1, <1>5
    <3>3. Answered(r, b, i - 1, f, m - 1)
      BY <3>1, <3>2, <1>3
    <3> QED BY <3>1, <3>2, <3>3
  <2>2. Answered(r, b, n - 1, f, Len(f))
    <3>1. n - 1 \in 0 .. (n - 1) /\ (n - 1) + 1 = n
      BY <1>1
    <3> QED BY <3>1, <1>3, <1>5
  <2> QED BY <2>1, <2>2, <1>1 DEF FencesQueued
<1>7. \A m : Answered(<<>>, w, Len(w), f, m) <=> Answered(w, q, 0, f, m)
  BY Border DEF Answered
<1>8. FencesWritten(r, f)
  <2>1. CASE r = w
    BY <2>1
  <2>2. ASSUME NEW e \in Messages, r = Append(w, e), e = h \/ e.type # "fence"
        PROVE  FencesWritten(r, f)
    <3> DEFINE k == Len(w)
    <3>1. /\ k \in Nat /\ DOMAIN w = 1 .. k /\ DOMAIN r = 1 .. (k + 1)
          /\ r[k + 1] = e /\ \A i \in 1 .. k : r[i] = w[i]
          /\ \A x : \A i \in 0 .. k : Last(r, i, x) <=> Last(w, i, x)
          /\ \A t : \A i \in 0 .. k : None(r, i, t) <=> None(w, i, t)
      BY <2>2, Grown
    <3>2. \A m : Answered(<<>>, w, k, f, m) <=> Answered(w, q, 0, f, m)
      BY <1>7
    <3> HIDE DEF k
    <3>3. ASSUME NEW i \in 0 .. k, NEW m
          PROVE  Answered(<<>>, r, i, f, m) <=> Answered(<<>>, w, i, f, m)
      BY <3>1, Border DEF Answered
    <3>4. ASSUME NEW i \in 1 .. (k + 1), r[i].type = "fence"
          PROVE  \E m \in DOMAIN f :
                   r[i] = Answer(f, m) /\ Answered(<<>>, r, i - 1, f, m - 1)
      <4>1. CASE i = k + 1
        <5>1. r[i] = h /\ h.type = "fence" /\ h = q[1]
          BY <4>1, <3>1, <3>4, <2>2, <1>1
        <5>2. 1 \in 1 .. n /\ 1 - 1 = 0 /\ i - 1 = k /\ k \in 0 .. k
          BY <1>1, <3>1, <4>1
        <5>3. PICK m \in DOMAIN f : h = Answer(f, m) /\ Answered(w, q, 0, f, m - 1)
          BY <5>1, <5>2, <1>5
        <5>4. Answered(<<>>, r, i - 1, f, m - 1)
          BY <5>2, <5>3, <3>2, <3>3
        <5> QED BY <5>1, <5>3, <5>4
      <4>2. CASE i # k + 1
        <5>1. i \in 1 .. k /\ i - 1 \in 0 .. k
          BY <4>2, <3>1
        <5>2. PICK m \in DOMAIN f :
                w[i] = Answer(f, m) /\ Answered(<<>>, w, i - 1, f, m - 1)
          BY <5>1, <3>1, <3>4 DEF FencesWritten
        <5>3. Answered(<<>>, r, i - 1, f, m - 1)
          BY <5>1, <5>2, <3>3
        <5> QED BY <5>1, <5>2, <5>3, <3>1
      <4> QED BY <4>1, <4>2
    <3> QED BY <3>1, <3>4 DEF FencesWritten
  <2> QED BY <2>1, <2>2, <1>4
<1> QED BY <1>6, <1>8 DEF b

-----------------------------------------------------------------------------
(* Steps                                                                   *)

\* Types of events that the properties are about.
Kept == {"enable", "request", "fence"}

\* The reader or the forwarder sends e to the write end.
Sends(e) == input' = Sent(e) /\ UNCHANGED <<wire, writer>>

\* The write end ends.
Stops == writer' # "running" /\ UNCHANGED <<wire, size, fences>>

\* The write end handles an event, and may write one message.
Handles ==
  /\ writer = "running" /\ input # <<>> /\ input' = Tail(input)
  /\ UNCHANGED <<writer, size, fences>>
  /\ \/ wire' = wire /\ Head(input).type \notin Kept
     \/ \E e \in Messages :
          /\ wire' = Append(wire, e)
          /\ e = Head(input) \/ {e.type, Head(input).type} \cap Kept = {}

\* What a step does to the events on their way to the server.
Kinds ==
  \/ UNCHANGED <<wire, input, size, fences, writer>>
  \/ Stops
  \/ Handles
  \/ UNCHANGED <<size, fences>>
       /\ \E e \in RfbWriteEvents : e.type \notin Kept /\ Sends(e)
  \/ UNCHANGED fences /\ size' \in Sizes /\ Sends(Event("enable", size'))
  \/ UNCHANGED <<size, fences>> /\ Sends(Event("request", size))
  \/ /\ UNCHANGED size
     /\ \E flags \in SUBSET FenceFlags :
          /\ fences' = Append(fences, flags)
          /\ Sends(Event("fence", <<flags \cap Supported, Len(fences')>>))

(* What the events carry.                                                  *)
LEMMA EventParts ==
  /\ \A e \in GuiEvents : e.type \in {"plain", "relative", "resized"}
  /\ \A e \in GuiEvents : e \in RfbWriteEvents
  /\ \A e \in RfbWriteEvents : e \in Messages
  /\ \A e \in GuiEvents : e.type = "relative" => e.arg[1] \in Masks
  /\ \A e \in GuiEvents : e.type = "relative" => e.arg[2] \in Motions /\ e.arg[2] \in Int
  /\ \A e \in RfbWriteEvents : e.type = "relative" => e \in GuiEvents
  /\ \A e \in RfbWriteEvents : e.type = "layout" => e.arg \in Layouts
<1>1. \A e \in GuiEvents : e.type \in {"plain", "relative", "resized"}
  BY DEF GuiEvents
<1>2. \A e \in GuiEvents : e \in RfbWriteEvents
  BY DEF RfbWriteEvents
<1>3. \A e \in RfbWriteEvents : e \in Messages
  BY DEF Messages
<1>4. \A e \in GuiEvents : e.type = "relative" => e.arg[1] \in Masks
  BY DEF GuiEvents
<1>5. \A e \in GuiEvents : e.type = "relative" => e.arg[2] \in Motions /\ e.arg[2] \in Int
  <2>1. \A m \in Motions : m \in Int
    BY WriteEndAssumption
  <2>2. \A e \in GuiEvents : e.type = "relative" => e.arg[2] \in Motions
    BY DEF GuiEvents
  <2> QED BY <2>1, <2>2
<1>6. \A e \in RfbWriteEvents : e.type = "relative" => e \in GuiEvents
  BY DEF RfbWriteEvents
<1>7. \A e \in RfbWriteEvents : e.type = "layout" => e.arg \in Layouts
  BY DEF RfbWriteEvents, GuiEvents
<1> QED BY <1>1, <1>2, <1>3, <1>4, <1>5, <1>6, <1>7

(* An event has the type and what it was made with.                        *)
LEMMA EventIs ==
  ASSUME NEW t, NEW x
  PROVE  Event(t, x).type = t /\ Event(t, x).arg = x
  BY DEF Event

(* The events that are sent.                                               *)
LEMMA EventsMade ==
  /\ Event("plain", 0) \in GuiEvents
  /\ \A k \in Masks, m \in Motions : Event("relative", <<k, m>>) \in GuiEvents
  /\ \A s \in Sizes : Event("resized", s) \in GuiEvents
  /\ \A s \in Sizes : Event("enable", s) \in RfbWriteEvents
  /\ \A s \in Sizes : Event("request", s) \in RfbWriteEvents
  /\ Event("allow", TRUE) \in RfbWriteEvents
  /\ Event("heartbeat", 0) \in RfbWriteEvents
  /\ \A y \in Layouts : Event("layout", y) \in RfbWriteEvents
  /\ \A k, n : n \in Nat => Event("fence", <<k \cap Supported, n>>) \in RfbWriteEvents
  /\ \A y \in Layouts \cup {Empty} : Event("desktop", y) \in Messages
<1>1. /\ Event("plain", 0) \in GuiEvents
      /\ \A k \in Masks, m \in Motions : Event("relative", <<k, m>>) \in GuiEvents
      /\ \A s \in Sizes : Event("resized", s) \in GuiEvents
  BY DEF GuiEvents, Event
<1>2. /\ \A s \in Sizes : Event("enable", s) \in RfbWriteEvents
      /\ \A s \in Sizes : Event("request", s) \in RfbWriteEvents
      /\ Event("allow", TRUE) \in RfbWriteEvents
      /\ Event("heartbeat", 0) \in RfbWriteEvents
      /\ \A y \in Layouts : Event("layout", y) \in RfbWriteEvents
  BY DEF RfbWriteEvents, Event
<1>3. ASSUME NEW k, NEW n \in Nat
      PROVE  Event("fence", <<k \cap Supported, n>>) \in RfbWriteEvents
  <2>1. <<k \cap Supported, n>> \in (SUBSET Supported) \X Nat
    OBVIOUS
  <2> QED BY <2>1 DEF RfbWriteEvents, Event
<1>4. \A y \in Layouts \cup {Empty} : Event("desktop", y) \in Messages
  BY DEF Messages, Event
<1> QED BY <1>1, <1>2, <1>3, <1>4

(* Whole pixels are a number, and the fraction is too.                     *)
LEMMA Numbers ==
  ASSUME NEW n \in Int
  PROVE  Integer(n) \in Int /\ n - Integer(n) * Unit \in Int /\ AsI16(n) \in I16
<1>1. Integer(n) \in Int
  BY WriteEndAssumption DEF Integer
<1>2. Integer(n) * Unit \in Int
  BY <1>1, WriteEndAssumption
<1>3. AsI16(n) \in I16
  <2>1. n + 32768 \in Int
    OBVIOUS
  <2>2. \A k \in Int : k % 65536 \in Int /\ 0 <= k % 65536 /\ k % 65536 < 65536
    OBVIOUS
  <2> QED BY <2>1, <2>2 DEF AsI16, I16
<1>4. n - Integer(n) * Unit \in Int
  BY <1>2
<1> QED BY <1>1, <1>3, <1>4

(* Every action preserves the types.                                       *)
LEMMA TypeOKStep == TypeOK /\ [Next]_vars => TypeOK'
<1> SUFFICES ASSUME TypeOK, [Next]_vars PROVE TypeOK'
  OBVIOUS
<1> USE DEF TypeOK
<1>1. /\ \A q \in Seq(GuiEvents) : /\ q # <<>> => Head(q) \in GuiEvents /\ Tail(q) \in Seq(GuiEvents)
                                   /\ \A e \in GuiEvents : Append(q, e) \in Seq(GuiEvents)
      /\ \A q \in Seq(RfbWriteEvents) :
           /\ q # <<>> => Head(q) \in RfbWriteEvents /\ Tail(q) \in Seq(RfbWriteEvents)
           /\ \A e \in RfbWriteEvents : Append(q, e) \in Seq(RfbWriteEvents)
      /\ \A q \in Seq(Messages) : \A e \in Messages : Append(q, e) \in Seq(Messages)
      /\ <<>> \in Seq(RfbWriteEvents)
  OBVIOUS
<1>2. \A e \in RfbWriteEvents : Sent(e) \in Seq(RfbWriteEvents)
  BY <1>1 DEF Sent
<1>3. ASSUME NEW e \in GuiEvents, Act(e), buttons' \in Masks PROVE TypeOK'
  BY <1>1, <1>3 DEF Act, readerVars, writerVars
<1>4. CASE ActPlain
  <2>1. Event("plain", 0) \in GuiEvents /\ Act(Event("plain", 0)) /\ buttons' \in Masks
    BY <1>4, EventsMade DEF ActPlain
  <2> QED BY <2>1, <1>3
<1>5. ASSUME NEW mask \in Masks, NEW m \in Motions, MoveMouse(mask, m) PROVE TypeOK'
  <2>1. /\ Event("relative", <<mask, m>>) \in GuiEvents /\ buttons' \in Masks
        /\ Act(Event("relative", <<mask, m>>))
    BY <1>5, EventsMade DEF MoveMouse
  <2> QED BY <2>1, <1>3
<1>6. ASSUME NEW s \in Sizes, ResizeWindow(s) PROVE TypeOK'
  <2>1. Event("resized", s) \in GuiEvents /\ Act(Event("resized", s)) /\ buttons' \in Masks
    BY <1>6, EventsMade DEF ResizeWindow
  <2> QED BY <2>1, <1>3
<1>7. CASE CloseWindow
  BY <1>7 DEF CloseWindow, readerVars, writerVars
<1>8. CASE Forward
  <2>1. Head(gui) \in RfbWriteEvents /\ Tail(gui) \in Seq(GuiEvents)
    BY <1>8, <1>1, EventParts DEF Forward
  <2> QED BY <2>1, <1>8, <1>2 DEF Forward, readerVars, writerVars, userVars
<1>9. CASE EndForwarder
  BY <1>9 DEF EndForwarder, readerVars, writerVars, userVars
<1>10. ASSUME input' \in Seq(RfbWriteEvents), size' \in Sizes,
              maybe_new_fb_size' \in Sizes \cup {NoSize}, packets' \in Nat,
              fences' \in Seq(SUBSET FenceFlags),
              NEW from, NEW to, Reading(from, to),
              to \in {"starting", "heartbeat", "packet", "rects", "layout",
                      "returned", "panicked"}
       PROVE  TypeOK'
  BY <1>10 DEF Reading, userVars, writerVars
<1>11. \A s \in Sizes : Event("request", s) \in RfbWriteEvents /\ Event("enable", s) \in RfbWriteEvents
  BY EventsMade
<1>12. CASE RequestFirst
  BY <1>12, <1>10, <1>2, <1>11 DEF RequestFirst
<1>13. CASE Heartbeat
  <2>1. Sent(Event("heartbeat", 0)) \in Seq(RfbWriteEvents)
    BY <1>2, EventsMade
  <2> QED BY <2>1, <1>13, <1>10 DEF Heartbeat
<1>14. CASE WriteEndGone
  BY <1>14, <1>10 DEF WriteEndGone
<1>15. CASE BeginUpdate
  <2>1. packets' \in Nat
    BY <1>15 DEF BeginUpdate, Packet
  <2>2. size' \in Sizes /\ input' \in Seq(RfbWriteEvents)
    BY <1>15, <1>2, <1>11 DEF BeginUpdate
  <2> QED BY <2>1, <2>2, <1>15, <1>10 DEF BeginUpdate
<1>16. ASSUME NEW kind, Packet(kind) PROVE packets' \in Nat
  BY <1>16 DEF Packet
<1>17. ASSUME NEW new \in Sizes, DesktopSizeRect(new) PROVE TypeOK'
  <2>1. packets' \in Nat
    BY <1>17, <1>16 DEF DesktopSizeRect
  <2> QED BY <2>1, <1>17, <1>10 DEF DesktopSizeRect
<1>18. ASSUME NEW new \in Sizes, ExtendedDesktopSizeRect(new) PROVE TypeOK'
  <2>1. Sent(Event("allow", TRUE)) \in Seq(RfbWriteEvents)
    BY <1>2, EventsMade
  <2>2. packets' \in Nat
    BY <1>18, <1>16 DEF ExtendedDesktopSizeRect
  <2>3. \E to \in {"rects", "layout"} : Reading("rects", to)
    BY <1>18 DEF ExtendedDesktopSizeRect
  <2>4. maybe_new_fb_size' \in Sizes \cup {NoSize}
    BY <1>18 DEF ExtendedDesktopSizeRect
  <2> QED BY <2>1, <2>2, <2>3, <2>4, <1>18, <1>10 DEF ExtendedDesktopSizeRect
<1>19. ASSUME NEW y \in Layouts, SetScreenLayout(y) PROVE TypeOK'
  <2>1. Sent(Event("layout", y)) \in Seq(RfbWriteEvents)
    BY <1>2, EventsMade
  <2> QED BY <2>1, <1>19, <1>10 DEF SetScreenLayout
<1>20. CASE EndUpdate
  BY <1>20, <1>10, <1>2, <1>11 DEF EndUpdate
<1>21. ASSUME NEW flags \in SUBSET FenceFlags, AnswerFence(flags) PROVE TypeOK'
  <2>1. fences' \in Seq(SUBSET FenceFlags) /\ Len(fences') \in Nat
    <3>1. fences' = fences \/ fences' = Append(fences, flags)
      BY <1>21 DEF AnswerFence
    <3>2. Append(fences, flags) \in Seq(SUBSET FenceFlags)
      OBVIOUS
    <3>3. fences' \in Seq(SUBSET FenceFlags)
      BY <3>1, <3>2
    <3> QED BY <3>3
  <2>2. Sent(Event("fence", <<flags \cap Supported, Len(fences')>>)) \in Seq(RfbWriteEvents)
    BY <2>1, <1>2, EventsMade
  <2>3. input' \in Seq(RfbWriteEvents)
    BY <2>2, <1>21 DEF AnswerFence
  <2>4. packets' \in Nat /\ Reading("packet", "heartbeat")
        /\ UNCHANGED <<size, maybe_new_fb_size>>
    BY <1>21, <1>16 DEF AnswerFence
  <2> QED BY <2>1, <2>3, <2>4, <1>10
<1>22. CASE OtherPacket
  BY <1>22, <1>10 DEF OtherPacket
<1>23. CASE ConnectionFails
  BY <1>23, <1>10 DEF ConnectionFails
<1>24. ASSUME NEW types, Handling(types) PROVE NextEvent \in RfbWriteEvents /\ input' \in Seq(RfbWriteEvents)
  BY <1>24, <1>1 DEF Handling, NextEvent
<1>25. CASE WritePacket
  <2>1. Handling({"plain", "request", "enable", "fence"}) /\ wire' \in Seq(Messages)
    BY <1>25, <1>1, <1>24, EventParts DEF WritePacket
  <2> QED BY <2>1, <1>24, <1>25 DEF WritePacket, Handling, readerVars, userVars
<1>26. CASE MoveVirtualMouse
  <2>1. Handling({"relative"}) /\ NextEvent.type = "relative"
    BY <1>26 DEF MoveVirtualMouse, Handling
  <2>2. NextEvent \in GuiEvents /\ input' \in Seq(RfbWriteEvents)
    BY <2>1, <1>24, EventParts
  <2>3. NextEvent.arg[1] \in Masks /\ NextEvent.arg[2] \in Int
    BY <2>1, <2>2, EventParts
  <2> DEFINE mask == NextEvent.arg[1]
             move == NextEvent.arg[2]
             sum  == difference + move
             dx   == Integer(sum)
             sent == [mask |-> mask, dx |-> AsI16(dx)]
  <2>4. sum \in Int
    BY <2>3
  <2>5. /\ difference' = sum - dx * Unit /\ previous_mouse_state' = mask
        /\ Counted(move) /\ (mouse' = mouse \/ mouse' = Append(mouse, sent))
        /\ UNCHANGED <<screen_layout, set_desktop_size_allowed, wire>>
    BY <1>26 DEF MoveVirtualMouse
  <2> HIDE DEF mask, sum, dx, move
  <2>6. dx \in Int /\ sum - dx * Unit \in Int
    BY <2>4, Numbers DEF dx
  <2>7. sent \in [mask : Masks, dx : I16]
    BY <2>3, <2>6, Numbers DEF mask
  <2>8. mouse' \in Seq([mask : Masks, dx : I16])
    <3>1. CASE mouse' = mouse
      BY <3>1
    <3>2. CASE mouse' = Append(mouse, sent)
      <4> HIDE DEF sent
      <4> QED BY <3>2, <2>7
    <3> QED BY <3>1, <3>2, <2>5
  <2>9. difference' \in Int /\ moved' \in Int /\ previous_mouse_state' \in Masks
    BY <2>5, <2>6, <2>3 DEF mask, move, Counted
  <2> HIDE DEF sent
  <2>10. told' \in Int
    <3>1. CASE mouse' = mouse
      BY <3>1, <2>5 DEF Counted
    <3>2. CASE mouse' = Append(mouse, sent)
      <4>1. mouse'[Len(mouse')] = sent /\ mouse' # mouse
        BY <3>2, <2>7
      <4>2. sent.dx \in Int
        BY <2>7 DEF I16
      <4> QED BY <4>1, <4>2, <2>5 DEF Counted
    <3> QED BY <3>1, <3>2, <2>5
  <2> QED BY <2>10, <2>1, <2>2, <2>5, <2>8, <2>9 DEF Handling, readerVars, userVars
<1>27. CASE SetDesktopSize
  <2>1. Handling({"resized"}) /\ wire' \in Seq(Messages)
    BY <1>27, <1>1, EventsMade DEF SetDesktopSize
  <2> QED BY <2>1, <1>24, <1>27 DEF SetDesktopSize, Handling, readerVars, userVars
<1>28. CASE Remember
  <2>1. Handling({"layout", "allow", "heartbeat"})
    BY <1>28 DEF Remember
  <2>2. screen_layout' \in Layouts \cup {Empty}
    BY <2>1, <1>24, <1>28, EventParts DEF Remember
  <2>3. set_desktop_size_allowed' \in BOOLEAN
    BY <1>28 DEF Remember
  <2> QED BY <2>1, <2>2, <2>3, <1>24, <1>28 DEF Remember, Handling, readerVars, userVars
<1>29. CASE WriteFails
  BY <1>29 DEF WriteFails, readerVars, userVars
<1>30. CASE EndInput
  BY <1>30 DEF EndInput, readerVars, userVars
<1>31. CASE UNCHANGED vars
  BY <1>31 DEF vars, readerVars, userVars, writerVars
<1> QED BY <1>4, <1>5, <1>6, <1>7, <1>8, <1>9, <1>12, <1>13, <1>14, <1>15, <1>17, <1>18,
           <1>19, <1>20, <1>21, <1>22, <1>23, <1>25, <1>26, <1>27, <1>28, <1>29, <1>30, <1>31
        DEF Next, User, Forwarder, ReaderGoesOn, Server, Writer

(* Every step is of one of the kinds.                                      *)
LEMMA StepKinds == TypeOK /\ [Next]_vars => Kinds
<1> SUFFICES ASSUME TypeOK, [Next]_vars PROVE Kinds
  OBVIOUS
<1> DEFINE Same == UNCHANGED <<wire, input, size, fences, writer>>
<1>1. ASSUME NEW from, NEW to, Reading(from, to) PROVE UNCHANGED <<wire, writer>>
  BY <1>1 DEF Reading, writerVars
<1>2. ASSUME NEW e \in RfbWriteEvents, e.type \notin Kept, input' = Sent(e),
             UNCHANGED <<wire, writer, size, fences>>
      PROVE  Kinds
  BY <1>2 DEF Kinds, Sends
<1>3. ASSUME NEW e, Act(e) PROVE Same
  BY <1>3 DEF Act, readerVars, writerVars
<1>4. CASE ActPlain
  BY <1>4, <1>3 DEF ActPlain, Kinds
<1>5. ASSUME NEW mask \in Masks, NEW m \in Motions, MoveMouse(mask, m) PROVE Kinds
  BY <1>5, <1>3 DEF MoveMouse, Kinds
<1>6. ASSUME NEW s \in Sizes, ResizeWindow(s) PROVE Kinds
  BY <1>6, <1>3 DEF ResizeWindow, Kinds
<1>7. CASE CloseWindow
  BY <1>7 DEF CloseWindow, readerVars, writerVars, Kinds
<1>8. CASE Forward
  <2>1. Head(gui) \in GuiEvents
    BY <1>8 DEF Forward, TypeOK
  <2>2. Head(gui) \in RfbWriteEvents /\ Head(gui).type \notin Kept
    BY <2>1, EventParts DEF Kept
  <2> QED BY <2>2, <1>2, <1>8 DEF Forward, readerVars, writerVars
<1>9. CASE EndForwarder
  BY <1>9 DEF EndForwarder, readerVars, writerVars, Kinds
<1>10. CASE RequestFirst
  <2>1. Sends(Event("request", size)) /\ UNCHANGED <<size, fences>>
    BY <1>10, <1>1 DEF RequestFirst, Sends
  <2> QED BY <2>1 DEF Kinds
<1>11. CASE Heartbeat
  <2>1. Event("heartbeat", 0) \in RfbWriteEvents /\ Event("heartbeat", 0).type \notin Kept
    BY EventsMade, EventIs DEF Kept
  <2> QED BY <2>1, <1>1, <1>2, <1>11 DEF Heartbeat
<1>12. CASE WriteEndGone
  BY <1>12, <1>1 DEF WriteEndGone, Kinds
<1>13. CASE BeginUpdate
  <2>1. CASE maybe_new_fb_size = NoSize
    BY <2>1, <1>13, <1>1 DEF BeginUpdate, Kinds
  <2>2. CASE maybe_new_fb_size # NoSize
    <3>1. /\ size' \in Sizes /\ Sends(Event("enable", size')) /\ UNCHANGED fences
      BY <2>2, <1>13, <1>1 DEF BeginUpdate, Sends, TypeOK
    <3> QED BY <3>1 DEF Kinds
  <2> QED BY <2>1, <2>2
<1>14. ASSUME NEW new \in Sizes, DesktopSizeRect(new) PROVE Kinds
  BY <1>14, <1>1 DEF DesktopSizeRect, Kinds
<1>15. ASSUME NEW new \in Sizes, ExtendedDesktopSizeRect(new) PROVE Kinds
  <2>1. Event("allow", TRUE) \in RfbWriteEvents /\ Event("allow", TRUE).type \notin Kept
    BY EventsMade DEF Kept, Event
  <2>2. UNCHANGED <<wire, writer>>
    BY <1>15, <1>1 DEF ExtendedDesktopSizeRect
  <2> QED BY <2>1, <2>2, <1>2, <1>15 DEF ExtendedDesktopSizeRect
<1>16. ASSUME NEW y \in Layouts, SetScreenLayout(y) PROVE Kinds
  <2>1. Event("layout", y) \in RfbWriteEvents /\ Event("layout", y).type \notin Kept
    BY EventsMade, EventIs DEF Kept
  <2> QED BY <2>1, <1>1, <1>2, <1>16 DEF SetScreenLayout
<1>17. CASE EndUpdate
  <2>1. CASE UNCHANGED input
    BY <2>1, <1>17, <1>1 DEF EndUpdate, Kinds
  <2>2. CASE input' = Sent(Event("request", size))
    <3>1. Sends(Event("request", size)) /\ UNCHANGED <<size, fences>>
      BY <2>2, <1>17, <1>1 DEF EndUpdate, Sends
    <3> QED BY <3>1 DEF Kinds
  <2> QED BY <2>1, <2>2, <1>17 DEF EndUpdate
<1>18. ASSUME NEW flags \in SUBSET FenceFlags, AnswerFence(flags) PROVE Kinds
  <2>1. UNCHANGED <<wire, writer, size>>
    BY <1>18, <1>1 DEF AnswerFence
  <2>2. CASE "request" \in flags
    <3>1. /\ fences' = Append(fences, flags)
          /\ Sends(Event("fence", <<flags \cap Supported, Len(fences')>>))
      BY <2>1, <2>2, <1>18 DEF AnswerFence, Sends
    <3> QED BY <2>1, <3>1 DEF Kinds
  <2>3. CASE "request" \notin flags
    BY <2>1, <2>3, <1>18 DEF AnswerFence, Kinds
  <2> QED BY <2>2, <2>3
<1>19. CASE OtherPacket
  BY <1>19, <1>1 DEF OtherPacket, Kinds
<1>20. CASE ConnectionFails
  BY <1>20, <1>1 DEF ConnectionFails, Kinds
<1>21. ASSUME NEW types, Handling(types)
       PROVE  /\ writer = "running" /\ input # <<>> /\ input' = Tail(input)
              /\ UNCHANGED <<writer, size, fences>> /\ NextEvent = Head(input)
              /\ NextEvent.type \in types /\ NextEvent \in Messages
  <2>1. NextEvent \in RfbWriteEvents
    BY <1>21 DEF Handling, NextEvent, TypeOK
  <2> QED BY <2>1, <1>21, EventParts DEF Handling, NextEvent, readerVars
<1>22. ASSUME NEW types, Handling(types), types \cap Kept = {}, wire' = wire PROVE Kinds
  BY <1>22, <1>21 DEF Handles, Kinds
<1>23. CASE WritePacket
  <2>1. Handling({"plain", "request", "enable", "fence"}) /\ wire' = Append(wire, NextEvent)
    BY <1>23 DEF WritePacket
  <2>2. Handles
    BY <2>1, <1>21 DEF Handles
  <2> QED BY <2>2 DEF Kinds
<1>24. CASE MoveVirtualMouse
  BY <1>24, <1>22 DEF MoveVirtualMouse, Kept
<1>25. CASE SetDesktopSize
  <2>1. Handling({"resized"})
    BY <1>25 DEF SetDesktopSize
  <2>2. CASE ~set_desktop_size_allowed
    BY <2>1, <2>2, <1>25, <1>22 DEF SetDesktopSize, Kept
  <2>3. CASE set_desktop_size_allowed
    <3> DEFINE e == Event("desktop", screen_layout)
    <3>1. e \in Messages /\ e.type = "desktop"
      BY EventsMade, EventIs DEF TypeOK
    <3>2. wire' = Append(wire, e)
      BY <2>3, <1>25 DEF SetDesktopSize
    <3> HIDE DEF e
    <3>3. {e.type, Head(input).type} \cap Kept = {}
      BY <2>1, <3>1, <1>21 DEF Kept
    <3>4. Handles
      BY <2>1, <3>1, <3>2, <3>3, <1>21 DEF Handles
    <3> QED BY <3>4 DEF Kinds
  <2> QED BY <2>2, <2>3
<1>26. CASE Remember
  BY <1>26, <1>22 DEF Remember, Kept
<1>27. CASE WriteFails
  BY <1>27 DEF WriteFails, readerVars, Kinds, Stops
<1>28. CASE EndInput
  BY <1>28 DEF EndInput, readerVars, Kinds, Stops
<1>29. CASE UNCHANGED vars
  BY <1>29 DEF vars, readerVars, writerVars, Kinds
<1> QED BY <1>4, <1>5, <1>6, <1>7, <1>8, <1>9, <1>10, <1>11, <1>12, <1>13, <1>14, <1>15,
           <1>16, <1>17, <1>18, <1>19, <1>20, <1>23, <1>24, <1>25, <1>26, <1>27, <1>28, <1>29
        DEF Next, User, Forwarder, ReaderGoesOn, Server, Writer

(* Requests stay for the size that was enabled last.                       *)
LEMMA RequestStep == TypeOK /\ RequestInv /\ Kinds => RequestInv'
<1> SUFFICES ASSUME TypeOK, RequestInv, Kinds PROVE RequestInv'
  OBVIOUS
<1>1. wire \in Seq(Messages) /\ input \in Seq(Messages) /\ size \in Sizes
  BY EventParts DEF TypeOK
<1>2. RequestsWritten(wire) /\ (writer = "running" => RequestsQueued(wire, input, size))
  BY DEF RequestInv
<1>3. ASSUME RequestsWritten(wire'),
             writer' = "running" => RequestsQueued(wire', input', size')
      PROVE  RequestInv'
  BY <1>3 DEF RequestInv, RequestsWritten, RequestsQueued, LastOf, Last, None
<1>4. CASE Handles
  <2>1. input # <<>> /\ input' = Tail(input) /\ size' = size /\ writer = "running"
    BY <1>4 DEF Handles
  <2>2. \/ wire' = wire /\ Head(input).type \notin {"enable", "request"}
        \/ \E e \in Messages :
             /\ wire' = Append(wire, e)
             /\ \/ e = Head(input)
                \/ {e.type, Head(input).type} \cap {"enable", "request"} = {}
    BY <1>4 DEF Handles, Kept
  <2>3. RequestsWritten(wire') /\ RequestsQueued(wire', Tail(input), size)
    BY <2>1, <2>2, <1>1, <1>2, RequestMoved
  <2> QED BY <2>1, <2>3, <1>3
<1>5. ASSUME NEW e \in RfbWriteEvents, Sends(e),
             \/ e = Event("enable", size')
             \/ e = Event("request", size) /\ size' = size
             \/ e.type \notin {"enable", "request"} /\ size' = size
      PROVE  RequestInv'
  <2>1. wire' = wire /\ writer' = writer
    BY <1>5 DEF Sends
  <2>2. CASE writer = "running"
    <3>1. e \in Messages
      BY EventParts
    <3>2. RequestsQueued(wire, Append(input, e), size')
      BY <2>2, <3>1, <1>1, <1>2, <1>5, RequestQueued
    <3>3. input' = Append(input, e)
      BY <2>2, <1>5 DEF Sends, Sent
    <3> QED BY <2>1, <3>2, <3>3, <1>2, <1>3
  <2> QED BY <2>1, <2>2, <1>2, <1>3
<1>6. CASE Stops
  BY <1>6, <1>2, <1>3 DEF Stops
<1>7. CASE UNCHANGED <<wire, input, size, fences, writer>>
  BY <1>7, <1>2, <1>3
<1>8. CASE UNCHANGED <<size, fences>>
             /\ \E e \in RfbWriteEvents : e.type \notin Kept /\ Sends(e)
  BY <1>8, <1>5 DEF Kept
<1>9. CASE UNCHANGED fences /\ size' \in Sizes /\ Sends(Event("enable", size'))
  BY <1>9, <1>5, EventsMade
<1>10. CASE UNCHANGED <<size, fences>> /\ Sends(Event("request", size))
  BY <1>10, <1>5, <1>1, EventsMade
<1>11. ASSUME UNCHANGED size, NEW flags \in SUBSET FenceFlags,
              fences' = Append(fences, flags),
              Sends(Event("fence", <<flags \cap Supported, Len(fences')>>))
       PROVE  RequestInv'
  <2> DEFINE e == Event("fence", <<flags \cap Supported, Len(fences')>>)
  <2>1. Len(fences') \in Nat
    BY <1>11 DEF TypeOK
  <2>2. e \in RfbWriteEvents /\ e.type = "fence"
    BY <2>1, EventsMade, EventIs
  <2>3. Sends(e)
    BY <1>11
  <2> HIDE DEF e
  <2> QED BY <2>2, <2>3, <1>5, <1>11
<1> QED BY <1>4, <1>6, <1>7, <1>8, <1>9, <1>10, <1>11 DEF Kinds

(* Fences stay in order.                                                   *)
LEMMA FenceStep == TypeOK /\ FenceInv /\ Kinds => FenceInv'
<1> SUFFICES ASSUME TypeOK, FenceInv, Kinds PROVE FenceInv'
  OBVIOUS
<1>1. /\ wire \in Seq(Messages) /\ input \in Seq(Messages) /\ size \in Sizes
      /\ fences \in Seq(SUBSET FenceFlags)
  BY EventParts DEF TypeOK
<1>2. FencesWritten(wire, fences) /\ (writer = "running" => FencesQueued(wire, input, fences))
  BY DEF FenceInv
<1>3. ASSUME FencesWritten(wire', fences'),
             writer' = "running" => FencesQueued(wire', input', fences')
      PROVE  FenceInv'
  BY <1>3 DEF FenceInv, FencesWritten, FencesQueued, Answered, Answer, LastOf, NoneOf, Last, None
<1>4. CASE Handles
  <2>1. input # <<>> /\ input' = Tail(input) /\ fences' = fences /\ writer = "running"
    BY <1>4 DEF Handles
  <2>2. \/ wire' = wire /\ Head(input).type # "fence"
        \/ \E e \in Messages :
             /\ wire' = Append(wire, e)
             /\ e = Head(input) \/ (e.type # "fence" /\ Head(input).type # "fence")
    BY <1>4 DEF Handles, Kept
  <2>3. FencesWritten(wire', fences) /\ FencesQueued(wire', Tail(input), fences)
    BY <2>1, <2>2, <1>1, <1>2, FenceMoved
  <2> QED BY <2>1, <2>3, <1>3
<1>5. ASSUME NEW e \in RfbWriteEvents, Sends(e), e.type # "fence", fences' = fences
      PROVE  FenceInv'
  <2>1. wire' = wire /\ writer' = writer
    BY <1>5 DEF Sends
  <2>2. CASE writer = "running"
    <3>1. e \in Messages
      BY EventParts
    <3>2. FencesQueued(wire, Append(input, e), fences)
      BY <2>2, <3>1, <1>1, <1>2, <1>5, FenceQueued
    <3>3. input' = Append(input, e)
      BY <2>2, <1>5 DEF Sends, Sent
    <3> QED BY <2>1, <3>2, <3>3, <1>2, <1>3, <1>5
  <2> QED BY <2>1, <2>2, <1>2, <1>3, <1>5
<1>6. CASE Stops
  BY <1>6, <1>2, <1>3 DEF Stops
<1>7. CASE UNCHANGED <<wire, input, size, fences, writer>>
  BY <1>7, <1>2, <1>3
<1>8. CASE UNCHANGED <<size, fences>>
             /\ \E e \in RfbWriteEvents : e.type \notin Kept /\ Sends(e)
  BY <1>8, <1>5 DEF Kept
<1>9. CASE UNCHANGED fences /\ size' \in Sizes /\ Sends(Event("enable", size'))
  <2>1. Event("enable", size') \in RfbWriteEvents /\ Event("enable", size').type # "fence"
    BY <1>9, EventsMade, EventIs
  <2> QED BY <2>1, <1>9, <1>5
<1>10. CASE UNCHANGED <<size, fences>> /\ Sends(Event("request", size))
  <2>1. Event("request", size) \in RfbWriteEvents /\ Event("request", size).type # "fence"
    BY <1>1, EventsMade, EventIs
  <2> QED BY <2>1, <1>10, <1>5
<1>11. ASSUME NEW flags \in SUBSET FenceFlags, fences' = Append(fences, flags),
              Sends(Event("fence", <<flags \cap Supported, Len(fences')>>))
       PROVE  FenceInv'
  <2> DEFINE e == Event("fence", <<flags \cap Supported, Len(fences')>>)
  <2>1. Len(fences') \in Nat
    BY <1>1, <1>11
  <2>2. e \in Messages
    BY <2>1, EventsMade, EventParts
  <2>3. wire' = wire /\ writer' = writer /\ (writer = "running" => input' = Append(input, e))
    BY <1>11 DEF Sends, Sent
  <2>4. FencesQueued(wire, input, fences) => FencesQueued(wire, Append(input, e), fences')
    BY <2>2, <1>1, <1>11, FenceQueued
  <2>5. FencesWritten(wire, fences')
    <3>1. DOMAIN fences \subseteq DOMAIN fences' /\ \A n \in DOMAIN fences : fences'[n] = fences[n]
      BY <1>1, <1>11
    <3>2. \A n \in DOMAIN fences : Answer(fences', n) = Answer(fences, n)
      BY <3>1 DEF Answer
    <3>3. ASSUME NEW i \in DOMAIN wire, wire[i].type = "fence"
          PROVE  \E n \in DOMAIN fences' : /\ wire[i] = Answer(fences', n)
                                           /\ Answered(<<>>, wire, i - 1, fences', n - 1)
      <4>1. PICK n \in DOMAIN fences : /\ wire[i] = Answer(fences, n)
                                       /\ Answered(<<>>, wire, i - 1, fences, n - 1)
        BY <3>3, <1>2 DEF FencesWritten
      <4>2. n - 1 = 0 \/ n - 1 \in DOMAIN fences
        BY <1>1
      <4>3. Answered(<<>>, wire, i - 1, fences', n - 1)
        BY <4>1, <4>2, <3>2 DEF Answered
      <4> QED BY <4>1, <4>3, <3>1, <3>2
    <3> QED BY <3>3 DEF FencesWritten
  <2> HIDE DEF e
  <2>6. writer' = "running" => FencesQueued(wire', input', fences')
    BY <2>3, <2>4, <1>2
  <2> QED BY <2>3, <2>5, <2>6, <1>3
<1> QED BY <1>4, <1>6, <1>7, <1>8, <1>9, <1>10, <1>11 DEF Kinds

-----------------------------------------------------------------------------
(* Buttons                                                                 *)

(* The user does something.                                                *)
LEMMA PressedActed ==
  ASSUME NEW q \in Seq(RfbWriteEvents), NEW g \in Seq(RfbWriteEvents), NEW b, NEW m,
         NEW e \in GuiEvents, NEW b2, Pressed(q, g, b, m),
         \/ e.type = "relative" /\ e.arg[1] = b2
         \/ e.type # "relative" /\ b2 = b
  PROVE  Pressed(q, Append(g, e), b2, m)
<1>1. e \in RfbWriteEvents
  BY EventParts
<1>2. /\ Len(Append(g, e)) = Len(g) + 1
      /\ \A x : e.type # x.type =>
           (LastOf(q, Append(g, e), Len(g) + 1, x) <=> LastOf(q, g, Len(g), x))
      /\ LastOf(q, Append(g, e), Len(g) + 1, e)
      /\ \A t : e.type # t =>
           (NoneOf(q, Append(g, e), Len(g) + 1, t) <=> NoneOf(q, g, Len(g), t))
  BY <1>1, Grown, Added
<1>3. CASE e.type = "relative" /\ e.arg[1] = b2
  BY <1>2, <1>3 DEF Pressed
<1>4. CASE e.type # "relative" /\ b2 = b
  BY <1>2, <1>4 DEF Pressed
<1> QED BY <1>3, <1>4

(* The forwarder passes an event on.                                       *)
LEMMA PressedForwarded ==
  ASSUME NEW q \in Seq(RfbWriteEvents), NEW g \in Seq(RfbWriteEvents), g # <<>>,
         NEW b, NEW m, Pressed(q, g, b, m)
  PROVE  Pressed(Append(q, Head(g)), Tail(g), b, m)
<1> DEFINE n == Len(g) - 1
<1>1. n \in 0 .. (Len(g) - 1) /\ n + 1 = Len(g) /\ Len(Tail(g)) = n /\ Head(g) \in RfbWriteEvents
  BY Shrunk
<1> HIDE DEF n
<1>2. /\ \A x : x.type = "relative" =>
           (LastOf(Append(q, Head(g)), Tail(g), n, x) <=> LastOf(q, g, n + 1, x))
      /\ NoneOf(Append(q, Head(g)), Tail(g), n, "relative") <=> NoneOf(q, g, n + 1, "relative")
  BY <1>1, Moved
<1> QED BY <1>1, <1>2 DEF Pressed

(* The reader sends something.                                             *)
LEMMA PressedSent ==
  ASSUME NEW q \in Seq(RfbWriteEvents), NEW g, NEW b, NEW m, Pressed(q, g, b, m),
         NEW e \in RfbWriteEvents, e.type # "relative"
  PROVE  Pressed(Append(q, e), g, b, m)
<1>1. /\ Len(Append(q, e)) = Len(q) + 1
      /\ \A x : e.type # x.type => (Last(Append(q, e), Len(q) + 1, x) <=> Last(q, Len(q), x))
      /\ None(Append(q, e), Len(q) + 1, "relative")
           <=> (None(q, Len(q), "relative") /\ e.type # "relative")
  BY Grown
<1> QED BY <1>1 DEF Pressed, LastOf, NoneOf

(* The write end handles an event.                                         *)
LEMMA PressedHandled ==
  ASSUME NEW q \in Seq(RfbWriteEvents), q # <<>>, NEW g, NEW b, NEW m, NEW m2,
         Pressed(q, g, b, m),
         \/ Head(q).type = "relative" /\ m2 = Head(q).arg[1]
         \/ Head(q).type # "relative" /\ m2 = m
  PROVE  Pressed(Tail(q), g, b, m2)
<1> DEFINE n == Len(q) - 1
           h == Head(q)
           t == Tail(q)
<1>1. n \in 0 .. (Len(q) - 1) /\ n + 1 = Len(q) /\ Len(t) = n
  BY Shrunk
<1>2. /\ \A x : Last(q, n + 1, x) <=> (Last(t, n, x) \/ (None(t, n, x.type) /\ h = x))
      /\ None(q, n + 1, "relative") <=> (None(t, n, "relative") /\ h.type # "relative")
  BY <1>1, Shrunk
<1>3. \/ h.type = "relative" /\ m2 = h.arg[1]
      \/ h.type # "relative" /\ m2 = m
  OBVIOUS
<1> HIDE DEF n, h, t
<1>4. ASSUME NoneOf(q, g, Len(g), "relative"), b = m PROVE Pressed(t, g, b, m2)
  <2>1. None(t, Len(t), "relative") /\ h.type # "relative"
    BY <1>1, <1>2, <1>4 DEF NoneOf
  <2> QED BY <2>1, <1>3, <1>4 DEF Pressed, NoneOf
<1>5. ASSUME NEW e \in GuiEvents, e.type = "relative", e.arg[1] = b, LastOf(q, g, Len(g), e)
      PROVE  Pressed(t, g, b, m2)
  <2>1. CASE LastOf(t, g, Len(g), e)
    BY <2>1, <1>5 DEF Pressed
  <2>2. CASE ~LastOf(t, g, Len(g), e)
    <3>1. None(g, Len(g), "relative") /\ Last(q, n + 1, e) /\ ~Last(t, n, e)
      BY <2>2, <1>1, <1>5 DEF LastOf
    <3>2. None(t, n, "relative") /\ h = e
      BY <3>1, <1>2, <1>5
    <3> QED BY <3>1, <3>2, <1>1, <1>3, <1>5 DEF Pressed, NoneOf
  <2> QED BY <2>1, <2>2
<1>6. \/ \E e \in GuiEvents :
           e.type = "relative" /\ e.arg[1] = b /\ LastOf(q, g, Len(g), e)
      \/ NoneOf(q, g, Len(g), "relative") /\ b = m
  BY DEF Pressed
<1>7. Pressed(t, g, b, m2)
  BY <1>4, <1>5, <1>6
<1> QED BY <1>7 DEF t

(* The write end knows the buttons, or will be told.                       *)
LEMMA ButtonStep == TypeOK /\ ButtonInv /\ [Next]_vars => ButtonInv'
<1> SUFFICES ASSUME TypeOK, ButtonInv, [Next]_vars PROVE ButtonInv'
  OBVIOUS
<1> DEFINE Told == previous_mouse_state = IF mouse = <<>> THEN 0 ELSE mouse[Len(mouse)].mask
           SameMouse == UNCHANGED <<previous_mouse_state, mouse>>
<1>1. input \in Seq(RfbWriteEvents) /\ gui \in Seq(RfbWriteEvents) /\ gui \in Seq(GuiEvents)
  BY EventParts DEF TypeOK
<1>2. Told /\ (writer = "running" => Pressed(input, gui, buttons, previous_mouse_state))
  BY DEF ButtonInv
<1>3. ASSUME Told', writer' = "running" => Pressed(input', gui', buttons', previous_mouse_state')
      PROVE  ButtonInv'
  BY <1>3 DEF ButtonInv, Pressed, LastOf, NoneOf, Last, None
<1>4. ASSUME SameMouse, writer' = "running" => Pressed(input', gui', buttons', previous_mouse_state)
      PROVE  ButtonInv'
  BY <1>2, <1>3, <1>4
<1> HIDE DEF Told
<1>5. ASSUME NEW e \in GuiEvents, Act(e),
             \/ e.type = "relative" /\ e.arg[1] = buttons'
             \/ e.type # "relative" /\ buttons' = buttons
      PROVE  ButtonInv'
  <2>1. SameMouse /\ writer' = writer /\ input' = input /\ gui' = Append(gui, e)
    BY <1>5 DEF Act, writerVars
  <2>2. writer = "running" => Pressed(input, Append(gui, e), buttons', previous_mouse_state)
    BY <1>1, <1>2, <1>5, PressedActed
  <2> QED BY <2>1, <2>2, <1>4
<1>6. CASE ActPlain
  <2>1. Event("plain", 0) \in GuiEvents /\ Event("plain", 0).type # "relative"
    BY EventsMade, EventIs
  <2> QED BY <2>1, <1>5, <1>6 DEF ActPlain
<1>7. ASSUME NEW mask \in Masks, NEW m \in Motions, MoveMouse(mask, m) PROVE ButtonInv'
  <2> DEFINE e == Event("relative", <<mask, m>>)
  <2>1. e \in GuiEvents /\ e.type = "relative" /\ e.arg[1] = mask
    BY EventsMade DEF Event
  <2>2. Act(e) /\ buttons' = mask
    BY <1>7 DEF MoveMouse
  <2> HIDE DEF e
  <2> QED BY <2>1, <2>2, <1>5
<1>8. ASSUME NEW s \in Sizes, ResizeWindow(s) PROVE ButtonInv'
  <2>1. Event("resized", s) \in GuiEvents /\ Event("resized", s).type # "relative"
    BY EventsMade, EventIs
  <2> QED BY <2>1, <1>5, <1>8 DEF ResizeWindow
<1>9. CASE CloseWindow
  BY <1>9, <1>2, <1>4 DEF CloseWindow, writerVars
<1>10. CASE Forward
  <2>1. SameMouse /\ writer' = writer /\ buttons' = buttons /\ gui # <<>> /\ gui' = Tail(gui)
        /\ (writer = "running" => input' = Append(input, Head(gui)))
    BY <1>10 DEF Forward, writerVars, userVars, Sent
  <2>2. writer = "running"
          => Pressed(Append(input, Head(gui)), Tail(gui), buttons, previous_mouse_state)
    BY <2>1, <1>1, <1>2, PressedForwarded
  <2> QED BY <2>1, <2>2, <1>4
<1>11. CASE EndForwarder
  BY <1>11, <1>2, <1>4 DEF EndForwarder, writerVars, userVars
<1>12. ASSUME NEW from, NEW to, Reading(from, to)
       PROVE  SameMouse /\ writer' = writer /\ buttons' = buttons /\ gui' = gui
  BY <1>12 DEF Reading, writerVars, userVars
<1>13. ASSUME NEW from, NEW to, Reading(from, to), input' = input PROVE ButtonInv'
  BY <1>12, <1>13, <1>2, <1>4
<1>14. ASSUME NEW from, NEW to, Reading(from, to), NEW e \in RfbWriteEvents,
              e.type # "relative", input' = Sent(e)
       PROVE  ButtonInv'
  <2>1. writer = "running" => Pressed(Append(input, e), gui, buttons, previous_mouse_state)
    BY <1>1, <1>2, <1>14, PressedSent
  <2>2. writer = "running" => input' = Append(input, e)
    BY <1>14 DEF Sent
  <2> QED BY <2>1, <2>2, <1>12, <1>14, <1>4
<1>15. \A s \in Sizes : /\ Event("enable", s) \in RfbWriteEvents
                        /\ Event("enable", s).type # "relative"
                        /\ Event("request", s) \in RfbWriteEvents
                        /\ Event("request", s).type # "relative"
  BY EventsMade, EventIs
<1>16. size \in Sizes /\ maybe_new_fb_size \in Sizes \cup {NoSize}
  BY DEF TypeOK
<1>17. CASE RequestFirst
  BY <1>14, <1>15, <1>16, <1>17 DEF RequestFirst
<1>18. CASE Heartbeat
  <2>1. Event("heartbeat", 0) \in RfbWriteEvents /\ Event("heartbeat", 0).type # "relative"
    BY EventsMade, EventIs
  <2> QED BY <2>1, <1>14, <1>18 DEF Heartbeat
<1>19. CASE WriteEndGone
  BY <1>13, <1>19 DEF WriteEndGone
<1>20. CASE BeginUpdate
  BY <1>13, <1>14, <1>15, <1>16, <1>20 DEF BeginUpdate
<1>21. ASSUME NEW new \in Sizes, DesktopSizeRect(new) PROVE ButtonInv'
  BY <1>13, <1>21 DEF DesktopSizeRect
<1>22. ASSUME NEW new \in Sizes, ExtendedDesktopSizeRect(new) PROVE ButtonInv'
  <2>1. Event("allow", TRUE) \in RfbWriteEvents /\ Event("allow", TRUE).type # "relative"
    BY EventsMade DEF Event
  <2>2. input' = Sent(Event("allow", TRUE))
    BY <1>22 DEF ExtendedDesktopSizeRect
  <2>3. \E to \in {"rects", "layout"} : Reading("rects", to)
    BY <1>22 DEF ExtendedDesktopSizeRect
  <2> QED BY <2>1, <2>2, <2>3, <1>14
<1>23. ASSUME NEW y \in Layouts, SetScreenLayout(y) PROVE ButtonInv'
  <2>1. Event("layout", y) \in RfbWriteEvents /\ Event("layout", y).type # "relative"
    BY EventsMade, EventIs
  <2> QED BY <2>1, <1>14, <1>23 DEF SetScreenLayout
<1>24. CASE EndUpdate
  BY <1>13, <1>14, <1>15, <1>16, <1>24 DEF EndUpdate
<1>25. ASSUME NEW flags \in SUBSET FenceFlags, AnswerFence(flags) PROVE ButtonInv'
  <2> DEFINE e == Event("fence", <<flags \cap Supported, Len(fences')>>)
  <2>1. Reading("packet", "heartbeat")
    BY <1>25 DEF AnswerFence
  <2>2. CASE "request" \in flags
    <3>1. fences' = Append(fences, flags) /\ input' = Sent(e)
      BY <2>2, <1>25 DEF AnswerFence
    <3>2. Len(fences') \in Nat
      BY <3>1 DEF TypeOK
    <3>3. e \in RfbWriteEvents
      BY <3>2, EventsMade
    <3>4. e.type # "relative"
      BY DEF Event
    <3> HIDE DEF e
    <3> QED BY <2>1, <3>1, <3>3, <3>4, <1>14
  <2>3. CASE "request" \notin flags
    <3>1. input' = input
      BY <2>3, <1>25 DEF AnswerFence
    <3> QED BY <2>1, <3>1, <1>13
  <2> QED BY <2>2, <2>3
<1>26. CASE OtherPacket
  BY <1>13, <1>26 DEF OtherPacket
<1>27. CASE ConnectionFails
  BY <1>13, <1>27 DEF ConnectionFails
<1>28. ASSUME NEW types, Handling(types)
       PROVE  /\ writer = "running" /\ input # <<>> /\ input' = Tail(input)
              /\ writer' = writer /\ buttons' = buttons /\ gui' = gui
              /\ Head(input).type \in types /\ NextEvent = Head(input)
              /\ Head(input) \in RfbWriteEvents
  BY <1>28, <1>1 DEF Handling, NextEvent, userVars
<1>29. ASSUME NEW types, Handling(types), "relative" \notin types, SameMouse PROVE ButtonInv'
  <2>1. Pressed(Tail(input), gui, buttons, previous_mouse_state)
    BY <1>28, <1>29, <1>1, <1>2, PressedHandled
  <2> QED BY <2>1, <1>28, <1>29, <1>4
<1>30. CASE WritePacket
  BY <1>29, <1>30 DEF WritePacket
<1>31. CASE MoveVirtualMouse
  <2> DEFINE h == Head(input)
             dx == Integer(difference + h.arg[2])
             sent == [mask |-> h.arg[1], dx |-> AsI16(dx)]
  <2>1. Handling({"relative"})
    BY <1>31 DEF MoveVirtualMouse
  <2>2. h.type = "relative" /\ NextEvent = h /\ writer = "running" /\ input # <<>>
        /\ input' = Tail(input) /\ buttons' = buttons /\ gui' = gui
    BY <2>1, <1>28
  <2>3. /\ previous_mouse_state' = h.arg[1]
        /\ mouse' = IF dx # 0 \/ h.arg[1] # previous_mouse_state
                    THEN Append(mouse, sent) ELSE mouse
    BY <2>2, <1>31 DEF MoveVirtualMouse
  <2>4. mouse \in Seq([mask : Masks, dx : I16]) /\ sent \in [mask : Masks, dx : I16]
    <3>1. h \in GuiEvents /\ difference \in Int
      BY <2>1, <2>2, <1>28, EventParts DEF TypeOK
    <3>2. h.arg[1] \in Masks /\ difference + h.arg[2] \in Int
      BY <3>1, <2>2, EventParts
    <3>3. AsI16(dx) \in I16
      BY <3>2, Numbers
    <3> QED BY <3>2, <3>3 DEF TypeOK
  <2>5. sent.mask = h.arg[1]
    OBVIOUS
  <2>6. Pressed(Tail(input), gui, buttons, h.arg[1])
    BY <2>2, <1>1, <1>2, PressedHandled
  <2> HIDE DEF h, dx, sent
  <2>7. Told'
    <3>1. CASE mouse' = Append(mouse, sent)
      <4>1. mouse' # <<>> /\ mouse'[Len(mouse')] = sent
        BY <2>4, <3>1
      <4> QED BY <4>1, <2>3, <2>5 DEF Told
    <3>2. CASE mouse' = mouse /\ h.arg[1] = previous_mouse_state
      BY <3>2, <2>3, <1>2 DEF Told
    <3> QED BY <3>1, <3>2, <2>3
  <2> QED BY <2>2, <2>3, <2>6, <2>7, <1>3
<1>32. CASE SetDesktopSize
  BY <1>29, <1>32 DEF SetDesktopSize
<1>33. CASE Remember
  BY <1>29, <1>33 DEF Remember
<1>34. CASE WriteFails
  BY <1>34, <1>4 DEF WriteFails
<1>35. CASE EndInput
  BY <1>35, <1>4 DEF EndInput
<1>36. CASE UNCHANGED vars
  BY <1>36, <1>2, <1>4 DEF vars, writerVars, userVars
<1> QED BY <1>6, <1>7, <1>8, <1>9, <1>10, <1>11, <1>17, <1>18, <1>19, <1>20, <1>21, <1>22,
           <1>23, <1>24, <1>25, <1>26, <1>27, <1>30, <1>31, <1>32, <1>33, <1>34, <1>35, <1>36
        DEF Next, User, Forwarder, ReaderGoesOn, Server, Writer

-----------------------------------------------------------------------------
(* Motion                                                                  *)

(* Division rounds down.                                                   *)
LEMMA Divided ==
  ASSUME NEW n \in Int, NEW u \in Int, u > 0
  PROVE  /\ n \div u \in Int
         /\ (n \div u) * u <= n /\ n < (n \div u) * u + u
  OBVIOUS

(* A product with a number that is not negative keeps the order.           *)
LEMMA Ordered ==
  ASSUME NEW a \in Int, NEW b \in Int, NEW u \in Int, u > 0, a * u < b * u
  PROVE  a < b
  OBVIOUS

(* The motion that is left after the whole pixels is less than a pixel,    *)
(* and the pixels of the motion and what was left before are a number of   *)
(* 16 bits.                                                                *)
LEMMA Whole ==
  ASSUME NEW n \in Int, -32767 * Unit < n, n < 32767 * Unit
  PROVE  /\ -Unit < n - Integer(n) * Unit /\ n - Integer(n) * Unit < Unit
         /\ AsI16(Integer(n)) = Integer(n)
<1>1. Unit \in Int /\ Unit > 0
  BY WriteEndAssumption
<1>2. ASSUME NEW k \in Int, 0 <= k, k < 32767 * Unit
      PROVE  /\ k \div Unit \in Int /\ (k \div Unit) * Unit <= k
             /\ k < (k \div Unit) * Unit + Unit
             /\ 0 <= k \div Unit /\ k \div Unit < 32767
  <2> DEFINE q == k \div Unit
  <2>1. q \in Int /\ q * Unit <= k /\ k < q * Unit + Unit
    BY <1>1, Divided
  <2> HIDE DEF q
  <2>2. q * Unit \in Int /\ 32767 * Unit \in Int /\ (q + 1) * Unit = q * Unit + Unit
    BY <1>1, <2>1
  <2>3. q < 32767
    <3>1. q * Unit < 32767 * Unit
      BY <1>2, <2>1, <2>2
    <3> QED BY <3>1, <1>1, <2>1, Ordered
  <2>4. -1 < q
    <3>1. 0 * Unit < (q + 1) * Unit
      BY <1>1, <1>2, <2>1, <2>2
    <3>2. 0 < q + 1
      BY <3>1, <1>1, <2>1, Ordered
    <3> QED BY <3>2, <2>1
  <2> QED BY <2>1, <2>3, <2>4 DEF q
<1>3. ASSUME NEW d \in Int, -32768 <= d, d <= 32767 PROVE AsI16(d) = d
  BY <1>3 DEF AsI16
<1>4. CASE n >= 0
  <2>1. Integer(n) = n \div Unit
    BY <1>4 DEF Integer
  <2> QED BY <2>1, <1>1, <1>2, <1>3, <1>4
<1>5. CASE n < 0
  <2> DEFINE q == (-n) \div Unit
  <2>1. Integer(n) = -q
    BY <1>5 DEF Integer
  <2>2. -n \in Int /\ 0 <= -n /\ -n < 32767 * Unit
    BY <1>1, <1>5
  <2>3. /\ q \in Int /\ q * Unit <= -n /\ -n < q * Unit + Unit
        /\ 0 <= q /\ q < 32767
    BY <2>2, <1>2
  <2> HIDE DEF q
  <2>4. (-q) * Unit = -(q * Unit) /\ q * Unit \in Int
    BY <2>3, <1>1
  <2>5. AsI16(-q) = -q
    BY <2>3, <1>3
  <2> QED BY <2>1, <2>3, <2>4, <2>5, <1>1
<1> QED BY <1>4, <1>5

(* Only the write end's answer to a motion touches what is counted.        *)
LEMMA MotionStep == TypeOK /\ MotionConserved /\ [Next]_vars => MotionConserved'
<1> SUFFICES ASSUME TypeOK, MotionConserved, [Next]_vars PROVE MotionConserved'
  OBVIOUS
<1>1. CASE UNCHANGED <<difference, moved, told>>
  BY <1>1 DEF MotionConserved
<1>2. CASE User
  <2>1. UNCHANGED writerVars
    BY <1>2 DEF User, ActPlain, MoveMouse, ResizeWindow, CloseWindow, Act
  <2> QED BY <2>1, <1>1 DEF writerVars
<1>3. CASE Forwarder
  <2>1. UNCHANGED writerVars
    BY <1>3 DEF Forwarder, Forward, EndForwarder
  <2> QED BY <2>1, <1>1 DEF writerVars
<1>4. ASSUME NEW from, NEW to, Reading(from, to) PROVE MotionConserved'
  BY <1>4, <1>1 DEF Reading, writerVars
<1>5. CASE ReaderGoesOn
  BY <1>5, <1>4 DEF ReaderGoesOn, RequestFirst, Heartbeat, WriteEndGone, SetScreenLayout
<1>6. CASE Server
  <2>1. CASE BeginUpdate
    BY <2>1, <1>4 DEF BeginUpdate
  <2>2. ASSUME NEW new \in Sizes, DesktopSizeRect(new) PROVE MotionConserved'
    BY <2>2, <1>4 DEF DesktopSizeRect
  <2>3. ASSUME NEW new \in Sizes, ExtendedDesktopSizeRect(new) PROVE MotionConserved'
    BY <2>3, <1>4 DEF ExtendedDesktopSizeRect
  <2>4. CASE EndUpdate
    BY <2>4, <1>4 DEF EndUpdate
  <2>5. ASSUME NEW flags \in SUBSET FenceFlags, AnswerFence(flags) PROVE MotionConserved'
    BY <2>5, <1>4 DEF AnswerFence
  <2>6. CASE OtherPacket
    BY <2>6, <1>4 DEF OtherPacket
  <2> QED BY <1>6, <2>1, <2>2, <2>3, <2>4, <2>5, <2>6 DEF Server
<1>7. CASE ConnectionFails
  BY <1>7, <1>4 DEF ConnectionFails
<1>8. CASE WritePacket \/ SetDesktopSize \/ Remember \/ WriteFails \/ EndInput
  <2>1. UNCHANGED <<difference, moved, told>>
    BY <1>8 DEF WritePacket, SetDesktopSize, Remember, WriteFails, EndInput
  <2> QED BY <2>1, <1>1
<1>9. CASE MoveVirtualMouse
  <2> DEFINE mask == NextEvent.arg[1]
             move == NextEvent.arg[2]
             sum  == difference + move
             dx   == Integer(sum)
             sent == [mask |-> mask, dx |-> AsI16(dx)]
  <2>1. NextEvent \in RfbWriteEvents /\ NextEvent.type = "relative"
    BY <1>9 DEF MoveVirtualMouse, Handling, NextEvent, TypeOK
  <2>2. NextEvent \in GuiEvents
    BY <2>1, EventParts
  <2>3. mask \in Masks /\ move \in Motions
    BY <2>1, <2>2, EventParts
  <2>4. /\ difference' = sum - dx * Unit /\ Counted(move)
        /\ \/ mouse' = Append(mouse, sent)
           \/ mouse' = mouse /\ dx = 0
    BY <1>9 DEF MoveVirtualMouse
  <2> HIDE DEF mask, move
  <2>5. /\ Unit \in Int /\ move \in Int /\ 32767 * Unit \in Int
        /\ move <= 32767 * Unit - Unit /\ -move <= 32767 * Unit - Unit
        /\ -32767 * Unit = -(32767 * Unit)
    BY <2>3, WriteEndAssumption
  <2>6. /\ difference \in Int /\ moved \in Int /\ told \in Int
        /\ mouse \in Seq([mask : Masks, dx : I16])
    BY DEF TypeOK
  <2>7. /\ moved = told * Unit + difference
        /\ -Unit < difference /\ difference < Unit
    BY DEF MotionConserved
  <2>8. sum \in Int /\ -32767 * Unit < sum /\ sum < 32767 * Unit
    BY <2>5, <2>6, <2>7
  <2> HIDE DEF sum
  <2>9. /\ -Unit < sum - dx * Unit /\ sum - dx * Unit < Unit
        /\ AsI16(dx) = dx /\ dx \in Int /\ dx \in I16
    BY <2>8, Whole, Numbers
  <2> HIDE DEF dx
  <2>10. told' = told + dx
    <3>1. CASE mouse' = mouse /\ dx = 0
      BY <3>1, <2>4, <2>6 DEF Counted
    <3>2. CASE mouse' = Append(mouse, sent)
      <4>1. sent \in [mask : Masks, dx : I16] /\ sent.dx = dx
        BY <2>3, <2>9
      <4> HIDE DEF sent
      <4>2. mouse'[Len(mouse')] = sent /\ mouse' # mouse
        BY <3>2, <4>1, <2>6
      <4> QED BY <4>1, <4>2, <2>4 DEF Counted
    <3> QED BY <3>1, <3>2, <2>4
  <2>11. moved' = told' * Unit + difference'
    <3>1. (told + dx) * Unit = told * Unit + dx * Unit /\ told * Unit \in Int
          /\ dx * Unit \in Int
      BY <2>5, <2>6, <2>9
    <3>2. moved' = moved + move /\ sum = difference + move
      BY <2>4 DEF Counted, sum
    <3> QED BY <3>1, <3>2, <2>4, <2>5, <2>6, <2>7, <2>8, <2>10
  <2> QED BY <2>4, <2>9, <2>11 DEF MotionConserved
<1>10. CASE UNCHANGED vars
  BY <1>10, <1>1 DEF vars, writerVars
<1> QED BY <1>2, <1>3, <1>5, <1>6, <1>7, <1>8, <1>9, <1>10 DEF Next, Writer

-----------------------------------------------------------------------------
(* Theorems                                                                *)

(* The write end returns Ok only after the reader, which finds an error.   *)
LEMMA EndStep == TypeOK /\ EndInv /\ [Next]_vars => EndInv'
<1> SUFFICES ASSUME TypeOK, EndInv, [Next]_vars PROVE EndInv'
  OBVIOUS
<1> USE DEF EndInv
<1>1. CASE UNCHANGED <<reader, writer>>
  BY <1>1
<1>2. ASSUME NEW from, NEW to, Reading(from, to), from # "returned",
             to # "panicked"
      PROVE  EndInv'
  BY <1>2 DEF Reading, writerVars
<1>3. CASE User
  <2>1. UNCHANGED <<reader, writer>>
    BY <1>3 DEF User, ActPlain, MoveMouse, ResizeWindow, CloseWindow, Act, readerVars, writerVars
  <2> QED BY <2>1, <1>1
<1>4. CASE Forwarder
  <2>1. UNCHANGED <<reader, writer>>
    BY <1>4 DEF Forwarder, Forward, EndForwarder, readerVars, writerVars
  <2> QED BY <2>1, <1>1
<1>5. CASE RequestFirst
  BY <1>5, <1>2 DEF RequestFirst
<1>6. CASE Heartbeat
  BY <1>6, <1>2 DEF Heartbeat
<1>7. CASE WriteEndGone
  <2>1. writer # "running" /\ reader = "heartbeat"
    BY <1>7 DEF WriteEndGone, Reading
  <2>2. writer = "err"
    BY <2>1 DEF TypeOK
  <2>3. Reading("heartbeat", "returned")
    BY <2>2, <1>7 DEF WriteEndGone
  <2> QED BY <2>3, <1>2
<1>8. ASSUME NEW y \in Layouts, SetScreenLayout(y) PROVE EndInv'
  BY <1>8, <1>2 DEF SetScreenLayout
<1>9. CASE Server
  <2>1. CASE BeginUpdate
    BY <2>1, <1>2 DEF BeginUpdate
  <2>2. ASSUME NEW new \in Sizes, DesktopSizeRect(new) PROVE EndInv'
    BY <2>2, <1>2 DEF DesktopSizeRect
  <2>3. ASSUME NEW new \in Sizes, ExtendedDesktopSizeRect(new) PROVE EndInv'
    BY <2>3, <1>2 DEF ExtendedDesktopSizeRect
  <2>4. CASE EndUpdate
    BY <2>4, <1>2 DEF EndUpdate
  <2>5. ASSUME NEW flags \in SUBSET FenceFlags, AnswerFence(flags) PROVE EndInv'
    BY <2>5, <1>2 DEF AnswerFence
  <2>6. CASE OtherPacket
    BY <2>6, <1>2 DEF OtherPacket
  <2> QED BY <1>9, <2>1, <2>2, <2>3, <2>4, <2>5, <2>6 DEF Server
<1>10. CASE ConnectionFails
  BY <1>10, <1>2 DEF ConnectionFails
<1>11. CASE Writer
  <2>1. ASSUME NEW types, Handling(types) PROVE UNCHANGED <<reader, writer>>
    BY <2>1 DEF Handling, readerVars
  <2>2. CASE WritePacket \/ MoveVirtualMouse \/ SetDesktopSize \/ Remember
    <3>1. \E types : Handling(types)
      BY <2>2 DEF WritePacket, MoveVirtualMouse, SetDesktopSize, Remember
    <3> QED BY <3>1, <2>1, <1>1
  <2>3. CASE WriteFails
    BY <2>3 DEF WriteFails, readerVars
  <2>4. CASE EndInput
    BY <2>4 DEF EndInput, readerVars
  <2> QED BY <1>11, <2>2, <2>3, <2>4 DEF Writer
<1>12. CASE UNCHANGED vars
  BY <1>12, <1>1 DEF vars, readerVars, writerVars
<1> QED BY <1>3, <1>4, <1>5, <1>6, <1>7, <1>8, <1>9, <1>10, <1>11, <1>12
        DEF Next, ReaderGoesOn

(* The invariant holds when the threads are spawned.                       *)
LEMMA InitInv == Init => IInv
<1> SUFFICES ASSUME Init PROVE IInv
  OBVIOUS
<1> DEFINE e == Event("enable", FirstSize)
<1>1. e \in RfbWriteEvents /\ e.type = "enable"
  BY WriteEndAssumption, EventsMade, EventIs
<1>2. input = Append(<<>>, e) /\ gui = <<>> /\ wire = <<>> /\ fences = <<>> /\ mouse = <<>>
  BY DEF Init
<1> HIDE DEF e
<1>3. /\ input \in Seq(RfbWriteEvents) /\ Len(input) = 1 /\ DOMAIN input = 1 .. 1 /\ input[1] = e
      /\ \A S : <<>> \in Seq(S)
  BY <1>1, <1>2
<1>4. \A x, y : DOMAIN <<>> = {} /\ Len(<<>>) = 0 /\ (\A t : None(x, 0, t)) /\ ~Last(x, 0, y)
  BY DEF None, Last
<1>5. TypeOK
  <2>1. /\ session \in Sessions /\ window = "open" /\ forwarder = "running"
        /\ reader = "starting" /\ size = FirstSize /\ maybe_new_fb_size = NoSize
        /\ writer = "running" /\ difference = 0 /\ moved = 0 /\ told = 0
        /\ previous_mouse_state = 0 /\ buttons = 0 /\ screen_layout = Empty
        /\ set_desktop_size_allowed = FALSE /\ events = 0 /\ packets = 0
    BY DEF Init
  <2>2. FirstSize \in Sizes /\ 0 \in Masks
    BY WriteEndAssumption
  <2>3. /\ gui \in Seq(GuiEvents) /\ input \in Seq(RfbWriteEvents)
        /\ wire \in Seq(Messages) /\ mouse \in Seq([mask : Masks, dx : I16])
        /\ fences \in Seq(SUBSET FenceFlags)
    BY <1>2, <1>3
  <2>4. {difference, moved, told} \subseteq Int /\ {previous_mouse_state, buttons} \subseteq Masks
        /\ {events, packets} \subseteq Nat
    BY <2>1, <2>2
  <2> QED BY <2>1, <2>2, <2>3, <2>4 DEF TypeOK
<1>6. Last(input, 1, e) /\ (\A t : e.type # t => None(input, 1, t))
  BY <1>3 DEF Last, None
<1>7. RequestInv
  <2>1. RequestsWritten(wire)
    BY <1>2, <1>4 DEF RequestsWritten
  <2>2. LastOf(wire, input, Len(input), Event("enable", size))
    BY <1>3, <1>6 DEF LastOf, Init, e
  <2> QED BY <1>1, <1>3, <2>1, <2>2 DEF RequestInv, RequestsQueued
<1>8. FenceInv
  <2>1. FencesWritten(wire, fences)
    BY <1>2, <1>4 DEF FencesWritten
  <2>2. Answered(wire, input, Len(input), fences, Len(fences))
    BY <1>1, <1>2, <1>3, <1>4, <1>6 DEF Answered, NoneOf
  <2> QED BY <1>1, <1>3, <2>1, <2>2 DEF FenceInv, FencesQueued
<1>9. ButtonInv
  <2>1. NoneOf(input, gui, Len(gui), "relative")
    BY <1>1, <1>2, <1>3, <1>4, <1>6 DEF NoneOf
  <2> QED BY <2>1, <1>2 DEF ButtonInv, Pressed, Init
<1>10. MotionConserved
  BY WriteEndAssumption DEF Init, MotionConserved
<1>11. EndInv
  BY DEF Init, EndInv
<1> QED BY <1>5, <1>7, <1>8, <1>9, <1>10, <1>11 DEF IInv

(* The invariant holds in every state.                                     *)
LEMMA Invariance == Spec => []IInv
<1>1. IInv /\ [Next]_vars => IInv'
  BY TypeOKStep, StepKinds, RequestStep, FenceStep, ButtonStep, MotionStep, EndStep DEF IInv
<1> QED BY <1>1, InitInv, PTL DEF Spec

(* Channels carry events, the wire messages, and datagrams what fits in    *)
(* them.                                                                   *)
THEOREM TypeCorrect == Spec => []TypeOK
<1>1. IInv => TypeOK
  BY DEF IInv
<1> QED BY <1>1, Invariance, PTL

(* The reader never meets a write end that returned Ok.                    *)
THEOREM JoinIsAnError == Spec => []NoPanic
<1>1. IInv => NoPanic
  BY DEF IInv, EndInv, NoPanic
<1> QED BY <1>1, Invariance, PTL

(* The maximum of a set of numbers that has one.                           *)
LEMMA MaxIs ==
  ASSUME NEW S \in SUBSET Int, NEW k \in S, \A y \in S : y <= k
  PROVE  Max(S) = k
<1>1. \A x \in S : (\A y \in S : x >= y) => x = k
  OBVIOUS
<1>2. \A y \in S : k >= y
  OBVIOUS
<1> QED BY <1>1, <1>2 DEF Max

(* A request is for the size that was enabled last, however the reader's   *)
(* events, the user's and the write end interleave.                        *)
THEOREM SizeIsEnabled == Spec => []RequestsMatchSize
<1>1. ASSUME IInv, NEW i \in DOMAIN wire, wire[i].type = "request"
      PROVE  LET enabled == {k \in 1 .. i : wire[k].type = "enable"}
             IN  enabled # {} /\ wire[Max(enabled)].arg = wire[i].arg
  <2> DEFINE enabled == {k \in 1 .. i : wire[k].type = "enable"}
             e == Event("enable", wire[i].arg)
  <2>1. e.type = "enable" /\ e.arg = wire[i].arg
    BY EventIs
  <2>2. Last(wire, i, e)
    BY <1>1 DEF IInv, RequestInv, RequestsWritten
  <2> HIDE DEF e
  <2>3. PICK k \in 1 .. i : wire[k] = e /\ \A l \in (k + 1) .. i : wire[l].type # e.type
    BY <2>2 DEF Last
  <2>4. i \in Nat
    BY <1>1 DEF IInv, TypeOK
  <2>5. k \in enabled /\ enabled \in SUBSET Int
    BY <2>1, <2>3, <2>4
  <2>6. \A y \in enabled : y <= k
    BY <2>1, <2>3, <2>4
  <2>7. Max(enabled) = k
    BY <2>5, <2>6, MaxIs
  <2> QED BY <2>1, <2>3, <2>5, <2>7
<1>2. IInv => RequestsMatchSize
  BY <1>1 DEF RequestsMatchSize
<1> QED BY <1>2, Invariance, PTL

(* The answers are the server's fences in their order, each once and with  *)
(* its payload.                                                            *)
THEOREM FencesInOrder == Spec => []FencesAnswered
<1>1. ASSUME IInv, NEW i \in DOMAIN wire, wire[i].type = "fence"
      PROVE  LET n       == wire[i].arg[2]
                 earlier == {k \in 1 .. (i - 1) : wire[k].type = "fence"}
             IN  /\ n = IF earlier = {} THEN 1 ELSE wire[Max(earlier)].arg[2] + 1
                 /\ n \in DOMAIN fences /\ wire[i].arg[1] = fences[n] \cap Supported
  <2> DEFINE earlier == {k \in 1 .. (i - 1) : wire[k].type = "fence"}
  <2>1. PICK n \in DOMAIN fences : /\ wire[i] = Answer(fences, n)
                                   /\ Answered(<<>>, wire, i - 1, fences, n - 1)
    BY <1>1 DEF IInv, FenceInv, FencesWritten
  <2>2. \A m : /\ Answer(fences, m).type = "fence" /\ Answer(fences, m).arg[2] = m
               /\ Answer(fences, m).arg[1] = fences[m] \cap Supported
    BY DEF Answer, Event
  <2>3. i - 1 \in Nat /\ n \in Nat
    BY <1>1 DEF IInv, TypeOK
  <2>4. CASE n = 1
    <3>1. NoneOf(<<>>, wire, i - 1, "fence")
      BY <2>1, <2>3, <2>4 DEF Answered
    <3>2. None(wire, i - 1, "fence")
      BY <3>1 DEF NoneOf
    <3>3. earlier = {}
      BY <3>2 DEF None
    <3> QED BY <2>1, <2>2, <2>4, <3>3
  <2>5. CASE n # 1
    <3>1. LastOf(<<>>, wire, i - 1, Answer(fences, n - 1))
      BY <2>1, <2>3, <2>5 DEF Answered
    <3>2. Last(wire, i - 1, Answer(fences, n - 1))
      BY <3>1, Border
    <3>3. PICK k \in 1 .. (i - 1) :
            /\ wire[k] = Answer(fences, n - 1)
            /\ \A l \in (k + 1) .. (i - 1) : wire[l].type # "fence"
      BY <3>2, <2>2 DEF Last
    <3>4. k \in earlier /\ earlier \in SUBSET Int
      BY <3>3, <2>2, <2>3
    <3>5. \A y \in earlier : y <= k
      BY <3>3, <2>3
    <3>6. Max(earlier) = k
      BY <3>4, <3>5, MaxIs
    <3>7. n = wire[Max(earlier)].arg[2] + 1
      BY <3>6, <3>3, <2>2, <2>3
    <3>8. wire[i].arg[2] = n /\ wire[i].arg[1] = fences[n] \cap Supported
      BY <2>1, <2>2
    <3>9. earlier # {}
      BY <3>4
    <3> QED BY <3>7, <3>8, <3>9
  <2> QED BY <2>4, <2>5
<1>2. IInv => FencesAnswered
  BY <1>1 DEF FencesAnswered
<1> QED BY <1>2, Invariance, PTL

(* When nothing the user did is on its way the mouse server was told the   *)
(* buttons that are pressed: a release is not kept back with a motion of   *)
(* less than a pixel.                                                      *)
THEOREM ReleaseIsTold == Spec => []ButtonsKnown
<1>1. ASSUME IInv, writer = "running", gui = <<>>,
             \A i \in DOMAIN input : input[i].type # "relative"
      PROVE  buttons = IF mouse = <<>> THEN 0 ELSE mouse[Len(mouse)].mask
  <2>1. DOMAIN input = 1 .. Len(input) /\ Len(gui) = 0
    BY <1>1 DEF IInv, TypeOK
  <2>2. ASSUME NEW e, e.type = "relative" PROVE ~LastOf(input, gui, Len(gui), e)
    BY <1>1, <2>1, <2>2 DEF LastOf, Last
  <2>3. buttons = previous_mouse_state
    BY <1>1, <2>2 DEF IInv, ButtonInv, Pressed
  <2> QED BY <1>1, <2>3 DEF IInv, ButtonInv
<1>2. IInv => ButtonsKnown
  BY <1>1 DEF ButtonsKnown
<1> QED BY <1>2, Invariance, PTL

(* What the mouse server is told and the fraction that is kept are what    *)
(* the user moved, for every motion that is less than 32766 pixels and     *)
(* every way to divide a pixel.                                            *)
THEOREM NoMotionLost == Spec => []MotionConserved
<1>1. IInv => MotionConserved
  BY DEF IInv
<1> QED BY <1>1, Invariance, PTL

=============================================================================
