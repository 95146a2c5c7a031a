---------------------------- MODULE SerialProofs ----------------------------
(***************************************************************************)
(* What is sent over the serial port arrives whole and in order, for all   *)
(* strokes and texts that can be read at all, wherever the bus is reset    *)
(* (module SerialInvariant has the argument).                              *)
(***************************************************************************)
EXTENDS SerialInvariant, SequenceTheorems, TLAPS

-----------------------------------------------------------------------------
(* Packets.                                                                 *)

Bar == <<"#", "bar">>

\* The places of the keys in their sets.
LEMMA Places ==
  /\ DOMAIN Sets = 1..4
  /\ \A k \in 1..4 : DOMAIN Sets[k] = IF k = 4 THEN 1..5 ELSE 1..6
  /\ \A k \in 1..3, i \in 1..6 : Sets[k][i] # Bar
  /\ Sets[4][1] = <<"T", "final">>
<1>1. /\ DOMAIN Sets = 1..4
      /\ Sets[1] = <<<<"S", "initial">>, <<"T", "initial">>, <<"K", "initial">>,
                     <<"P", "initial">>, <<"W", "initial">>, <<"H", "initial">>>>
      /\ Sets[2] = <<<<"R", "initial">>, <<"A", "middle">>, <<"O", "middle">>,
                     <<"*", "middle">>, <<"E", "middle">>, <<"U", "middle">>>>
      /\ Sets[3] = <<<<"F", "final">>, <<"R", "final">>, <<"P", "final">>,
                     <<"B", "final">>, <<"L", "final">>, <<"G", "final">>>>
      /\ Sets[4] = <<<<"T", "final">>, <<"S", "final">>, <<"D", "final">>,
                     <<"Z", "final">>, <<"#", "bar">>>>
  BY DEF Sets
<1> HIDE DEF Sets
<1>2. \A i \in 1..6 : Sets[1][i] # Bar /\ Sets[2][i] # Bar /\ Sets[3][i] # Bar
  BY <1>1 DEF Bar
<1>3. /\ DOMAIN Sets[1] = 1..6 /\ DOMAIN Sets[2] = 1..6 /\ DOMAIN Sets[3] = 1..6
      /\ DOMAIN Sets[4] = 1..5 /\ Sets[4][1] = <<"T", "final">>
  BY <1>1
<1> QED
  BY <1>1, <1>2, <1>3

LEMMA PagesAreBytes ==
  ASSUME NEW stroke, NEW k \in 1..4
  PROVE  Page(stroke, k) \in Bytes /\ Page(stroke, k).set = k - 1
<1>1. ASSUME NEW i \in DOMAIN Sets[k]
      PROVE  Bit(k, i) \in 0..5
  BY Places DEF Bit
<1>2. {Bit(k, i) : i \in {j \in DOMAIN Sets[k] : IsSet(stroke, Sets[k][j])}} \subseteq 0..5
  BY <1>1
<1> QED
  BY <1>2 DEF Page, Byte, Bytes

\* The bytes of a packet before its zero: none is empty, and the sets go up.
GoUp(q, n) ==
  /\ q \in Seq(Bytes) /\ Len(q) <= n
  /\ \A i \in 1..Len(q) :
       /\ q[i].bits # {} /\ q[i].set < n
       /\ \A j \in 1..(i - 1) : q[j].set < q[i].set

Has(q, x) == \E i \in 1..Len(q) : x = q[i]

LEMMA OneMorePage ==
  ASSUME NEW m \in 0..3, NEW n, n = m + 1, NEW q, GoUp(q, m), NEW b \in Bytes, b.set = m
  PROVE  /\ GoUp(q \o IfAny(b), n)
         /\ \A x : Has(q \o IfAny(b), x) <=> Has(q, x) \/ (b.bits # {} /\ x = b)
<1>1. /\ q \in Seq(Bytes) /\ Len(q) \in Nat /\ Len(q) <= m
      /\ \A i \in 1..Len(q) : q[i].set \in 0..3 /\ q[i].set < m /\ q[i].bits # {}
      /\ \A i \in 1..Len(q) : \A j \in 1..(i - 1) : q[j].set < q[i].set
  <2>1. q \in Seq(Bytes) /\ \A i \in 1..Len(q) : q[i] \in Bytes
    BY DEF GoUp
  <2> QED
    BY <2>1 DEF GoUp, Bytes
<1>2. CASE b.bits = {}
  <2>1. q \o IfAny(b) = q
    BY <1>1, <1>2 DEF IfAny
  <2>2. GoUp(q, n)
    BY <1>1 DEF GoUp
  <2> QED
    BY <1>2, <2>1, <2>2
<1>3. CASE b.bits # {}
  <2> DEFINE p == q \o <<b>>
  <2>1. q \o IfAny(b) = p
    BY <1>3 DEF IfAny
  <2>2. /\ p \in Seq(Bytes) /\ Len(p) = Len(q) + 1
        /\ \A i \in 1..Len(q) : p[i] = q[i]
        /\ p[Len(q) + 1] = b
    BY <1>1
  <2> HIDE DEF p
  <2>3. GoUp(p, n)
    <3>1. Len(p) <= n
      BY <1>1, <2>2
    <3>2. ASSUME NEW i \in 1..Len(p)
          PROVE  /\ p[i].bits # {} /\ p[i].set < n
                 /\ \A j \in 1..(i - 1) : p[j].set < p[i].set
      <4>1. CASE i \in 1..Len(q)
        <5>1. p[i] = q[i] /\ \A j \in 1..(i - 1) : j \in 1..Len(q) /\ p[j] = q[j]
          BY <1>1, <2>2, <4>1
        <5> QED
          BY <1>1, <4>1, <5>1
      <4>2. CASE i = Len(q) + 1
        <5>1. p[i] = b /\ \A j \in 1..(i - 1) : j \in 1..Len(q) /\ p[j] = q[j]
          BY <1>1, <2>2, <4>2
        <5> QED
          BY <1>1, <1>3, <5>1
      <4> QED
        BY <1>1, <2>2, <4>1, <4>2
    <3> QED
      BY <2>2, <3>1, <3>2 DEF GoUp
  <2>4. \A x : Has(p, x) <=> Has(q, x) \/ x = b
    <3>1. 1..Len(p) = 1..Len(q) \cup {Len(q) + 1}
      BY <1>1, <2>2
    <3> QED
      BY <2>2, <3>1 DEF Has
  <2> QED
    BY <1>3, <2>1, <2>3, <2>4
<1> QED
  BY <1>2, <1>3

LEMMA PagesGoUp ==
  ASSUME NEW stroke
  PROVE  /\ GoUp(Pages(stroke), 4)
         /\ ToSet(Pages(stroke)) = {b \in {Page(stroke, k) : k \in 1..4} : b.bits # {}}
<1> DEFINE q1 == IfAny(Page(stroke, 1))
           q2 == q1 \o IfAny(Page(stroke, 2))
           q3 == q2 \o IfAny(Page(stroke, 3))
           q4 == q3 \o IfAny(Page(stroke, 4))
<1>1. GoUp(<<>>, 0) /\ (\A x : ~Has(<<>>, x)) /\ <<>> \o q1 = q1
  BY DEF GoUp, IfAny, Has
<1>2. /\ GoUp(q1, 1)
      /\ \A x : Has(q1, x) <=> Page(stroke, 1).bits # {} /\ x = Page(stroke, 1)
  <2>1. PICK page : page = Page(stroke, 1) /\ page \in Bytes /\ page.set = 0
    BY PagesAreBytes
  <2>2. PICK m \in 0..3, n \in 1..4 : m = 0 /\ n = 1 /\ n = m + 1
    OBVIOUS
  <2>3. GoUp(<<>>, m) /\ page \in Bytes /\ page.set = m
    BY <1>1, <2>1, <2>2
  <2>4. GoUp(<<>> \o IfAny(page), n)
    BY <2>2, <2>3, OneMorePage
  <2>5. \A x : Has(<<>> \o IfAny(page), x) <=> Has(<<>>, x) \/ (page.bits # {} /\ x = page)
    BY <2>2, <2>3, OneMorePage
  <2>6. <<>> \o IfAny(page) = q1
    BY <1>1, <2>1
  <2> QED
    BY <1>1, <2>1, <2>2, <2>4, <2>5, <2>6
<1> HIDE DEF q1
<1>3. /\ GoUp(q2, 2)
      /\ \A x : Has(q2, x) <=> Has(q1, x) \/ (Page(stroke, 2).bits # {} /\ x = Page(stroke, 2))
  <2>1. PICK page : page = Page(stroke, 2) /\ page \in Bytes /\ page.set = 1
    BY PagesAreBytes
  <2>2. PICK m \in 0..3, n \in 1..4 : m = 1 /\ n = 2 /\ n = m + 1
    OBVIOUS
  <2>3. GoUp(q1, m) /\ page \in Bytes /\ page.set = m
    BY <1>2, <2>1, <2>2
  <2>4. GoUp(q1 \o IfAny(page), n)
    BY <2>2, <2>3, OneMorePage
  <2>5. \A x : Has(q1 \o IfAny(page), x) <=> Has(q1, x) \/ (page.bits # {} /\ x = page)
    BY <2>2, <2>3, OneMorePage
  <2>6. q1 \o IfAny(page) = q2
    BY <1>1, <2>1
  <2> QED
    BY <1>1, <2>1, <2>2, <2>4, <2>5, <2>6
<1> HIDE DEF q2
<1>4. /\ GoUp(q3, 3)
      /\ \A x : Has(q3, x) <=> Has(q2, x) \/ (Page(stroke, 3).bits # {} /\ x = Page(stroke, 3))
  <2>1. PICK page : page = Page(stroke, 3) /\ page \in Bytes /\ page.set = 2
    BY PagesAreBytes
  <2>2. PICK m \in 0..3, n \in 1..4 : m = 2 /\ n = 3 /\ n = m + 1
    OBVIOUS
  <2>3. GoUp(q2, m) /\ page \in Bytes /\ page.set = m
    BY <1>3, <2>1, <2>2
  <2>4. GoUp(q2 \o IfAny(page), n)
    BY <2>2, <2>3, OneMorePage
  <2>5. \A x : Has(q2 \o IfAny(page), x) <=> Has(q2, x) \/ (page.bits # {} /\ x = page)
    BY <2>2, <2>3, OneMorePage
  <2>6. q2 \o IfAny(page) = q3
    BY <1>1, <2>1
  <2> QED
    BY <1>1, <2>1, <2>2, <2>4, <2>5, <2>6
<1> HIDE DEF q3
<1>5. /\ GoUp(q4, 4)
      /\ \A x : Has(q4, x) <=> Has(q3, x) \/ (Page(stroke, 4).bits # {} /\ x = Page(stroke, 4))
  <2>1. PICK page : page = Page(stroke, 4) /\ page \in Bytes /\ page.set = 3
    BY PagesAreBytes
  <2>2. PICK m \in 0..3, n \in 1..4 : m = 3 /\ n = 4 /\ n = m + 1
    OBVIOUS
  <2>3. GoUp(q3, m) /\ page \in Bytes /\ page.set = m
    BY <1>4, <2>1, <2>2
  <2>4. GoUp(q3 \o IfAny(page), n)
    BY <2>2, <2>3, OneMorePage
  <2>5. \A x : Has(q3 \o IfAny(page), x) <=> Has(q3, x) \/ (page.bits # {} /\ x = page)
    BY <2>2, <2>3, OneMorePage
  <2>6. q3 \o IfAny(page) = q4
    BY <1>1, <2>1
  <2> QED
    BY <1>1, <2>1, <2>2, <2>4, <2>5, <2>6
<1>6. q4 = Pages(stroke)
  BY DEF q1, q2, q3, Pages
<1> HIDE DEF q4
<1>7. \A x : Has(q4, x) <=> \E k \in 1..4 : Page(stroke, k).bits # {} /\ x = Page(stroke, k)
  BY <1>2, <1>3, <1>4, <1>5
<1>8. \A x : x \in ToSet(q4) <=> Has(q4, x)
  BY <1>5 DEF ToSet, GoUp, Has
<1> QED
  BY <1>5, <1>6, <1>7, <1>8

\* The listener takes the keys of a packet for those of the stroke, but for the
\* two that share a bit.
LEMMA KeysAreHeard ==
  ASSUME NEW s, s \subseteq PacketKeys
  PROVE  /\ StrokeOf(Pages(s)) \ Confused = s \ Confused
         /\ Bar \notin s => StrokeOf(Pages(s)) = s
<1>1. \A x : x \in StrokeOf(Pages(s)) <=>
        \E k \in 1..4 : \E bit \in Page(s, k).bits : x = Sets[k][bit + 1]
  <2>1. \A k \in 1..4 : Page(s, k).set + 1 = k
    BY PagesAreBytes
  <2>2. \A x : x \in StrokeOf(Pages(s)) <=>
          \E b \in ToSet(Pages(s)) : \E bit \in b.bits : x = Sets[b.set + 1][bit + 1]
    BY DEF StrokeOf
  <2>3. \A b : b \in ToSet(Pages(s)) <=> b.bits # {} /\ \E k \in 1..4 : b = Page(s, k)
    BY PagesGoUp
  <2> QED
    BY <2>1, <2>2, <2>3
<1>2. \A k \in 1..4 : \A bit : bit \in Page(s, k).bits <=>
        \E i \in DOMAIN Sets[k] : Sets[k][i] \in s /\ bit = Bit(k, i)
  BY DEF Page, Byte, IsSet
<1>3. \A k \in 1..4 : \A i \in DOMAIN Sets[k] :
        Sets[k][Bit(k, i) + 1] = IF Sets[k][i] = Bar THEN <<"T", "final">> ELSE Sets[k][i]
  <2> SUFFICES ASSUME NEW k \in 1..4, NEW i \in DOMAIN Sets[k]
               PROVE  Sets[k][Bit(k, i) + 1] =
                        IF Sets[k][i] = Bar THEN <<"T", "final">> ELSE Sets[k][i]
    OBVIOUS
  <2>1. i \in 1..6
    BY Places
  <2>2. CASE Sets[k][i] = Bar
    <3>1. k = 4 /\ Bit(k, i) = 0
      BY <2>1, <2>2, Places DEF Bit, Bar
    <3> QED
      BY <2>2, <3>1, Places
  <2>3. CASE Sets[k][i] # Bar
    <3>1. Bit(k, i) + 1 = i
      BY <2>1, <2>3 DEF Bit, Bar
    <3> QED
      BY <2>3, <3>1
  <2> QED
    BY <2>2, <2>3
<1>4. \A x : x \in StrokeOf(Pages(s)) <=>
        \E k \in 1..4 : \E i \in DOMAIN Sets[k] :
          /\ Sets[k][i] \in s
          /\ x = IF Sets[k][i] = Bar THEN <<"T", "final">> ELSE Sets[k][i]
  BY <1>1, <1>2, <1>3
<1>5. \A x \in s : \E k \in 1..4 : \E i \in DOMAIN Sets[k] : x = Sets[k][i]
  BY Places DEF PacketKeys, ToSet
<1>6. \A x : x \in StrokeOf(Pages(s)) <=>
        \E y \in s : x = IF y = Bar THEN <<"T", "final">> ELSE y
  BY <1>4, <1>5
<1> QED
  BY <1>6 DEF Confused, Bar

-----------------------------------------------------------------------------
(* The listener.                                                            *)

LEMMA PacketsEnd ==
  ASSUME StrokesAreReadable, NEW s \in Strokes
  PROVE  /\ Packet(s) = Append(Pages(s), Zero)
         /\ GoUp(Pages(s), 4) /\ Pages(s) # <<>>
<1>1. Packet(s) = Append(Pages(s), Zero)
  BY DEF Packet, make_packet, StrokesAreReadable
<1>2. GoUp(Pages(s), 4)
  BY PagesGoUp
<1>3. s # {} /\ s \subseteq PacketKeys
  BY SerialAssumption DEF StrokesAreReadable
<1>4. PICK x \in s, k \in 1..4 : \E i \in DOMAIN Sets[k] : x = Sets[k][i]
  BY <1>3, Places DEF PacketKeys, ToSet
<1>5. Page(s, k).bits # {}
  BY <1>4 DEF Page, Byte, IsSet
<1>6. Page(s, k) \in ToSet(Pages(s))
  BY <1>5, PagesGoUp
<1>7. Pages(s) # <<>>
  BY <1>6 DEF ToSet
<1> QED
  BY <1>1, <1>2, <1>7

\* A listener that has heard a part of a packet takes the stroke for complete
\* at the last byte, and not before.
LEMMA ZeroEndsThePacket ==
  ASSUME StrokesAreReadable, NEW s \in Strokes,
         NEW heard \in Seq(Bytes), NEW rest \in Seq(Bytes), rest # <<>>,
         heard \o rest = Packet(s)
  PROVE  /\ Len(rest) <= 5 /\ Len(heard) <= 4
         /\ EndsBefore(heard, Head(rest)) <=> Tail(rest) = <<>>
         /\ Head(rest) = Zero <=> Tail(rest) = <<>>
         /\ Tail(rest) = <<>> => heard = Pages(s)
<1> DEFINE q == Pages(s)
           n == Len(heard)
<1>1. /\ q \in Seq(Bytes) /\ q # <<>> /\ Len(q) \in Nat /\ Len(q) <= 4
      /\ heard \o rest = Append(q, Zero)
      /\ \A i \in 1..Len(q) : q[i].bits # {} /\ \A j \in 1..(i - 1) : q[j].set < q[i].set
  BY PacketsEnd DEF GoUp
<1> HIDE DEF q
<1>2. /\ n \in Nat /\ Len(rest) \in Nat \ {0} /\ n + Len(rest) = Len(q) + 1
      /\ \A i \in 1..n : heard[i] = Append(q, Zero)[i]
      /\ Head(rest) = Append(q, Zero)[n + 1]
  <2>1. Len(heard \o rest) = Len(heard) + Len(rest) /\ Len(Append(q, Zero)) = Len(q) + 1
    BY <1>1
  <2>2. Len(rest) # 0
    OBVIOUS
  <2>3. \A i \in 1..n : heard[i] = (heard \o rest)[i]
    OBVIOUS
  <2>4. Head(rest) = (heard \o rest)[n + 1]
    BY <2>2
  <2> QED
    BY <1>1, <2>1, <2>2, <2>3, <2>4
<1>3. \A i \in 1..n : heard[i] = q[i]
  BY <1>1, <1>2
<1>4. Tail(rest) = <<>> <=> n = Len(q)
  <2>1. Tail(rest) \in Seq(Bytes) /\ Len(Tail(rest)) = Len(rest) - 1
    OBVIOUS
  <2>2. Tail(rest) = <<>> <=> Len(Tail(rest)) = 0
    BY <2>1, EmptySeq
  <2> QED
    BY <1>1, <1>2, <2>1, <2>2
<1>5. CASE n = Len(q)
  <2>1. Head(rest) = Zero
    BY <1>1, <1>2, <1>5
  <2>2. heard = q
    BY <1>1, <1>2, <1>3, <1>5
  <2> QED
    BY <1>1, <1>2, <1>4, <1>5, <2>1, <2>2 DEF EndsBefore, q
<1>6. CASE n < Len(q)
  <2>1. Head(rest) = q[n + 1] /\ n + 1 \in 1..Len(q)
    BY <1>1, <1>2, <1>6
  <2>2. Head(rest) # Zero
    BY <1>1, <2>1 DEF Zero, Byte
  <2>3. ASSUME heard # <<>>
        PROVE  ~(Head(rest).set <= Last(heard).set)
    <3>1. n \in 1..Len(q) /\ Last(heard) = q[n] /\ n \in 1..((n + 1) - 1)
      BY <1>1, <1>2, <1>3, <1>6, <2>3 DEF Last
    <3>2. q[n].set < q[n + 1].set
      BY <1>1, <2>1, <3>1
    <3>3. q[n] \in Bytes /\ q[n + 1] \in Bytes
      BY <1>1, <2>1, <3>1
    <3>4. q[n].set \in 0..3 /\ q[n + 1].set \in 0..3
      BY <3>3 DEF Bytes
    <3> QED
      BY <2>1, <3>1, <3>2, <3>4
  <2> QED
    BY <1>1, <1>2, <1>4, <1>6, <2>2, <2>3 DEF EndsBefore
<1> QED
  BY <1>1, <1>2, <1>5, <1>6

-----------------------------------------------------------------------------
(* The invariant.                                                           *)

LEMMA SerialInvInit == Init => SerialInv
<1> SUFFICES ASSUME Init
             PROVE  SerialInv
  OBVIOUS
<1>1. /\ use \in {"strokes", "text"} /\ todo = <<>> /\ owed = <<>> /\ inEp = {}
      /\ line = <<>> /\ part = <<>> /\ configured = FALSE /\ open = FALSE
      /\ Heard = 0 /\ Held = 0
  BY DEF Init, Heard, Held
<1>2. Ends
  BY <1>1 DEF Ends
<1>3. StrokesUnderWay
  BY <1>1 DEF StrokesUnderWay
<1>4. TextsUnderWay
  BY <1>1 DEF TextsUnderWay
<1> QED
  BY <1>2, <1>3, <1>4 DEF SerialInv

LEMMA SendStrokeKeepsSerialInv ==
  ASSUME StrokesAreReadable, SerialInv, NEW stroke \in Strokes, SendStroke(stroke)
  PROVE  SerialInv'
<1>1. CASE inEp' = inEp /\ owed' = owed
  BY <1>1 DEF SerialInv, Ends, StrokesUnderWay, TextsUnderWay, Held, Heard, SendStroke
<1>2. CASE ~(inEp' = inEp /\ owed' = owed)
  <2>1. /\ inEp = {} /\ inEp' = {Packet(stroke)} /\ owed' = Append(owed, stroke)
        /\ configured /\ use = "strokes"
        /\ UNCHANGED <<use, todo, configured, open, line, part>>
    BY <1>2 DEF SendStroke, Packet, Accepts
  <2>2. Ends'
    BY <2>1 DEF SerialInv, Ends
  <2>3. /\ owed \in Seq(Strokes) /\ Heard \in {0, 1} /\ Len(owed) = Heard
        /\ Heard' = Heard /\ Held' = 1
        /\ line # <<>> => part \o line = Packet(owed[1])
    BY <2>1 DEF SerialInv, StrokesUnderWay, Held, Heard
  <2>4. /\ owed' \in Seq(Strokes) /\ Len(owed') = Heard' + Held'
        /\ owed'[Heard' + 1] = stroke
        /\ Heard = 1 => owed'[1] = owed[1]
    BY <2>1, <2>3
  <2>5. StrokesUnderWay'
    BY <2>1, <2>3, <2>4 DEF SerialInv, StrokesUnderWay, Heard
  <2> QED
    BY <2>1, <2>2, <2>5 DEF SerialInv, TextsUnderWay
<1> QED
  BY <1>1, <1>2

LEMMA ReadStrokeKeepsSerialInv ==
  ASSUME StrokesAreReadable, SerialInv, ReadStroke
  PROVE  SerialInv'
<1>1. PICK packet \in inEp : line' = packet
  BY DEF ReadStroke
<1>2. /\ use = "strokes" /\ line = <<>> /\ inEp' = {} /\ part = <<>>
      /\ UNCHANGED <<use, todo, configured, open, part, owed>>
      /\ configured
  BY <1>1 DEF ReadStroke, SerialInv, Ends
<1>3. /\ owed \in Seq(Strokes) /\ Len(owed) = 1 /\ packet = Packet(owed[1]) /\ todo = <<>>
  BY <1>1, <1>2 DEF SerialInv, StrokesUnderWay, Held, Heard
<1>4. owed[1] \in Strokes
  BY <1>3
<1>5. packet \in Seq(Bytes) /\ packet # <<>>
  <2>1. packet = Append(Pages(owed[1]), Zero) /\ Pages(owed[1]) \in Seq(Bytes)
    BY <1>3, <1>4, PacketsEnd DEF GoUp
  <2>2. Zero \in Bytes
    BY DEF Zero, Byte, Bytes
  <2> QED
    BY <2>1, <2>2
<1>6. Ends'
  BY <1>2 DEF SerialInv, Ends
<1>7. /\ Heard' = 1 /\ Held' = 0 /\ part' \in Seq(Bytes) /\ part' \o line' = packet
  BY <1>1, <1>2, <1>5 DEF Heard, Held
<1>8. StrokesUnderWay'
  BY <1>1, <1>2, <1>3, <1>5, <1>7 DEF StrokesUnderWay
<1> QED
  BY <1>2, <1>6, <1>8 DEF SerialInv, TextsUnderWay

LEMMA HearKeepsSerialInv ==
  ASSUME StrokesAreReadable, SerialInv, Hear
  PROVE  SerialInv'
<1> DEFINE byte == Head(line)
<1>1. /\ use = "strokes" /\ line # <<>> /\ configured
      /\ todo = <<>> /\ owed \in Seq(Strokes) /\ line \in Seq(Bytes) /\ part \in Seq(Bytes)
      /\ Heard = 1 /\ Held \in {0, 1} /\ Len(owed) = 1 + Held
      /\ part \o line = Packet(owed[1])
      /\ \A p \in inEp : p = Packet(owed[2])
  <2>1. line # <<>> /\ configured
    BY DEF Hear, SerialInv, Ends
  <2>2. use = "strokes"
    BY <2>1 DEF SerialInv, Ends, TextsUnderWay
  <2>3. Heard = 1 /\ Held \in {0, 1}
    BY <2>1 DEF Heard, Held
  <2>4. /\ todo = <<>> /\ owed \in Seq(Strokes) /\ line \in Seq(Bytes) /\ part \in Seq(Bytes)
        /\ Len(owed) = Heard + Held
        /\ part \o line = Packet(owed[1])
        /\ \A p \in inEp : p = Packet(owed[Heard + 1])
    BY <2>1, <2>2 DEF SerialInv, StrokesUnderWay
  <2> QED
    BY <2>1, <2>2, <2>3, <2>4
<1>2. /\ UNCHANGED <<use, todo, configured, open, inEp>> /\ line' = Tail(line)
      /\ owed' = IF EndsBefore(part, byte) THEN Tail(owed) ELSE owed
      /\ part' = (IF EndsBefore(part, byte) THEN <<>> ELSE part)
                   \o (IF byte = Zero THEN <<>> ELSE <<byte>>)
      /\ Held' = Held
  BY DEF Hear, Held
<1>3. owed[1] \in Strokes
  BY <1>1
<1>4. /\ EndsBefore(part, byte) <=> Tail(line) = <<>>
      /\ byte = Zero <=> Tail(line) = <<>>
  BY <1>1, <1>3, ZeroEndsThePacket
<1>5. /\ byte \in Bytes /\ Tail(line) \in Seq(Bytes) /\ line = <<byte>> \o Tail(line)
  BY <1>1
<1> HIDE DEF byte
<1>6. CASE Tail(line) = <<>>
  <2>1. owed' = Tail(owed) /\ part' = <<>> /\ line' = <<>> /\ Heard' = 0
    BY <1>2, <1>4, <1>6 DEF Heard
  <2>2. owed' \in Seq(Strokes) /\ Len(owed') = Held /\ (Held = 1 => owed'[1] = owed[2])
    BY <1>1, <2>1
  <2>3. inEp # {} => Held = 1
    BY DEF Held
  <2>4. Ends'
    BY <1>1, <1>2, <2>1 DEF SerialInv, Ends
  <2>5. line' \in Seq(Bytes) /\ part' \in Seq(Bytes)
    BY <2>1
  <2>6. \A p \in inEp' : p = Packet(owed'[Heard' + 1])
    BY <1>1, <1>2, <2>1, <2>2, <2>3
  <2>7. Len(owed') = Heard' + Held'
    BY <1>1, <1>2, <2>1, <2>2
  <2>8. StrokesUnderWay'
    BY <1>1, <1>2, <2>1, <2>2, <2>5, <2>6, <2>7 DEF StrokesUnderWay
  <2> QED
    BY <1>1, <1>2, <2>4, <2>8 DEF SerialInv, TextsUnderWay
<1>7. CASE Tail(line) # <<>>
  <2>1. owed' = owed /\ part' = part \o <<byte>> /\ line' = Tail(line) /\ Heard' = 1
    BY <1>2, <1>4, <1>7 DEF Heard
  <2>2. part' \in Seq(Bytes) /\ part' \o line' = part \o line
    <3>1. (part \o <<byte>>) \o Tail(line) = part \o (<<byte>> \o Tail(line))
      BY <1>1, <1>5
    <3> QED
      BY <1>1, <1>5, <2>1, <3>1
  <2> QED
    BY <1>1, <1>2, <1>5, <1>7, <2>1, <2>2 DEF SerialInv, Ends, StrokesUnderWay, TextsUnderWay
<1> QED
  BY <1>6, <1>7

\* A call has a text for each thing that it promises.
LEMMA TextsAreReadings ==
  ASSUME TextsAreReadable, NEW call \in Calls
  PROVE  /\ TextsOf(call) \in Seq(Texts) /\ Promised(call) \in Seq(Readings)
         /\ Len(TextsOf(call)) = Len(Promised(call))
         /\ \A i \in 1..Len(TextsOf(call)) : Reading(TextsOf(call)[i]) = Promised(call)[i]
<1> DEFINE texts == TextsOf(call)
           things == Promised(call)
<1>1. PICK n \in 1..3 : /\ texts = [i \in 1..n |-> texts[i]] /\ Len(texts) = n
                        /\ things = [i \in 1..n |-> things[i]] /\ Len(things) = n
  <2>1. CASE call.op = "print"
    <3>1. texts = <<Text(call.string)>> /\ things = <<<<"string", call.string>>>>
      BY <2>1 DEF TextsOf, Promised
    <3> QED
      BY <3>1
  <2>2. CASE call.op = "print_word"
    <3>1. PICK word : texts = <<word>> /\ things = <<<<"number", call.word>>>>
      BY <2>2 DEF TextsOf, Promised
    <3> QED
      BY <3>1
  <2>3. CASE call.op = "print_arg1"
    <3>1. PICK a, b, c, d, e, f : texts = <<a, b, c>> /\ things = <<d, e, f>>
      BY <2>3 DEF TextsOf, Promised
    <3> QED
      BY <3>1
  <2> QED
    BY <2>1, <2>2, <2>3, SerialAssumption
<1>2. ToSet(texts) \subseteq Texts /\ ToSet(things) \subseteq Readings
  BY DEF Texts, Readings
<1>3. \A i \in DOMAIN texts : Reading(texts[i]) = things[i]
  BY DEF TextsAreReadable
<1> HIDE DEF texts, things
<1>4. DOMAIN texts = 1..n /\ DOMAIN things = 1..n
  BY <1>1
<1>5. (\A i \in 1..n : texts[i] \in Texts) /\ (\A i \in 1..n : things[i] \in Readings)
  BY <1>2, <1>4 DEF ToSet
<1>6. texts \in Seq(Texts) /\ things \in Seq(Readings)
  <2>1. \A S, q : q = [i \in 1..n |-> q[i]] /\ (\A i \in 1..n : q[i] \in S) => q \in Seq(S)
    OBVIOUS
  <2> QED
    BY <1>1, <1>5, <2>1
<1> QED
  BY <1>1, <1>3, <1>4, <1>6 DEF texts, things

LEMMA CallKeepsSerialInv ==
  ASSUME TextsAreReadable, SerialInv, NEW call \in Calls, Call(call)
  PROVE  SerialInv'
<1>1. /\ use = "text" /\ todo = <<>> /\ todo' = TextsOf(call) /\ owed' = owed \o Promised(call)
      /\ UNCHANGED <<use, configured, open, inEp, line, part>> /\ Held' = Held
  BY DEF Call, Held
<1>2. /\ owed \in Seq(Readings) /\ line = <<>> /\ Len(owed) = Held /\ Held \in {0, 1}
      /\ inEp # {} => Held = 1
      /\ \A t \in inEp : Reading(t) = owed[1]
  BY <1>1 DEF SerialInv, TextsUnderWay, Held
<1>3. /\ todo' \in Seq(Texts) /\ owed' \in Seq(Readings)
      /\ Len(owed') = Held + Len(todo')
      /\ Held = 1 => owed'[1] = owed[1]
      /\ \A i \in 1..Len(todo') : owed'[Held + i] = Promised(call)[i]
  BY <1>1, <1>2, TextsAreReadings
<1>4. \A i \in 1..Len(todo') : Reading(todo'[i]) = owed'[Held + i]
  BY <1>1, <1>3, TextsAreReadings
<1>5. TextsUnderWay'
  BY <1>1, <1>2, <1>3, <1>4 DEF TextsUnderWay
<1> QED
  BY <1>1, <1>5 DEF SerialInv, Ends, StrokesUnderWay

LEMMA PrintKeepsSerialInv ==
  ASSUME SerialInv, PrintGoesOn
  PROVE  SerialInv'
<1>1. /\ todo # <<>> /\ inEp = {} /\ configured /\ inEp' = {Head(todo)} /\ todo' = Tail(todo)
      /\ UNCHANGED <<use, configured, open, line, part, owed>>
      /\ Held = 0 /\ Held' = 1
  BY DEF PrintGoesOn, Accepts, Held
<1>2. use = "text"
  BY <1>1 DEF SerialInv, Ends, StrokesUnderWay
<1>3. /\ todo \in Seq(Texts) /\ owed \in Seq(Readings) /\ line = <<>>
      /\ Len(owed) = Len(todo)
      /\ \A i \in 1..Len(todo) : Reading(todo[i]) = owed[i]
  BY <1>1, <1>2 DEF SerialInv, TextsUnderWay
<1>4. Reading(Head(todo)) = owed[1]
  BY <1>1, <1>3
<1>5. /\ todo' \in Seq(Texts) /\ Len(owed') = Held' + Len(todo')
      /\ \A i \in 1..Len(todo') : i + 1 \in 1..Len(todo) /\ todo'[i] = todo[i + 1]
  BY <1>1, <1>3
<1>6. \A i \in 1..Len(todo') : Reading(todo'[i]) = owed'[Held' + i]
  BY <1>1, <1>3, <1>5
<1>7. TextsUnderWay'
  BY <1>1, <1>2, <1>3, <1>4, <1>5, <1>6 DEF TextsUnderWay
<1> QED
  BY <1>1, <1>2, <1>7 DEF SerialInv, Ends, StrokesUnderWay

LEMMA PrintGetsLostKeepsSerialInv ==
  ASSUME SerialInv, PrintGetsLost
  PROVE  SerialInv'
<1>1. /\ todo # <<>> /\ inEp = {} /\ todo' = Tail(todo) /\ owed' = Tail(owed)
      /\ UNCHANGED <<use, configured, open, inEp, line, part>>
      /\ Held = 0 /\ Held' = 0
  BY DEF PrintGetsLost, SerialInv, Ends, Held
<1>2. use = "text"
  BY <1>1 DEF SerialInv, Ends, StrokesUnderWay
<1>3. /\ todo \in Seq(Texts) /\ owed \in Seq(Readings) /\ line = <<>>
      /\ Len(owed) = Len(todo)
      /\ \A i \in 1..Len(todo) : Reading(todo[i]) = owed[i]
  BY <1>1, <1>2 DEF SerialInv, TextsUnderWay
<1>4. /\ todo' \in Seq(Texts) /\ owed' \in Seq(Readings) /\ Len(owed') = Len(todo')
      /\ \A i \in 1..Len(todo') :
           /\ i + 1 \in 1..Len(todo)
           /\ todo'[i] = todo[i + 1] /\ owed'[i] = owed[i + 1]
  BY <1>1, <1>3
<1>5. \A i \in 1..Len(todo') : Reading(todo'[i]) = owed'[Held' + i]
  BY <1>1, <1>3, <1>4
<1>6. TextsUnderWay'
  BY <1>1, <1>3, <1>4, <1>5 DEF TextsUnderWay
<1> QED
  BY <1>1, <1>2, <1>6 DEF SerialInv, Ends, StrokesUnderWay

\* A text leaves the endpoint, read or lost with the bus.
LEMMA TextLeaves ==
  ASSUME SerialInv, use = "text", inEp # {}, inEp' = {}, owed' = Tail(owed),
         UNCHANGED <<use, todo>>, line' = <<>>
  PROVE  TextsUnderWay'
<1>1. /\ todo \in Seq(Texts) /\ owed \in Seq(Readings)
      /\ Len(owed) = 1 + Len(todo)
      /\ \A i \in 1..Len(todo) : Reading(todo[i]) = owed[1 + i]
      /\ Held' = 0
  BY DEF SerialInv, TextsUnderWay, Held
<1>2. owed' \in Seq(Readings) /\ Len(owed') = Len(todo)
  BY <1>1
<1>3. \A i \in 1..Len(todo) : owed'[i] = owed[1 + i]
  BY <1>1
<1> QED
  BY <1>1, <1>2, <1>3 DEF TextsUnderWay

LEMMA ReadTextKeepsSerialInv ==
  ASSUME SerialInv, ReadText
  PROVE  SerialInv'
<1>1. /\ use = "text" /\ inEp # {} /\ inEp' = {} /\ owed' = Tail(owed)
      /\ UNCHANGED <<use, todo, configured, open, line, part>>
      /\ line' = <<>>
  BY DEF ReadText, SerialInv, TextsUnderWay
<1>2. TextsUnderWay'
  BY <1>1, TextLeaves
<1> QED
  BY <1>1, <1>2 DEF SerialInv, Ends, StrokesUnderWay

LEMMA BusResetKeepsSerialInv ==
  ASSUME SerialInv, BusReset
  PROVE  SerialInv'
<1>1. /\ inEp' = {} /\ line' = <<>> /\ part' = <<>> /\ configured' = FALSE /\ open' = FALSE
      /\ owed' = IF use = "strokes" THEN <<>> ELSE IF inEp = {} THEN owed ELSE Tail(owed)
      /\ UNCHANGED <<use, todo>> /\ Heard' = 0 /\ Held' = 0
  BY DEF BusReset, Heard, Held
<1>2. Ends'
  BY <1>1 DEF SerialInv, Ends
<1>3. CASE use = "strokes"
  <2>1. StrokesUnderWay'
    BY <1>1, <1>3 DEF SerialInv, StrokesUnderWay
  <2> QED
    BY <1>1, <1>2, <1>3, <2>1 DEF SerialInv, TextsUnderWay
<1>4. CASE use = "text"
  <2>1. TextsUnderWay'
    <3>1. CASE inEp = {}
      BY <1>1, <1>4, <3>1 DEF SerialInv, TextsUnderWay, Held
    <3>2. CASE inEp # {}
      BY <1>1, <1>4, <3>2, TextLeaves
    <3> QED
      BY <3>1, <3>2
  <2> QED
    BY <1>1, <1>2, <1>4, <2>1 DEF SerialInv, StrokesUnderWay
<1> QED
  BY <1>3, <1>4 DEF SerialInv, Ends

LEMMA ConfigureKeepsSerialInv ==
  ASSUME SerialInv, Configure
  PROVE  SerialInv'
<1>1. /\ ~configured /\ configured' = TRUE /\ inEp' = {} /\ inEp = {}
      /\ UNCHANGED <<use, todo, open, line, part, owed>>
  BY DEF Configure, SerialInv, Ends
<1> QED
  BY <1>1 DEF SerialInv, Ends, StrokesUnderWay, TextsUnderWay, Held, Heard

LEMMA NextKeepsSerialInv ==
  ASSUME Readable, SerialInv, [Next]_vars
  PROVE  SerialInv'
<1>1. StrokesAreReadable /\ TextsAreReadable
  BY DEF Readable
<1>2. ASSUME NEW stroke \in Strokes, SendStroke(stroke)
      PROVE  SerialInv'
  BY <1>1, <1>2, SendStrokeKeepsSerialInv
<1>3. ASSUME NEW call \in Calls, Call(call)
      PROVE  SerialInv'
  BY <1>1, <1>3, CallKeepsSerialInv
<1>4. CASE PrintGoesOn
  BY <1>4, PrintKeepsSerialInv
<1>5. CASE Configure
  BY <1>5, ConfigureKeepsSerialInv
<1>6. CASE OpenPort
  BY <1>6 DEF OpenPort, SerialInv, Ends, StrokesUnderWay, TextsUnderWay, Held, Heard
<1>7. CASE ReadStroke
  BY <1>1, <1>7, ReadStrokeKeepsSerialInv
<1>8. CASE ReadText
  BY <1>8, ReadTextKeepsSerialInv
<1>9. CASE Hear
  BY <1>1, <1>9, HearKeepsSerialInv
<1>10. CASE BusReset
  BY <1>10, BusResetKeepsSerialInv
<1>11. CASE PrintGetsLost
  BY <1>11, PrintGetsLostKeepsSerialInv
<1>12. CASE UNCHANGED vars
  BY <1>12 DEF vars, SerialInv, Ends, StrokesUnderWay, TextsUnderWay, Held, Heard
<1> QED
  BY <1>2, <1>3, <1>4, <1>5, <1>6, <1>7, <1>8, <1>9, <1>10, <1>11, <1>12 DEF Next, Listener

-----------------------------------------------------------------------------
(* Theorems.  They hold of every set of strokes and of every set of calls   *)
(* that can be read at all (Readable); that is evaluated for the sets of    *)
(* the run, since it goes through recursive definitions.                    *)

\* What is under way is what is owed, through every step of the device, the
\* host, the listener and the bus.
THEOREM OwedIsUnderWay == ASSUME Readable PROVE Spec => []SerialInv
<1>1. Init => SerialInv
  BY SerialInvInit
<1>2. SerialInv /\ [Next]_vars => SerialInv'
  BY NextKeepsSerialInv
<1> QED
  BY <1>1, <1>2, PTL DEF Spec

\* A listener has a stroke of the strokes owed in hand.
LEMMA ListenerHearsTheFirst ==
  ASSUME SerialInv, line # <<>>
  PROVE  /\ use = "strokes" /\ owed # <<>> /\ Head(owed) = owed[1] /\ owed[1] \in Strokes
         /\ line \in Seq(Bytes) /\ part \in Seq(Bytes) /\ part \o line = Packet(owed[1])
<1>1. use = "strokes"
  BY DEF SerialInv, Ends, TextsUnderWay
<1>2. Heard = 1 /\ Held \in {0, 1}
  BY DEF Heard, Held
<1>3. /\ line \in Seq(Bytes) /\ part \in Seq(Bytes) /\ part \o line = Packet(owed[1])
      /\ owed \in Seq(Strokes) /\ Len(owed) = Heard + Held
  BY <1>1 DEF SerialInv, StrokesUnderWay
<1>4. Len(owed) \in {1, 2}
  BY <1>2, <1>3
<1> QED
  BY <1>1, <1>3, <1>4

\* Nothing that the device or the listener holds is longer than a packet
\* (make_packet's five bytes).
THEOREM PacketsAreShort == ASSUME Readable PROVE Spec => []TypeOK
<1>1. SerialInv => TypeOK
  <2> SUFFICES ASSUME SerialInv
               PROVE  TypeOK
    OBVIOUS
  <2>1. Len(line) <= 5 /\ Len(part) <= 4
    <3>1. CASE line = <<>>
      BY <3>1 DEF SerialInv, Ends
    <3>2. CASE line # <<>>
      BY <3>2, ListenerHearsTheFirst, ZeroEndsThePacket DEF Readable
    <3> QED
      BY <3>1, <3>2
  <2> QED
    BY <2>1 DEF TypeOK, SerialInv, Ends
<1> QED
  BY <1>1, OwedIsUnderWay, PTL

\* Every stroke that a listener takes for complete is the next one of those
\* that usb_send_serial_data took, key for key but for the two that make_packet
\* puts on one bit.
THEOREM StrokesAreNotMixed == ASSUME Readable PROVE Spec => []StrokesArriveWhole
<1>1. SerialInv => StrokesArriveWhole
  <2> SUFFICES ASSUME SerialInv, line # <<>>, EndsBefore(part, Head(line))
               PROVE  /\ owed # <<>>
                      /\ StrokeOf(part) \ Confused = Head(owed) \ Confused
                      /\ Bar \notin Head(owed) => StrokeOf(part) = Head(owed)
    BY DEF StrokesArriveWhole, Bar
  <2>1. PICK s \in Strokes :
          /\ owed # <<>> /\ s = Head(owed) /\ line \in Seq(Bytes) /\ part \in Seq(Bytes)
          /\ part \o line = Packet(s)
    BY ListenerHearsTheFirst
  <2>2. part = Pages(s)
    BY <2>1, ZeroEndsThePacket DEF Readable
  <2>3. s \subseteq PacketKeys
    BY DEF Readable, StrokesAreReadable
  <2> QED
    BY <2>1, <2>2, <2>3, KeysAreHeard
<1> QED
  BY <1>1, OwedIsUnderWay, PTL

\* No stroke and no text stays behind in the port when all that was written
\* has been read.
THEOREM NothingStaysBehind == ASSUME Readable PROVE Spec => []NothingHeldBack
<1>1. SerialInv => NothingHeldBack
  <2> SUFFICES ASSUME SerialInv, inEp = {}, line = <<>>, todo = <<>>
               PROVE  owed = <<>> /\ part = <<>>
    BY DEF NothingHeldBack
  <2>1. Held = 0 /\ Heard = 0 /\ part = <<>> /\ Len(todo) = 0
    BY DEF Held, Heard, SerialInv, Ends
  <2>2. Len(owed) = 0 /\ (owed \in Seq(Strokes) \/ owed \in Seq(Readings))
    BY <2>1 DEF SerialInv, Ends, StrokesUnderWay, TextsUnderWay
  <2> QED
    BY <2>1, <2>2, EmptySeq
<1> QED
  BY <1>1, OwedIsUnderWay, PTL

\* Texts come out as they were printed, and words as the numbers that they
\* are, in the order of the calls (print, print_word, print_arg1).
THEOREM TextsAreInOrder == ASSUME Readable PROVE Spec => []TextArrivesInOrder
<1>1. SerialInv => TextArrivesInOrder
  <2> SUFFICES ASSUME SerialInv, use = "text", NEW t \in inEp
               PROVE  owed # <<>> /\ Reading(t) = Head(owed)
    BY DEF TextArrivesInOrder
  <2>1. /\ owed \in Seq(Readings) /\ todo \in Seq(Texts) /\ Len(owed) = 1 + Len(todo)
        /\ Reading(t) = owed[1]
    BY DEF SerialInv, TextsUnderWay, Held
  <2> QED
    BY <2>1
<1> QED
  BY <1>1, OwedIsUnderWay, PTL
=============================================================================
