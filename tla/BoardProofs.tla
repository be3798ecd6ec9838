---------------------------- MODULE BoardProofs ----------------------------
(***************************************************************************)
(* For every server that follows the protocol, every size of the buffers   *)
(* and every way TCP cuts the stream: what the embassy transport delivers  *)
(* and sends, and what the firmware around it keeps to.                    *)
(***************************************************************************)
EXTENDS Board, DataLemmas, TLAPS

------------------------------------------------------------------------------
(* The server's units, frame by frame. *)

Unit == [frame : Frames \cup {NoFrame}, at : Nat]
Size(frame) == HeaderLen + frame.len

\* e[k] is where the k-th frame of the server ends, and every unit is in its place.
Laid(s, e) ==
    LET units == ServerUnits(s)
    IN /\ units \in Seq(Unit)
       /\ e \in [0 .. Len(s.frames) -> Nat]
       /\ e[0] = s.response /\ e[Len(s.frames)] = Len(units)
       /\ \A p \in 1 .. s.response : units[p].frame = NoFrame
       /\ \A k \in 1 .. Len(s.frames) :
             /\ e[k] = e[k - 1] + Size(s.frames[k])
             /\ \A i \in 1 .. Size(s.frames[k]) :
                   units[e[k - 1] + i] = [frame |-> s.frames[k], at |-> i]

Ends(s) == CHOOSE e : Laid(s, e)

\* The units of a frame: its header and its payload, numbered.
LEMMA FrameUnitsType ==
    ASSUME NEW frame \in Frames
    PROVE  /\ FrameUnits(frame) \in Seq(Unit) /\ Len(FrameUnits(frame)) = Size(frame)
           /\ Size(frame) \in Nat /\ Size(frame) > 0
           /\ \A i \in 1 .. Size(frame) : FrameUnits(frame)[i] = [frame |-> frame, at |-> i]
<1>1. HeaderLen \in Nat /\ HeaderLen > 0 /\ frame.len \in Nat
  BY EmbassyAssumption DEF Frames
<1>2. Size(frame) \in Nat /\ Size(frame) > 0
  BY <1>1 DEF Size
<1> HIDE DEF Size
<1>3. \A i \in 1 .. Size(frame) : [frame |-> frame, at |-> i] \in Unit
  BY <1>2 DEF Unit
<1>4. FrameUnits(frame) = [i \in 1 .. Size(frame) |-> [frame |-> frame, at |-> i]]
  BY DEF FrameUnits, Size
<1>5. FrameUnits(frame) \in [1 .. Size(frame) -> Unit]
  BY <1>3, <1>4
<1>6. FrameUnits(frame) \in Seq(Unit) /\ Len(FrameUnits(frame)) = Size(frame)
  BY <1>2, <1>5
<1> QED BY <1>2, <1>4, <1>6

\* The units of the opening handshake's response belong to no frame.
LEMMA ResponseUnitsType ==
    ASSUME NEW n \in Nat
    PROVE  /\ ResponseUnits(n) \in Seq(Unit) /\ Len(ResponseUnits(n)) = n
           /\ \A i \in 1 .. n : ResponseUnits(n)[i].frame = NoFrame
<1>1. ResponseUnits(n) \in [1 .. n -> Unit]
  BY DEF ResponseUnits, Unit
<1> QED BY <1>1 DEF ResponseUnits

\* f[k] is what the server has sent with its k-th frame.
Streams(s, f) ==
    /\ f \in [0 .. Len(s.frames) -> Seq(Unit)]
    /\ f[0] = ResponseUnits(s.response) /\ ServerUnits(s) = f[Len(s.frames)]
    /\ \A k \in 1 .. Len(s.frames) : f[k] = f[k - 1] \o FrameUnits(s.frames[k])

\* The units a server sends are put together frame by frame, from the response on.
LEMMA Streaming ==
    ASSUME NEW s, WellFormed(s)
    PROVE  \E f : Streams(s, f)
<1> DEFINE F == s.frames
           r == s.response
           K == Len(F)
           R == ResponseUnits(r)
           Put(g) == g = [k \in 0 .. K |-> IF k = 0 THEN R ELSE g[k - 1] \o FrameUnits(F[k])]
           step == [x \in Nat \X Seq(Unit) |->
                      IF x[1] + 1 \in 1 .. K THEN x[2] \o FrameUnits(F[x[1] + 1]) ELSE x[2]]
           units == CHOOSE g : Put(g)
<1>0. r \in Nat /\ F \in Seq(Frames)
  BY DEF WellFormed
<1>1. ServerUnits(s) = units[K]
  BY DEF ServerUnits
<1> HIDE DEF F, r
<1>2. K \in Nat /\ \A k \in 1 .. K : FrameUnits(F[k]) \in Seq(Unit)
  <2>1. K \in Nat /\ \A k \in 1 .. K : F[k] \in Frames
    BY <1>0
  <2> QED BY <2>1, FrameUnitsType
<1>3. R \in Seq(Unit)
  BY <1>0, ResponseUnitsType
<1> HIDE DEF K, R
<1>4. ASSUME NEW n \in Nat, NEW t \in Seq(Unit)
      PROVE  /\ step[<<n, t>>] \in Seq(Unit)
             /\ n + 1 \in 1 .. K => step[<<n, t>>] = t \o FrameUnits(F[n + 1])
  <2>1. step[<<n, t>>] = IF n + 1 \in 1 .. K THEN t \o FrameUnits(F[n + 1]) ELSE t
    OBVIOUS
  <2> HIDE DEF step
  <2>2. n + 1 \in 1 .. K => t \o FrameUnits(F[n + 1]) \in Seq(Unit)
    BY <1>2, ConcatAt
  <2> QED BY <2>1, <2>2
<1>5. step \in [Nat \X Seq(Unit) -> Seq(Unit)]
  <2>1. DOMAIN step = Nat \X Seq(Unit)
    OBVIOUS
  <2> QED BY <1>4, <2>1, Zenon
<1> HIDE DEF step
<1>6. PICK f : Solves(f, Seq(Unit), R, step)
  BY <1>3, <1>5, Recursion, Zenon
<1>7. f \in [Nat -> Seq(Unit)] /\ f[0] = R
  BY <1>6 DEF Solves
<1> DEFINE h == [k \in 0 .. K |-> f[k]]
<1>8. ASSUME NEW k \in 1 .. K PROVE f[k] = f[k - 1] \o FrameUnits(F[k])
  <2>1. k - 1 \in Nat /\ (k - 1) + 1 = k
    BY <1>2
  <2>2. f[k] = step[<<k - 1, f[k - 1]>>] /\ f[k - 1] \in Seq(Unit)
    BY <1>6, <1>7, <2>1 DEF Solves
  <2> QED BY <1>4, <2>1, <2>2, Zenon
<1>9. Put(h)
  <2>1. ASSUME NEW k \in 0 .. K
        PROVE  h[k] = IF k = 0 THEN R ELSE h[k - 1] \o FrameUnits(F[k])
    <3>1. CASE k = 0
      BY <1>2, <1>7, <3>1
    <3>2. CASE k # 0
      <4>1. k \in 1 .. K /\ k - 1 \in 0 .. K
        BY <1>2, <3>2
      <4> QED BY <1>8, <3>2, <4>1, Zenon
    <3> QED BY <3>1, <3>2
  <2> QED BY <2>1
<1>10. Put(units)
  BY <1>9, Zenon
<1> HIDE DEF h, units
<1>11. /\ DOMAIN units = 0 .. K /\ units[0] = R
       /\ \A k \in 1 .. K : units[k] = units[k - 1] \o FrameUnits(F[k])
  <2>1. /\ DOMAIN units = 0 .. K
        /\ \A k \in 0 .. K : units[k] = IF k = 0 THEN R ELSE units[k - 1] \o FrameUnits(F[k])
    BY <1>10, Zenon
  <2>2. 0 \in 0 .. K /\ \A k \in 1 .. K : k \in 0 .. K /\ k # 0
    BY <1>2
  <2> QED BY <2>1, <2>2, Zenon
<1> HIDE DEF Put
<1> DEFINE T == {n \in Nat : n \in 0 .. K => units[n] \in Seq(Unit)}
<1>12. 0 \in T
  BY <1>3, <1>11
<1>13. ASSUME NEW n \in Nat, n \in T PROVE n + 1 \in T
  <2> SUFFICES ASSUME n + 1 \in 0 .. K PROVE units[n + 1] \in Seq(Unit)
    OBVIOUS
  <2>1. n + 1 \in 1 .. K /\ (n + 1) - 1 = n /\ n \in 0 .. K
    BY <1>2
  <2>2. units[n + 1] = units[n] \o FrameUnits(F[n + 1]) /\ FrameUnits(F[n + 1]) \in Seq(Unit)
    BY <1>2, <1>11, <2>1, Zenon
  <2>3. units[n] \in Seq(Unit)
    BY <1>13, <2>1
  <2> QED BY <2>2, <2>3, ConcatAt
<1> HIDE DEF T
<1>14. \A n \in Nat : n \in T
  BY <1>12, <1>13, Induction
<1>15. \A k \in 0 .. K : units[k] \in Seq(Unit)
  BY <1>2, <1>14 DEF T
<1>16. units = [k \in 0 .. K |-> units[k]]
  BY <1>10, Zenon DEF Put
<1>17. units \in [0 .. K -> Seq(Unit)]
  BY <1>15, <1>16
<1>18. Streams(s, units)
  BY <1>1, <1>11, <1>17, Zenon DEF Streams, K, R, F, r
<1> QED BY <1>18

\* The units of a server are its response and its frames, one after the other.
LEMMA Layout ==
    ASSUME NEW s, WellFormed(s)
    PROVE  Laid(s, Ends(s))
<1> DEFINE F == s.frames
           r == s.response
           K == Len(F)
           R == ResponseUnits(r)
           U == ServerUnits(s)
           pieces == [k \in 1 .. K |-> FrameUnits(F[k])]
<1>1. r \in Nat /\ F \in Seq(Frames)
  BY DEF WellFormed
<1>2. K \in Nat /\ \A k \in 1 .. K : F[k] \in Frames
  BY <1>1
<1> HIDE DEF F, r, K, U
<1>s. PICK f : Streams(s, f)
  BY Streaming
<1>3. /\ f \in [0 .. K -> Seq(Unit)] /\ f[0] = R /\ U = f[K]
      /\ \A k \in 1 .. K : f[k] = f[k - 1] \o FrameUnits(F[k])
  BY <1>s, Zenon DEF Streams, K, F, r, R, U
<1>4. pieces \in [1 .. K -> Seq(Unit)] /\ Joins(f, pieces, K)
  <2>1. \A k \in 1 .. K : FrameUnits(F[k]) \in Seq(Unit)
    BY <1>2, FrameUnitsType
  <2> QED BY <1>3, <2>1, Zenon DEF Joins
<1> HIDE DEF pieces
<1>5. R \in Seq(Unit) /\ Len(R) = r /\ \A i \in 1 .. r : R[i].frame = NoFrame
  BY <1>1, ResponseUnitsType
<1> HIDE DEF R
<1>6. ASSUME NEW k \in 0 .. K PROVE f[k] \in Seq(Unit) /\ Len(f[k]) \in Nat /\ Begins(f[k], U)
  <2>1. f[k] \in Seq(Unit)
    BY <1>3
  <2>2. Len(f[k]) \in Nat
    BY <2>1, SeqShape, Zenon
  <2>3. \A j \in k .. K : Begins(f[k], f[j])
    BY <1>2, <1>3, <1>4, PrefixKept, Zenon
  <2>4. K \in k .. K
    BY <1>2
  <2> QED BY <1>3, <2>1, <2>2, <2>3, <2>4
<1> DEFINE e == [k \in 0 .. K |-> Len(f[k])]
<1>7. e \in [0 .. K -> Nat] /\ \A k \in 0 .. K : e[k] = Len(f[k])
  BY <1>6
<1> HIDE DEF e
<1>8. 0 \in 0 .. K /\ K \in 0 .. K /\ \A k \in 1 .. K : k \in 0 .. K /\ k - 1 \in 0 .. K
  BY <1>2
<1>9. U \in Seq(Unit) /\ e[0] = r /\ e[K] = Len(U)
  BY <1>3, <1>5, <1>6, <1>7, <1>8
<1>10. \A p \in 1 .. r : U[p].frame = NoFrame
  <2>1. Begins(R, U)
    BY <1>3, <1>6, <1>8
  <2> QED BY <1>5, <2>1 DEF Begins
<1>11. ASSUME NEW k \in 1 .. K
       PROVE  /\ e[k] = e[k - 1] + Size(F[k])
              /\ \A i \in 1 .. Size(F[k]) : U[e[k - 1] + i] = [frame |-> F[k], at |-> i]
  <2> DEFINE piece == FrameUnits(F[k])
             a == f[k - 1]
             size == Size(F[k])
  <2>1. /\ piece \in Seq(Unit) /\ Len(piece) = size
        /\ \A i \in 1 .. size : piece[i] = [frame |-> F[k], at |-> i]
    BY <1>2, FrameUnitsType
  <2>2. a \in Seq(Unit) /\ e[k - 1] = Len(a) /\ e[k] = Len(a \o piece) /\ Begins(a \o piece, U)
    BY <1>3, <1>6, <1>7, <1>8, Zenon
  <2> HIDE DEF piece, a, size
  <2>3. e[k] = e[k - 1] + size
    BY <2>1, <2>2, ConcatAt
  <2>4. Holds(U, Len(a), piece)
    BY <1>9, <2>1, <2>2, PieceAt, Zenon
  <2> QED BY <2>1, <2>2, <2>3, <2>4 DEF Holds, size
<1>12. Laid(s, e)
  BY <1>9, <1>10, <1>11, <1>7 DEF Laid, K, F, r, U
<1> QED BY <1>12 DEF Ends

------------------------------------------------------------------------------
(* What the units hold of a message. *)

Reads(text, units, n) ==
    /\ text[0] = <<>>
    /\ \A i \in 0 .. Len(units) : text[i] \in Seq(Unit)
    /\ \A i \in 1 .. Len(units) :
          text[i] = IF PartOf(units[i], n) THEN Append(text[i - 1], units[i]) ELSE text[i - 1]

\* TextOf takes the units of the message and leaves out the others.
LEMMA TextReads ==
    ASSUME NEW units \in Seq(Unit), NEW n
    PROVE  Reads(TextOf(units, n), units, n)
<1> DEFINE K == Len(units)
           Part(i) == PartOf(units[i], n)
           step == [x \in Nat \X Seq(Unit) |->
                      IF x[1] + 1 \in 1 .. K /\ Part(x[1] + 1)
                        THEN Append(x[2], units[x[1] + 1]) ELSE x[2]]
<1>0. K \in Nat /\ \A i \in 1 .. K : units[i] \in Unit
  OBVIOUS
<1>t. TextOf(units, n) =
        CHOOSE g : g = [i \in 0 .. K |-> IF i = 0 THEN <<>>
                                         ELSE IF Part(i) THEN Append(g[i - 1], units[i])
                                              ELSE g[i - 1]]
  BY DEF TextOf
<1> HIDE DEF K, Part
<1>1. \A m \in Nat : \A t \in Seq(Unit) :
         step[<<m, t>>] = IF m + 1 \in 1 .. K /\ Part(m + 1) THEN Append(t, units[m + 1]) ELSE t
  OBVIOUS
<1>2. step \in [Nat \X Seq(Unit) -> Seq(Unit)]
  <2>1. DOMAIN step = Nat \X Seq(Unit)
    OBVIOUS
  <2>2. ASSUME NEW m \in Nat, NEW t \in Seq(Unit) PROVE step[<<m, t>>] \in Seq(Unit)
    <3>1. CASE m + 1 \in 1 .. K /\ Part(m + 1)
      <4>1. Append(t, units[m + 1]) \in Seq(Unit)
        BY <1>0, <3>1, AppendAt
      <4> QED BY <1>1, <3>1, <4>1
    <3>2. CASE ~(m + 1 \in 1 .. K /\ Part(m + 1))
      BY <1>1, <3>2
    <3> QED BY <3>1, <3>2
  <2> QED BY <2>1, <2>2, Zenon
<1> HIDE DEF step
<1>3. <<>> \in Seq(Unit)
  OBVIOUS
<1>4. PICK f : Solves(f, Seq(Unit), <<>>, step)
  BY <1>2, <1>3, Recursion, Zenon
<1>5. f \in [Nat -> Seq(Unit)] /\ f[0] = <<>>
  BY <1>4 DEF Solves
<1>6. ASSUME NEW i \in 1 .. K
      PROVE  f[i] = IF Part(i) THEN Append(f[i - 1], units[i]) ELSE f[i - 1]
  <2>1. i - 1 \in Nat /\ (i - 1) + 1 = i
    BY <1>0
  <2>2. f[i] = step[<<i - 1, f[i - 1]>>] /\ f[i - 1] \in Seq(Unit)
    BY <1>4, <1>5, <2>1 DEF Solves
  <2> QED BY <1>1, <2>1, <2>2
<1> DEFINE Texts(g) == g = [i \in 0 .. K |-> IF i = 0 THEN <<>>
                                             ELSE IF Part(i) THEN Append(g[i - 1], units[i])
                                                  ELSE g[i - 1]]
           h == [i \in 0 .. K |-> f[i]]
           g == CHOOSE g : Texts(g)
<1>7. ASSUME NEW i \in 0 .. K
      PROVE  h[i] = IF i = 0 THEN <<>>
                    ELSE IF Part(i) THEN Append(h[i - 1], units[i]) ELSE h[i - 1]
  <2>1. CASE i = 0
    BY <1>5, <2>1
  <2>2. CASE i # 0
    <3>1. i \in 1 .. K /\ i - 1 \in 0 .. K
      BY <1>0, <2>2
    <3>2. h[i] = f[i] /\ h[i - 1] = f[i - 1]
      BY <3>1
    <3> QED BY <1>6, <2>2, <3>1, <3>2
  <2> QED BY <2>1, <2>2
<1>8. Texts(h)
  BY <1>7, Zenon
<1>9. Texts(g)
  BY <1>8, Zenon
<1>10. TextOf(units, n) = g
  BY <1>t
<1>11. \A i \in 0 .. K : h[i] \in Seq(Unit)
  BY <1>0, <1>5
<1> HIDE DEF h, g
<1>12. \A i \in 0 .. K : g[i] = IF i = 0 THEN <<>>
                                ELSE IF Part(i) THEN Append(g[i - 1], units[i]) ELSE g[i - 1]
  BY <1>9, Zenon
<1> HIDE DEF Texts
<1> DEFINE Same == {i \in Nat : i \in 0 .. K => g[i] = h[i]}
<1>13. 0 \in Same
  BY <1>7, <1>12
<1>14. ASSUME NEW m \in Nat, m \in Same PROVE m + 1 \in Same
  <2> SUFFICES ASSUME m + 1 \in 0 .. K PROVE g[m + 1] = h[m + 1]
    OBVIOUS
  <2> DEFINE i == m + 1
  <2>1. i # 0 /\ i - 1 = m /\ m \in 0 .. K /\ i \in 0 .. K
    BY <1>0
  <2>2. g[i - 1] = h[i - 1]
    BY <1>14, <2>1
  <2> HIDE DEF i
  <2>3. g[i] = h[i]
    BY <1>7, <1>12, <2>1, <2>2
  <2> QED BY <2>3 DEF i
<1> HIDE DEF Same
<1>15. \A m \in Nat : m \in Same
  BY <1>13, <1>14, Induction
<1>16. \A i \in 0 .. K : g[i] = h[i]
  BY <1>0, <1>15 DEF Same
<1>17. g[0] = <<>>
  BY <1>0, <1>12
<1>18. \A i \in 1 .. K : g[i] = IF Part(i) THEN Append(g[i - 1], units[i]) ELSE g[i - 1]
  BY <1>0, <1>12
<1> QED BY <1>10, <1>11, <1>16, <1>17, <1>18 DEF Reads, K, Part

\* No unit after the a-th and up to the b-th is part of the message.
Unread(units, n, a, b) == \A p \in a + 1 .. b : ~PartOf(units[p], n)

\* Units that are no part of the message leave its text as it is.
LEMMA TextSkips ==
    ASSUME NEW units \in Seq(Unit), NEW n, NEW text, Reads(text, units, n),
           NEW a \in Nat, NEW b \in Nat, a <= b, b <= Len(units), Unread(units, n, a, b)
    PROVE  text[b] = text[a]
<1> DEFINE S == {d \in Nat : a + d <= b => text[a + d] = text[a]}
           Part(i) == PartOf(units[i], n)
<1>0. \A i \in 1 .. Len(units) :
         text[i] = IF Part(i) THEN Append(text[i - 1], units[i]) ELSE text[i - 1]
  BY DEF Reads
<1>1. Len(units) \in Nat /\ \A p \in a + 1 .. b : ~Part(p)
  BY DEF Unread
<1> HIDE DEF Part
<1>2. 0 \in S
  <2>1. a + 0 = a
    OBVIOUS
  <2> QED BY <2>1
<1>3. ASSUME NEW d \in Nat, d \in S PROVE d + 1 \in S
  <2> SUFFICES ASSUME a + (d + 1) <= b PROVE text[a + (d + 1)] = text[a]
    OBVIOUS
  <2> DEFINE i == a + (d + 1)
  <2>1. i \in 1 .. Len(units) /\ i \in a + 1 .. b /\ i - 1 = a + d /\ a + d <= b
    BY <1>1
  <2>2. text[i - 1] = text[a]
    BY <1>3, <2>1
  <2> HIDE DEF i
  <2>3. text[i] = text[a]
    BY <1>0, <1>1, <2>1, <2>2
  <2> QED BY <2>3 DEF i
<1> HIDE DEF S
<1>4. \A d \in Nat : d \in S
  BY <1>2, <1>3, Induction, Zenon
<1>5. b - a \in Nat /\ a + (b - a) = b /\ b <= b
  OBVIOUS
<1>6. a + (b - a) <= b => text[a + (b - a)] = text[a]
  BY <1>4, <1>5, Zenon DEF S
<1> QED BY <1>5, <1>6, Zenon

\* Every unit after the a-th and up to the b-th is part of the message.
AllRead(units, n, a, b) == \A p \in a + 1 .. b : PartOf(units[p], n)

Extended(text, a, x) == text[a + Len(x)] = text[a] \o x

\* Units that are all of the message extend its text.
LEMMA TextTakes ==
    ASSUME NEW units \in Seq(Unit), NEW n, NEW text, Reads(text, units, n),
           NEW a \in Nat, NEW x \in Seq(Unit), a + Len(x) <= Len(units), Holds(units, a, x),
           AllRead(units, n, a, a + Len(x))
    PROVE  Extended(text, a, x)
<1> DEFINE S == {d \in Nat : d <= Len(x) => text[a + d] = text[a] \o SubSeq(x, 1, d)}
           Part(i) == PartOf(units[i], n)
           L == Len(x)
<1>0. \A i \in 1 .. Len(units) :
         text[i] = IF Part(i) THEN Append(text[i - 1], units[i]) ELSE text[i - 1]
  BY DEF Reads
<1>1. Len(units) \in Nat /\ L \in Nat /\ \A p \in a + 1 .. a + L : Part(p)
  <2>1. Len(units) \in Nat /\ L \in Nat
    BY SeqShape, Zenon
  <2> QED BY <2>1 DEF AllRead
<1>2. text[a] \in Seq(Unit)
  <2>1. a \in 0 .. Len(units)
    BY <1>1
  <2> QED BY <2>1 DEF Reads
<1> HIDE DEF Part
<1>3. 0 \in S
  <2>1. a + 0 = a /\ SubSeq(x, 1, 0) = <<>>
    BY SubSeqEnds
  <2>2. text[a] \o <<>> = text[a]
    BY <1>2, SubSeqEnds, Zenon
  <2> QED BY <2>1, <2>2, Zenon
<1>4. ASSUME NEW d \in Nat, d \in S PROVE d + 1 \in S
  <2>0. d + 1 \in Nat
    OBVIOUS
  <2> SUFFICES ASSUME d + 1 <= Len(x) PROVE text[a + (d + 1)] = text[a] \o SubSeq(x, 1, d + 1)
    BY <2>0, Zenon
  <2> DEFINE i == a + (d + 1)
  <2>1. /\ i \in 1 .. Len(units) /\ i \in a + 1 .. a + L /\ i - 1 = a + d /\ d <= Len(x)
        /\ d + 1 \in 1 .. Len(x)
    BY <1>1
  <2>2. text[i - 1] = text[a] \o SubSeq(x, 1, d)
    BY <1>4, <2>1, Zenon
  <2>3. units[i] = x[d + 1]
    BY <2>1 DEF Holds
  <2> HIDE DEF i, L
  <2>4. text[i] = Append(text[i - 1], units[i])
    BY <1>0, <1>1, <2>1, Zenon
  <2>5. Append(text[a] \o SubSeq(x, 1, d), x[d + 1]) = text[a] \o SubSeq(x, 1, d + 1)
    BY <1>2, <2>1, AppendTake, Zenon
  <2>6. text[i] = text[a] \o SubSeq(x, 1, d + 1)
    BY <2>2, <2>3, <2>4, <2>5, Zenon
  <2> QED BY <2>6 DEF i
<1> HIDE DEF S
<1>5. \A d \in Nat : d \in S
  BY <1>3, <1>4, Induction
<1>6. SubSeq(x, 1, Len(x)) = x
  BY SubSeqEnds, Zenon
<1>7. L <= L
  BY <1>1
<1> QED BY <1>1, <1>5, <1>6, <1>7, Zenon DEF S, Extended

------------------------------------------------------------------------------
(* The texts that a server completes. *)

Ending(frames, j) == frames[j].type = "text" /\ frames[j].fin

\* A frame completes a text when it is the last fragment of one.
LEMMA CompletedStep ==
    ASSUME NEW frames
    PROVE  /\ Completed(frames, 0) = 0
           /\ \A k \in Nat : Completed(frames, k) \in Nat
           /\ \A k \in Nat \ {0} :
                 Completed(frames, k)
                   = Completed(frames, k - 1) + (IF Ending(frames, k) THEN 1 ELSE 0)
<1> DEFINE one(j) == IF Ending(frames, j) THEN 1 ELSE 0
           step == [x \in Nat \X Nat |-> x[2] + one(x[1] + 1)]
           Defines(f) == f = [j \in Nat |-> IF j = 0 THEN 0 ELSE f[j - 1] + one(j)]
           count == CHOOSE f : Defines(f)
<1>1. \A k : Completed(frames, k) = count[k]
  BY Zenon DEF Completed, Ending
<1>2. \A j : one(j) \in Nat
  OBVIOUS
<1> HIDE DEF one
<1>3. step \in [Nat \X Nat -> Nat] /\ \A n, d \in Nat : step[<<n, d>>] = d + one(n + 1)
  BY <1>2
<1> HIDE DEF step
<1>4. PICK f : Solves(f, Nat, 0, step)
  <2>1. 0 \in Nat
    OBVIOUS
  <2> QED BY <1>3, <2>1, Recursion, Zenon
<1>5. ASSUME NEW n \in Nat PROVE f[n] = IF n = 0 THEN 0 ELSE f[n - 1] + one(n)
  <2>1. n # 0 => n - 1 \in Nat /\ (n - 1) + 1 = n /\ f[n - 1] \in Nat
    BY <1>4 DEF Solves
  <2>2. f[0] = 0 /\ \A i \in Nat : f[i + 1] = step[<<i, f[i]>>]
    BY <1>4 DEF Solves
  <2>3. CASE n # 0
    <3>1. f[(n - 1) + 1] = f[n - 1] + one((n - 1) + 1)
      BY <1>3, <2>1, <2>2, <2>3, Zenon
    <3> QED BY <2>1, <2>3, <3>1, Zenon
  <2> QED BY <2>2, <2>3
<1>6. Defines(count)
  <2>1. Defines(f)
    BY <1>4, <1>5 DEF Solves
  <2> QED BY <2>1
<1> HIDE DEF count
<1>7. \A n \in Nat : count[n] = IF n = 0 THEN 0 ELSE count[n - 1] + one(n)
  BY <1>6
<1> HIDE DEF Defines
<1> DEFINE S == {n \in Nat : count[n] \in Nat}
<1>8. 0 \in S
  BY <1>7
<1>9. ASSUME NEW n \in Nat, n \in S PROVE n + 1 \in S
  <2>1. count[n + 1] = count[n] + one(n + 1)
    BY <1>7
  <2> QED BY <1>2, <1>9, <2>1
<1> HIDE DEF S
<1>10. \A n \in Nat : n \in S
  BY <1>8, <1>9, Induction, Zenon
<1>11. count[0] = 0 /\ \A n \in Nat : count[n] \in Nat
  BY <1>7, <1>10 DEF S
<1>12. \A n \in Nat \ {0} : count[n] = count[n - 1] + one(n)
  BY <1>7
<1> QED BY <1>1, <1>11, <1>12, Zenon DEF one

\* The count of completed texts never falls.
LEMMA CompletedAscends ==
    ASSUME NEW frames, NEW i \in Nat, NEW j \in Nat, i <= j
    PROVE  Completed(frames, i) <= Completed(frames, j)
<1> DEFINE e == [k \in 0 .. j |-> Completed(frames, k)]
<1>1. e \in [0 .. j -> Nat]
  <2>1. \A k \in 0 .. j : Completed(frames, k) \in Nat
    BY CompletedStep
  <2> QED BY <2>1
<1>2. \A k \in 0 .. j : e[k] = Completed(frames, k)
  OBVIOUS
<1> HIDE DEF e
<1>3. ASSUME NEW k \in 1 .. j PROVE e[k - 1] <= e[k]
  <2>1. k \in Nat \ {0} /\ k - 1 \in Nat /\ k \in 0 .. j /\ k - 1 \in 0 .. j
    OBVIOUS
  <2>2. /\ Completed(frames, k - 1) \in Nat
        /\ Completed(frames, k)
             = Completed(frames, k - 1) + (IF Ending(frames, k) THEN 1 ELSE 0)
    BY <2>1, CompletedStep, Zenon
  <2>3. e[k] = Completed(frames, k) /\ e[k - 1] = Completed(frames, k - 1)
    BY <1>2, <2>1
  <2> QED BY <2>2, <2>3
<1>4. i \in 0 .. j /\ j \in 0 .. j
  OBVIOUS
<1>5. e[i] <= e[j]
  BY <1>1, <1>3, <1>4, Ascends, Zenon
<1> QED BY <1>2, <1>4, <1>5

\* Between two frames, each position belongs to a frame.
LEMMA Spot ==
    ASSUME NEW n \in Nat, NEW e \in [0 .. n -> Nat],
           \A k \in 1 .. n : e[k - 1] <= e[k],
           NEW j \in 0 .. n, NEW k \in 0 .. n, NEW p \in Nat, e[j] < p, p <= e[k]
    PROVE  \E m \in j + 1 .. k : e[m - 1] < p /\ p <= e[m]
<1> DEFINE T == {m \in 0 .. n : p <= e[m]}
<1>1. T \subseteq Nat /\ k \in T
  OBVIOUS
<1>2. PICK m \in T : \A y \in T : m <= y
  BY <1>1, LeastNumber, Zenon
<1>3. m \in 0 .. n /\ p <= e[m] /\ m <= k
  BY <1>1, <1>2
<1>4. \A a, b \in 0 .. n : a <= b => e[a] <= e[b]
  BY Ascends, Zenon
<1>5. j < m
  <2> SUFFICES ASSUME ~(j < m) PROVE FALSE
    OBVIOUS
  <2>1. m <= j
    BY <1>3
  <2>2. e[m] <= e[j] /\ e[m] \in Nat /\ e[j] \in Nat
    BY <1>3, <1>4, <2>1
  <2> QED BY <1>3, <2>2
<1>6. m - 1 \in 0 .. n /\ m \in j + 1 .. k /\ ~(m <= m - 1)
  BY <1>3, <1>5
<1>7. ~(p <= e[m - 1]) /\ e[m - 1] \in Nat
  BY <1>2, <1>6
<1> QED BY <1>3, <1>6, <1>7

\* What a server that follows the protocol sends, by position.
LEMMA Positions ==
    ASSUME NEW s, WellFormed(s)
    PROVE  LET F == s.frames
               U == ServerUnits(s)
               e == Ends(s)
           IN /\ F \in Seq(Frames) /\ Len(F) \in Nat
              /\ U \in Seq(Unit) /\ Len(U) \in Nat
              /\ e \in [0 .. Len(F) -> Nat]
              /\ e[0] = s.response /\ e[Len(F)] = Len(U)
              /\ \A p \in 1 .. e[0] : U[p].frame = NoFrame
              /\ \A k \in 1 .. Len(F) :
                    /\ F[k] \in Frames /\ F[k].len \in Nat
                    /\ e[k] = e[k - 1] + (HeaderLen + F[k].len) /\ e[k - 1] < e[k]
                    /\ \A i \in 1 .. HeaderLen + F[k].len :
                          U[e[k - 1] + i] = [frame |-> F[k], at |-> i]
              /\ \A i, j \in 0 .. Len(F) : i <= j => e[i] <= e[j]
<1> DEFINE F == s.frames
           U == ServerUnits(s)
           e == Ends(s)
           K == Len(F)
<1>1. /\ U \in Seq(Unit) /\ e \in [0 .. K -> Nat]
      /\ e[0] = s.response /\ e[K] = Len(U)
      /\ \A p \in 1 .. s.response : U[p].frame = NoFrame
      /\ \A k \in 1 .. K :
            /\ e[k] = e[k - 1] + Size(F[k])
            /\ \A i \in 1 .. Size(F[k]) : U[e[k - 1] + i] = [frame |-> F[k], at |-> i]
  BY Layout DEF Laid
<1>2. F \in Seq(Frames)
  BY DEF WellFormed
<1> HIDE DEF F, U, e
<1>3. Len(U) \in Nat /\ K \in Nat
  BY <1>1, <1>2, SeqShape, Zenon
<1>4. \A k \in 1 .. K : F[k] \in Frames
  BY <1>2
<1> HIDE DEF K
<1>5. ASSUME NEW k \in 1 .. K
      PROVE  /\ F[k].len \in Nat /\ Size(F[k]) = HeaderLen + F[k].len
             /\ e[k] \in Nat /\ e[k - 1] \in Nat /\ e[k - 1] < e[k]
  <2>1. k \in 0 .. K /\ k - 1 \in 0 .. K
    BY <1>3
  <2>2. e[k] \in Nat /\ e[k - 1] \in Nat
    BY <1>1, <2>1
  <2>3. F[k] \in Frames
    BY <1>4
  <2>4. Size(F[k]) \in Nat /\ Size(F[k]) > 0
    BY <2>3, FrameUnitsType
  <2>5. e[k] = e[k - 1] + Size(F[k])
    BY <1>1
  <2>6. F[k].len \in Nat
    BY <2>3 DEF Frames
  <2>7. e[k - 1] < e[k]
    BY <2>2, <2>4, <2>5
  <2> QED BY <2>2, <2>6, <2>7 DEF Size
<1>6. \A i, j \in 0 .. K : i <= j => e[i] <= e[j]
  <2>1. \A k \in 1 .. K : e[k - 1] <= e[k]
    BY <1>5
  <2> QED BY <1>1, <1>3, <2>1, Ascends, Zenon
<1>7. ASSUME NEW k \in 1 .. K
      PROVE  /\ F[k] \in Frames /\ F[k].len \in Nat
             /\ e[k] = e[k - 1] + (HeaderLen + F[k].len) /\ e[k - 1] < e[k]
             /\ \A i \in 1 .. HeaderLen + F[k].len :
                   U[e[k - 1] + i] = [frame |-> F[k], at |-> i]
  BY <1>1, <1>4, <1>5
<1> QED BY <1>1, <1>2, <1>3, <1>6, <1>7 DEF F, U, e, K

\* Where a position is in an interval that it falls into.
LEMMA Offset ==
    ASSUME NEW a \in Nat, NEW b \in Nat, NEW c \in Nat, NEW p \in Nat,
           b = a + c, a < p, p <= b
    PROVE  p - a \in 1 .. c /\ a + (p - a) = p
OBVIOUS

\* A unit of text belongs to a frame whose message is the next to complete.
Owned(s, n, j, k) ==
    \A p \in Nat : Ends(s)[j] < p /\ p <= Ends(s)[k] /\ PartOf(ServerUnits(s)[p], n)
        => \E m \in j + 1 .. k :
              s.frames[m].type = "text" /\ n = s.frames[m].msg
                /\ n = Completed(s.frames, m - 1) + 1

\* So does every unit between the ends of two frames, in a well-formed stream.
LEMMA Owner ==
    ASSUME NEW s, WellFormed(s), NEW n,
           NEW j \in 0 .. Len(s.frames), NEW k \in 0 .. Len(s.frames)
    PROVE  Owned(s, n, j, k)
<1> SUFFICES ASSUME NEW p \in Nat, Ends(s)[j] < p, p <= Ends(s)[k],
                    PartOf(ServerUnits(s)[p], n)
             PROVE  \E m \in j + 1 .. k :
                       s.frames[m].type = "text" /\ n = s.frames[m].msg
                         /\ n = Completed(s.frames, m - 1) + 1
  BY DEF Owned
<1> DEFINE F == s.frames
           U == ServerUnits(s)
           e == Ends(s)
           K == Len(F)
<1>1. /\ K \in Nat /\ e \in [0 .. K -> Nat]
      /\ \A m \in 1 .. K :
            /\ F[m].len \in Nat
            /\ e[m] = e[m - 1] + (HeaderLen + F[m].len) /\ e[m - 1] < e[m]
            /\ \A i \in 1 .. HeaderLen + F[m].len :
                  U[e[m - 1] + i] = [frame |-> F[m], at |-> i]
  BY Positions
<1>2. \A m \in 1 .. K : F[m].type = "text" => F[m].msg = Completed(F, m - 1) + 1
  BY DEF WellFormed
<1>3. /\ j \in 0 .. K /\ k \in 0 .. K /\ e[j] < p /\ p <= e[k]
      /\ U[p].frame.type = "text" /\ U[p].frame.msg = n
  BY DEF PartOf
<1> HIDE DEF F, U, e, K
<1>4. PICK m \in j + 1 .. k : e[m - 1] < p /\ p <= e[m]
  <2>1. \A i \in 1 .. K : e[i - 1] \in Nat /\ e[i] \in Nat /\ e[i - 1] < e[i]
    BY <1>1
  <2>2. \A i \in 1 .. K : e[i - 1] <= e[i]
    BY <2>1
  <2>3. K \in Nat /\ e \in [0 .. K -> Nat]
    BY <1>1
  <2> QED BY <1>3, <2>2, <2>3, Spot, Zenon
<1>5. m \in 1 .. K /\ m - 1 \in 0 .. K /\ m \in 0 .. K
  BY <1>1, <1>3
<1>6. e[m - 1] \in Nat /\ e[m] \in Nat /\ F[m].len \in Nat /\ HeaderLen \in Nat
      /\ e[m] = e[m - 1] + (HeaderLen + F[m].len)
  BY <1>1, <1>5, EmbassyAssumption, Zenon
<1> DEFINE i == p - e[m - 1]
<1>7. i \in 1 .. HeaderLen + F[m].len /\ e[m - 1] + i = p
  <2> DEFINE a == e[m - 1]
             b == e[m]
             c == HeaderLen + F[m].len
  <2>1. HeaderLen \in Nat /\ F[m].len \in Nat
    BY <1>6, Zenon
  <2>2. c \in Nat
    BY <2>1
  <2>3. a \in Nat /\ b \in Nat /\ b = a + c /\ a < p /\ p <= b
    BY <1>4, <1>6, Zenon
  <2> HIDE DEF a, b, c
  <2>4. p - a \in 1 .. c /\ a + (p - a) = p
    BY <2>2, <2>3, Offset
  <2> QED BY <2>4, Zenon DEF a, c
<1> HIDE DEF i
<1>8. U[p] = [frame |-> F[m], at |-> i]
  <2>1. U[e[m - 1] + i] = [frame |-> F[m], at |-> i]
    BY <1>1, <1>5, <1>7, Zenon
  <2> QED BY <1>7, <2>1, Zenon
<1>9. F[m].type = "text" /\ F[m].msg = n
  BY <1>3, <1>8
<1>10. n = Completed(F, m - 1) + 1
  BY <1>2, <1>5, <1>9
<1> QED BY <1>9, <1>10 DEF F

\* Nothing is held of a message before its first frame.
LEMMA TextBefore ==
    ASSUME NEW s, WellFormed(s), NEW n, NEW k \in 0 .. Len(s.frames),
           NEW p \in Nat, p <= Ends(s)[k],
           \A m \in 1 .. k : s.frames[m].type = "text" => s.frames[m].msg # n
    PROVE  TextOf(ServerUnits(s), n)[p] = <<>>
<1> DEFINE F == s.frames
           U == ServerUnits(s)
           e == Ends(s)
           K == Len(F)
<1>1. /\ U \in Seq(Unit) /\ Len(U) \in Nat /\ K \in Nat
      /\ e \in [0 .. K -> Nat] /\ e[K] = Len(U)
      /\ \A q \in 1 .. e[0] : U[q].frame = NoFrame
      /\ \A i, j \in 0 .. K : i <= j => e[i] <= e[j]
  BY Positions
<1>2. ASSUME NEW q \in 1 .. p, PartOf(U[q], n) PROVE FALSE
  <2>1. q \in Nat /\ q >= 1 /\ q <= p
    OBVIOUS
  <2>2. 0 \in 0 .. K /\ k \in 0 .. K /\ e[0] \in Nat /\ e[k] \in Nat
    BY <1>1
  <2>3. CASE q <= e[0]
    <3>1. q \in 1 .. e[0]
      BY <2>1, <2>2, <2>3
    <3>2. U[q].frame = NoFrame
      BY <1>1, <3>1
    <3>3. NoFrame.type # "text"
      BY DEF NoFrame
    <3> QED BY <1>2, <3>2, <3>3 DEF PartOf
  <2>4. CASE e[0] < q
    <3>1. q <= e[k]
      BY <2>1, <2>2
    <3>2. Owned(s, n, 0, k)
      BY <2>2, Owner
    <3>3. \E m \in 0 + 1 .. k : F[m].type = "text" /\ n = F[m].msg
      BY <1>2, <2>1, <2>4, <3>1, <3>2, Zenon DEF Owned
    <3> QED BY <3>3
  <2> QED BY <2>1, <2>2, <2>3, <2>4
<1>3. p <= Len(U)
  <2>1. k \in 0 .. K /\ K \in 0 .. K /\ k <= K
    BY <1>1
  <2>2. e[k] <= e[K] /\ e[k] \in Nat
    BY <1>1, <2>1
  <2>3. p <= e[k] /\ e[K] = Len(U) /\ Len(U) \in Nat
    BY <1>1
  <2> QED BY <2>2, <2>3
<1> DEFINE T == TextOf(U, n)
<1> HIDE DEF U, T
<1>4. Reads(T, U, n)
  BY <1>1, TextReads DEF T
<1>5. T[p] = T[0]
  <2>1. 0 \in Nat /\ 0 <= p /\ Unread(U, n, 0, p)
    BY <1>2 DEF Unread
  <2>2. U \in Seq(Unit)
    BY <1>1
  <2> QED BY <1>3, <1>4, <2>1, <2>2, TextSkips
<1>6. T[0] = <<>>
  BY <1>4 DEF Reads
<1> QED BY <1>5, <1>6 DEF U, T

\* Nothing is added to a message after its last frame.
LEMMA TextAfter ==
    ASSUME NEW s, WellFormed(s), NEW n \in Nat, NEW k \in 0 .. Len(s.frames),
           n <= Completed(s.frames, k)
    PROVE  TextOf(ServerUnits(s), n)[Len(ServerUnits(s))] = TextOf(ServerUnits(s), n)[Ends(s)[k]]
<1> DEFINE F == s.frames
           U == ServerUnits(s)
           e == Ends(s)
           K == Len(F)
<1>1. /\ U \in Seq(Unit) /\ Len(U) \in Nat /\ K \in Nat
      /\ e \in [0 .. K -> Nat] /\ e[K] = Len(U)
      /\ \A i, j \in 0 .. K : i <= j => e[i] <= e[j]
  BY Positions
<1>2. k \in 0 .. K /\ K \in 0 .. K /\ k <= K /\ k \in Nat
  BY <1>1
<1>3. e[k] <= Len(U) /\ e[k] \in Nat
  BY <1>1, <1>2
<1>4. ASSUME NEW q \in e[k] + 1 .. Len(U), PartOf(U[q], n) PROVE FALSE
  <2>1. q \in Nat /\ e[k] < q /\ q <= e[K]
    BY <1>1, <1>3
  <2>2. PICK m \in k + 1 .. K : n = Completed(F, m - 1) + 1
    <3>1. Owned(s, n, k, K)
      BY <1>2, Owner
    <3> QED BY <1>4, <2>1, <3>1, Zenon DEF Owned
  <2>3. m - 1 \in Nat /\ k <= m - 1
    BY <1>2
  <2>4. Completed(F, k) <= Completed(F, m - 1)
    BY <1>2, <2>3, CompletedAscends
  <2>5. Completed(F, k) \in Nat /\ Completed(F, m - 1) \in Nat
    BY <1>2, <2>3, CompletedStep, Zenon
  <2> QED BY <2>2, <2>4, <2>5
<1> DEFINE T == TextOf(U, n)
<1> HIDE DEF U, T
<1>5. Reads(T, U, n)
  BY <1>1, TextReads DEF T
<1>6. T[Len(U)] = T[e[k]]
  <2>1. U \in Seq(Unit) /\ Len(U) \in Nat /\ Len(U) <= Len(U)
    BY <1>1
  <2>2. Unread(U, n, e[k], Len(U))
    BY <1>4 DEF Unread
  <2> QED BY <1>3, <1>5, <2>1, <2>2, TextSkips
<1> QED BY <1>6 DEF U, T

\* The units after the a-th and up to the b-th are of the frame after the first k,
\* and of its header up to the a+h-th.
InFrame(s, k, a, h, b) ==
    \A p \in a + 1 .. b :
        /\ ServerUnits(s)[p].frame = s.frames[k + 1]
        /\ ServerUnits(s)[p].at > HeaderLen <=> p > a + h

\* What the units after the a-th and up to the b-th, of the frame after the first k
\* and with x their payload, do to the text being assembled.
Assembled(s, k, a, b, x) ==
    LET text == TextOf(ServerUnits(s), Completed(s.frames, k) + 1)
    IN /\ s.frames[k + 1].type = "text" => text[b] = text[a] \o x
       /\ s.frames[k + 1].type = "binary" => text[b] = <<>>
       /\ s.frames[k + 1].type \notin {"text", "binary"} => text[b] = text[a]

\* The same units, as EmbassyWsStream::recv's match on the opcode takes them: a text
\* frame adds its payload, binary data leaves no text open, a control frame adds nothing.
LEMMA FrameTexts ==
    ASSUME NEW s, WellFormed(s), NEW k \in Nat, k + 1 <= Len(s.frames),
           NEW a \in Nat, NEW h \in Nat, NEW b \in Nat, NEW x \in Seq(Unit),
           b = (a + h) + Len(x), b <= Ends(s)[k + 1], Holds(ServerUnits(s), a + h, x),
           InFrame(s, k, a, h, b)
    PROVE  Assembled(s, k, a, b, x)
<1> DEFINE F == s.frames
           U == ServerUnits(s)
           e == Ends(s)
           K == Len(F)
           n == Completed(F, k) + 1
           T == TextOf(U, n)
           f == F[k + 1]
<1>1. /\ U \in Seq(Unit) /\ Len(U) \in Nat /\ K \in Nat
      /\ e \in [0 .. K -> Nat] /\ e[K] = Len(U)
      /\ \A i, j \in 0 .. K : i <= j => e[i] <= e[j]
  BY Positions, Zenon
<1>2. k + 1 \in 1 .. K /\ k + 1 \in 0 .. K /\ K \in 0 .. K /\ k + 1 <= K /\ (k + 1) - 1 = k
  BY <1>1
<1>3. Len(x) \in Nat /\ a + h \in Nat /\ a <= a + h /\ a + h <= b /\ a <= b
  <2>1. Len(x) \in Nat
    BY SeqShape, Zenon
  <2> QED BY <2>1
<1>4. b <= Len(U)
  <2>1. e[k + 1] <= e[K] /\ e[k + 1] \in Nat /\ e[K] = Len(U) /\ b <= e[k + 1]
    BY <1>1, <1>2, Zenon
  <2> QED BY <1>1, <2>1
<1>5. Reads(T, U, n)
  BY <1>1, TextReads
<1>6. ASSUME f.type = "text" PROVE T[b] = T[a] \o x
  <2>1. f.msg = n
    <3>1. \A j \in 1 .. K : F[j].type = "text" => F[j].msg = Completed(F, j - 1) + 1
      BY Zenon DEF WellFormed
    <3> QED BY <1>2, <1>6, <3>1, Zenon
  <2>2. \A p \in a + 1 .. b : PartOf(U[p], n) <=> p > a + h
    BY <1>6, <2>1 DEF InFrame, PartOf
  <2> HIDE DEF n, T, U
  <2>3. Unread(U, n, a, a + h)
    <3> SUFFICES ASSUME NEW p \in a + 1 .. a + h PROVE ~PartOf(U[p], n)
      BY DEF Unread
    <3>1. p \in a + 1 .. b /\ ~(p > a + h)
      BY <1>3
    <3> QED BY <2>2, <3>1
  <2>4. AllRead(U, n, a + h, (a + h) + Len(x))
    <3> SUFFICES ASSUME NEW p \in (a + h) + 1 .. b PROVE PartOf(U[p], n)
      BY DEF AllRead
    <3>1. p \in a + 1 .. b /\ p > a + h
      BY <1>3
    <3> QED BY <2>2, <3>1
  <2>5. T[a + h] = T[a]
    <3>1. U \in Seq(Unit) /\ a + h <= Len(U)
      BY <1>1, <1>3, <1>4
    <3> QED BY <1>3, <1>5, <2>3, <3>1, TextSkips
  <2>6. T[(a + h) + Len(x)] = T[a + h] \o x
    <3>1. U \in Seq(Unit) /\ (a + h) + Len(x) <= Len(U) /\ Holds(U, a + h, x)
      BY <1>1, <1>4 DEF U
    <3> DEFINE c == a + h
    <3>2. c \in Nat /\ c + Len(x) <= Len(U) /\ Holds(U, c, x) /\ AllRead(U, n, c, c + Len(x))
      BY <1>3, <2>4, <3>1
    <3> HIDE DEF c
    <3>3. Extended(T, c, x)
      BY <1>5, <3>1, <3>2, TextTakes
    <3> QED BY <3>3, Zenon DEF c, Extended
  <2> QED BY <2>5, <2>6, Zenon
<1>7. ASSUME f.type # "text" PROVE Unread(U, n, a, b)
  BY <1>7 DEF InFrame, PartOf, Unread
<1>8. ASSUME f.type # "text" PROVE T[b] = T[a]
  <2>1. Unread(U, n, a, b) /\ U \in Seq(Unit)
    BY <1>1, <1>7, <1>8
  <2> HIDE DEF n, T, U
  <2> QED BY <1>3, <1>4, <1>5, <2>1, TextSkips
<1>9. ASSUME f.type = "binary" PROVE T[b] = <<>>
  <2>1. Settled(F, k)
    <3>1. \A j \in 1 .. K : F[j].type = "binary" => Settled(F, j - 1)
      BY DEF WellFormed
    <3> QED BY <1>2, <1>9, <3>1, Zenon
  <2>2. Completed(F, k) \in Nat
    BY CompletedStep, Zenon
  <2>3. ASSUME NEW m \in 1 .. k + 1, F[m].type = "text" PROVE F[m].msg # n
    <3>1. m # k + 1
      BY <1>9, <2>3
    <3>2. m \in 1 .. k
      BY <3>1
    <3>3. F[m].msg <= Completed(F, k)
      BY <2>1, <2>3, <3>2 DEF Settled
    <3> QED BY <2>2, <3>3
  <2>4. \A m \in 1 .. k + 1 : F[m].type = "text" => F[m].msg # n
    BY <2>3
  <2> HIDE DEF n
  <2> QED BY <1>2, <2>4, TextBefore
<1> QED BY <1>6, <1>8, <1>9, Zenon DEF Assembled

\* The last fragment of a text completes it: nothing of it follows, and nothing of
\* the next has come.  Other frames complete nothing.
LEMMA FrameEnds ==
    ASSUME NEW s, WellFormed(s), NEW k \in Nat, k + 1 <= Len(s.frames)
    PROVE  LET n == Completed(s.frames, k) + 1
               U == ServerUnits(s)
           IN /\ Ending(s.frames, k + 1) =>
                    /\ Completed(s.frames, k + 1) = n
                    /\ TextOf(U, n)[Len(U)] = TextOf(U, n)[Ends(s)[k + 1]]
                    /\ TextOf(U, n + 1)[Ends(s)[k + 1]] = <<>>
              /\ ~Ending(s.frames, k + 1) => Completed(s.frames, k + 1) = Completed(s.frames, k)
<1> DEFINE F == s.frames
           n == Completed(F, k) + 1
           K == Len(F)
<1>1. K \in Nat /\ Ends(s) \in [0 .. K -> Nat]
  BY Positions
<1>2. /\ k + 1 \in 1 .. K /\ k + 1 \in 0 .. K /\ (k + 1) - 1 = k
      /\ k + 1 \in Nat \ {0} /\ k + 1 \in Nat
  BY <1>1
<1>3. Completed(F, k) \in Nat /\ Completed(F, k + 1) \in Nat /\ n \in Nat
  <2>1. Completed(F, k) \in Nat /\ Completed(F, k + 1) \in Nat
    BY <1>2, CompletedStep, Zenon
  <2> QED BY <2>1
<1>4. Completed(F, k + 1) = Completed(F, k) + (IF Ending(F, k + 1) THEN 1 ELSE 0)
  <2>1. Completed(F, k + 1) = Completed(F, (k + 1) - 1) + (IF Ending(F, k + 1) THEN 1 ELSE 0)
    BY <1>2, CompletedStep, Zenon
  <2> QED BY <1>2, <2>1
<1>5. ~Ending(F, k + 1) => Completed(F, k + 1) = Completed(F, k)
  BY <1>3, <1>4
<1>6. ASSUME Ending(F, k + 1)
      PROVE  /\ Completed(F, k + 1) = n
             /\ TextOf(ServerUnits(s), n)[Len(ServerUnits(s))]
                  = TextOf(ServerUnits(s), n)[Ends(s)[k + 1]]
             /\ TextOf(ServerUnits(s), n + 1)[Ends(s)[k + 1]] = <<>>
  <2>1. Completed(F, k + 1) = n
    BY <1>4, <1>6
  <2>2. n <= Completed(F, k + 1)
    BY <1>3, <2>1
  <2>3. ASSUME NEW m \in 1 .. k + 1, F[m].type = "text" PROVE F[m].msg # n + 1
    <3>1. \A j \in 1 .. K : F[j].type = "text" => F[j].msg = Completed(F, j - 1) + 1
      BY DEF WellFormed
    <3>2. m \in 1 .. K /\ m - 1 \in Nat /\ m - 1 <= k
      BY <1>1, <1>2
    <3>3. F[m].msg = Completed(F, m - 1) + 1
      BY <2>3, <3>1, <3>2
    <3>4. Completed(F, m - 1) <= Completed(F, k) /\ Completed(F, m - 1) \in Nat
      BY <3>2, CompletedAscends, CompletedStep, Zenon
    <3> QED BY <1>3, <3>3, <3>4
  <2>4. \A m \in 1 .. k + 1 : F[m].type = "text" => F[m].msg # n + 1
    BY <2>3
  <2>5. Ends(s)[k + 1] \in Nat /\ Ends(s)[k + 1] <= Ends(s)[k + 1]
    BY <1>1, <1>2
  <2> HIDE DEF n
  <2>6. TextOf(ServerUnits(s), n + 1)[Ends(s)[k + 1]] = <<>>
    BY <1>2, <2>4, <2>5, TextBefore
  <2>7. TextOf(ServerUnits(s), n)[Len(ServerUnits(s))]
          = TextOf(ServerUnits(s), n)[Ends(s)[k + 1]]
    BY <1>2, <1>3, <2>2, TextAfter
  <2> QED BY <2>1, <2>6, <2>7
<1> QED BY <1>5, <1>6, Zenon

\* The texts of a server are numbered from one, and none is left open.
LEMMA AllTexts ==
    ASSUME NEW s, WellFormed(s)
    PROVE  LET F == s.frames
               n == Completed(F, Len(F))
               U == ServerUnits(s)
           IN /\ n \in Nat
              /\ {F[j].msg : j \in {i \in DOMAIN F : F[i].type = "text"}} = 1 .. n
              /\ TextOf(U, n + 1)[Len(U)] = <<>>
<1> DEFINE F == s.frames
           K == Len(F)
           n == Completed(F, K)
           M == {F[j].msg : j \in {i \in DOMAIN F : F[i].type = "text"}}
<1>1. /\ F \in Seq(Frames) /\ K \in Nat /\ Ends(s)[K] = Len(ServerUnits(s))
      /\ Ends(s) \in [0 .. K -> Nat]
  BY Positions
<1>2. n \in Nat
  BY <1>1, CompletedStep, Zenon
<1>3. ASSUME NEW j \in 1 .. K, F[j].type = "text"
      PROVE  F[j].msg \in 1 .. n /\ F[j].msg # n + 1
  <2>1. F[j].msg = Completed(F, j - 1) + 1
    BY <1>3 DEF WellFormed
  <2>2. F[j].msg <= n
    BY <1>3 DEF WellFormed, Settled
  <2>3. j - 1 \in Nat
    BY <1>1
  <2>4. Completed(F, j - 1) \in Nat
    BY <2>3, CompletedStep, Zenon
  <2> HIDE DEF n
  <2> QED BY <1>2, <2>1, <2>2, <2>4
<1>4. TextOf(ServerUnits(s), n + 1)[Len(ServerUnits(s))] = <<>>
  <2>1. K \in 0 .. K /\ Ends(s)[K] \in Nat /\ Ends(s)[K] <= Ends(s)[K]
    BY <1>1
  <2>2. \A m \in 1 .. K : F[m].type = "text" => F[m].msg # n + 1
    BY <1>3
  <2> HIDE DEF n
  <2>3. TextOf(ServerUnits(s), n + 1)[Ends(s)[K]] = <<>>
    BY <2>1, <2>2, TextBefore, Zenon
  <2> QED BY <1>1, <2>3
<1>6. M \subseteq 1 .. n
  BY <1>1, <1>3
<1>7. ASSUME NEW i \in 1 .. n PROVE i \in M
  <2> DEFINE S == {m \in 0 .. K : i <= Completed(F, m)}
  <2>1. S \subseteq Nat /\ K \in S
    BY <1>1
  <2>2. PICK m \in S : \A y \in S : m <= y
    BY <2>1, LeastNumber, Zenon
  <2>3. Completed(F, 0) = 0
    BY CompletedStep
  <2>4. m \in 0 .. K /\ i <= Completed(F, m) /\ m # 0
    BY <1>2, <2>2, <2>3
  <2>5. m \in 1 .. K /\ m \in Nat \ {0} /\ m - 1 \in 0 .. K /\ m - 1 \in Nat /\ ~(m <= m - 1)
    BY <1>1, <2>4
  <2>6. /\ Completed(F, m - 1) \in Nat
        /\ Completed(F, m) = Completed(F, m - 1) + (IF Ending(F, m) THEN 1 ELSE 0)
    BY <2>5, CompletedStep, Zenon
  <2>7. ~(i <= Completed(F, m - 1))
    BY <2>2, <2>5
  <2>8. i \in Nat
    BY <1>2
  <2>9. Ending(F, m) /\ i = Completed(F, m - 1) + 1
    BY <2>4, <2>6, <2>7, <2>8
  <2>10. F[m].type = "text"
    BY <2>9 DEF Ending
  <2>11. F[m].msg = Completed(F, m - 1) + 1
    BY <2>5, <2>10 DEF WellFormed
  <2>12. m \in DOMAIN F /\ F[m].msg = i
    BY <1>1, <2>5, <2>9, <2>11
  <2> QED BY <2>10, <2>12
<1>8. M = 1 .. n
  BY <1>6, <1>7
<1> QED BY <1>2, <1>4, <1>8

------------------------------------------------------------------------------
(* The stream. *)

\* What has been cut off a sequence, and what is left of it, are where they were.
LEMMA Cut ==
    ASSUME NEW S, NEW w \in Seq(S), NEW n \in Nat, n <= Len(w)
    PROVE  /\ SubSeq(w, 1, n) \in Seq(S) /\ Len(SubSeq(w, 1, n)) = n
           /\ Drop(w, n) \in Seq(S) /\ Len(Drop(w, n)) = Len(w) - n
           /\ \A c, q : q \in Nat /\ Holds(c, q, w) =>
                 Holds(c, q, SubSeq(w, 1, n)) /\ Holds(c, q + n, Drop(w, n))
<1> DEFINE m == Len(w)
           x == SubSeq(w, 1, n)
           y == SubSeq(w, n + 1, m)
<1>1. m \in Nat /\ \A i \in 1 .. m : w[i] \in S
  OBVIOUS
<1>2. x \in Seq(S) /\ Len(x) = n /\ \A i \in 1 .. n : x[i] = w[i]
  BY <1>1, SubSeqAt
<1>3. y \in Seq(S) /\ Len(y) = m - n /\ \A i \in 1 .. m - n : y[i] = w[n + i]
  <2>1. \A i \in n + 1 .. m : w[i] \in S
    BY <1>1
  <2>2. /\ y \in Seq(S) /\ Len(y) = (IF n + 1 <= m THEN (m - (n + 1)) + 1 ELSE 0)
        /\ \A i \in 1 .. (m - (n + 1)) + 1 : y[i] = w[((n + 1) + i) - 1]
    BY <1>1, <2>1, SubSeqAt
  <2> HIDE DEF y, m
  <2>3. (m - (n + 1)) + 1 = m - n /\ m - n \in Nat /\ (~(n + 1 <= m) => m - n = 0)
    BY <1>1 DEF m
  <2>4. \A i \in 1 .. m - n : ((n + 1) + i) - 1 = n + i
    BY <1>1
  <2> QED BY <2>2, <2>3, <2>4
<1> HIDE DEF x, y, m
<1>4. ASSUME NEW c, NEW q \in Nat, Holds(c, q, w)
      PROVE  Holds(c, q, x) /\ Holds(c, q + n, y)
  <2>1. \A i \in 1 .. m : c[q + i] = w[i]
    BY <1>4 DEF Holds, m
  <2>2. ASSUME NEW i \in 1 .. n PROVE c[q + i] = x[i]
    <3>1. i \in 1 .. m
      BY <1>1 DEF m
    <3> QED BY <1>2, <2>1, <3>1
  <2>3. ASSUME NEW i \in 1 .. m - n PROVE c[(q + n) + i] = y[i]
    <3>1. n + i \in 1 .. m /\ q + (n + i) = (q + n) + i
      BY <1>1
    <3> QED BY <1>3, <2>1, <3>1
  <2> QED BY <1>2, <1>3, <2>2, <2>3 DEF Holds
<1> QED BY <1>2, <1>3, <1>4 DEF x, y, m, Drop

\* Where the decoder is: between two frames, or in the middle of one.
Midway(s, d, l, pos, k) ==
    \/ d = NoFrame /\ pos = Ends(s)[k]
    \/ /\ k + 1 <= Len(s.frames) /\ d = s.frames[k + 1]
       /\ l \in 1 .. d.len /\ pos + l = Ends(s)[k + 1]

\* The units after the pos-th are pending and on the wire; the k frames before them
\* completed the texts returned; the text assembled is what has come of the next.
InStream(s, w, p, a, g, d, l, pos, k) ==
    /\ pos \in Nat /\ k \in Nat /\ k <= Len(s.frames)
    /\ (pos + Len(p)) + Len(w) = Len(ServerUnits(s))
    /\ Holds(ServerUnits(s), pos, p) /\ Holds(ServerUnits(s), pos + Len(p), w)
    /\ Len(g) = Completed(s.frames, k)
    /\ a = TextOf(ServerUnits(s), Len(g) + 1)[pos]
    /\ Midway(s, d, l, pos, k)

Text(s, n) == TextOf(ServerUnits(s), n)[Len(ServerUnits(s))]
Exact(s, g) == g \in Seq(Seq(Unit)) /\ \A n \in DOMAIN g : g[n] = Text(s, n)

StreamInv ==
    /\ WellFormed(server) /\ response \in Nat
    /\ wire \in Seq(Unit) /\ pending \in Seq(Unit) /\ Exact(server, got)
    /\ tpc \in {"connecting", "response"} =>
          /\ response + Len(wire) = Len(ServerUnits(server))
          /\ Holds(ServerUnits(server), response, wire)
          /\ pending = <<>> /\ accumulated = <<>> /\ got = <<>> /\ decoding = NoFrame
    /\ tpc = "up" =>
          \E pos, k : InStream(server, wire, pending, accumulated, got, decoding, left, pos, k)

\* What the decoder is given: units of the frame after the first k.
Decodes(pos, k) ==
    /\ k + 1 <= Len(server.frames) /\ Current = server.frames[k + 1]
    /\ Header \in Nat /\ Remaining \in Nat /\ PayloadLen \in Nat
    /\ Remaining <= Current.len /\ PayloadLen <= Remaining
    /\ Header + PayloadLen <= Len(pending)
    /\ (pos + Header) + Remaining = Ends(server)[k + 1]
    /\ InFrame(server, k, pos, Header, (pos + Header) + PayloadLen)

\* Some units of a frame, by their place in it.
LEMMA FramePart ==
    ASSUME NEW s, WellFormed(s), NEW k \in Nat, k + 1 <= Len(s.frames),
           NEW o \in Nat, NEW h \in Nat, NEW l \in Nat,
           (o + h) + l <= HeaderLen + s.frames[k + 1].len,
           (o = 0 /\ h = HeaderLen) \/ (h = 0 /\ o >= HeaderLen)
    PROVE  InFrame(s, k, Ends(s)[k] + o, h, ((Ends(s)[k] + o) + h) + l)
<1> DEFINE F == s.frames
           U == ServerUnits(s)
           K == Len(F)
           a == Ends(s)[k]
           c == HeaderLen + F[k + 1].len
<1>1. K \in Nat /\ Ends(s) \in [0 .. K -> Nat]
  BY Positions
<1>2. k + 1 \in 1 .. K /\ k \in 0 .. K /\ (k + 1) - 1 = k
  BY <1>1
<1>3. F[k + 1].len \in Nat /\ \A i \in 1 .. c : U[Ends(s)[(k + 1) - 1] + i] = [frame |-> F[k + 1], at |-> i]
  BY <1>2, Positions, Zenon
<1>4. \A i \in 1 .. c : U[a + i] = [frame |-> F[k + 1], at |-> i]
  BY <1>2, <1>3, Zenon
<1>5. a \in Nat
  BY <1>1, <1>2
<1>6. HeaderLen \in Nat
  BY EmbassyAssumption
<1>7. c \in Nat /\ (o + h) + l <= c
  BY <1>3, <1>6
<1> HIDE DEF a, c
<1>8. ASSUME NEW p \in (a + o) + 1 .. ((a + o) + h) + l
      PROVE  U[p].frame = F[k + 1] /\ (U[p].at > HeaderLen <=> p > (a + o) + h)
  <2> DEFINE i == p - a
  <2>1. p \in Nat /\ p > a + o /\ p <= ((a + o) + h) + l
    BY <1>5
  <2>2. i \in 1 .. c /\ a + i = p
    BY <1>5, <1>7, <2>1
  <2>3. i > HeaderLen <=> p > (a + o) + h
    BY <1>5, <1>6, <2>1
  <2> HIDE DEF i
  <2>4. U[p] = [frame |-> F[k + 1], at |-> i]
    BY <1>4, <2>2
  <2> QED BY <2>3, <2>4
<1> QED BY <1>8 DEF a, InFrame

\* What the WebSocket decoder finds in the pending bytes is the next part of the
\* frame that the stream has come to, the header before the payload.
LEMMA DecoderFacts ==
    ASSUME WellFormed(server), pending \in Seq(Unit), wire \in Seq(Unit), NEW pos, NEW k,
           InStream(server, wire, pending, accumulated, got, decoding, left, pos, k),
           pending # <<>>, ~HeaderCut
    PROVE  Decodes(pos, k)
<1> DEFINE F == server.frames
           U == ServerUnits(server)
           e == Ends(server)
           K == Len(F)
           L == Len(pending)
           f == F[k + 1]
<1>1. /\ K \in Nat /\ e \in [0 .. K -> Nat] /\ e[K] = Len(U)
      /\ \A j \in 1 .. K :
            /\ F[j] \in Frames /\ F[j].len \in Nat
            /\ e[j] = e[j - 1] + (HeaderLen + F[j].len)
            /\ \A i \in 1 .. HeaderLen + F[j].len : U[e[j - 1] + i] = [frame |-> F[j], at |-> i]
  BY Positions, Zenon
<1>2. HeaderLen \in Nat /\ HeaderLen > 0 /\ FrameSize \in Nat
  BY EmbassyAssumption
<1>3. /\ pos \in Nat /\ k \in Nat /\ k <= K /\ (pos + L) + Len(wire) = Len(U)
      /\ Holds(U, pos, pending) /\ Midway(server, decoding, left, pos, k)
  BY DEF InStream
<1>4. L \in Nat /\ L > 0 /\ Len(wire) \in Nat
  <2>1. L \in Nat /\ Len(wire) \in Nat
    BY SeqShape, Zenon
  <2>2. L # 0
    BY SeqShape, Zenon
  <2> QED BY <2>1, <2>2
<1>5. k \in 0 .. K /\ e[k] \in Nat
  <2>1. K \in Nat /\ e \in [0 .. K -> Nat]
    BY <1>1, Zenon
  <2>2. k \in 0 .. K
    BY <1>3, <2>1
  <2> HIDE DEF K, e
  <2> QED BY <2>1, <2>2
<1>k. K \in Nat /\ pos \in Nat /\ k \in Nat /\ k <= K
  BY <1>1, <1>3, Zenon
<1>6. k + 1 <= K
  <2> SUFFICES ASSUME ~(k + 1 <= K) PROVE FALSE
    OBVIOUS
  <2>1. k = K
    <3> HIDE DEF K
    <3> QED BY <1>k
  <2>2. pos = e[K]
    BY <1>3, <2>1, Zenon DEF Midway
  <2>3. pos = Len(U)
    BY <1>1, <2>2, Zenon
  <2> QED BY <1>3, <1>4, <2>3
<1>7. /\ k + 1 \in 1 .. K /\ (k + 1) - 1 = k
      /\ f \in Frames /\ f.len \in Nat /\ e[k + 1] = e[k] + (HeaderLen + f.len)
      /\ \A i \in 1 .. HeaderLen + f.len : U[e[k] + i] = [frame |-> f, at |-> i]
  <2>1. k + 1 \in 1 .. K /\ (k + 1) - 1 = k
    <3> HIDE DEF K
    <3> QED BY <1>k, <1>6
  <2> HIDE DEF F, U, e, K
  <2> QED BY <1>1, <2>1, Zenon
<1>8. f # NoFrame /\ f.len \in Nat
  <2>1. f \in Frames /\ f.len \in Nat
    BY <1>7, Zenon
  <2> HIDE DEF f
  <2> QED BY <2>1 DEF Frames, NoFrame
<1>9. \E o \in Nat :
         /\ pos = e[k] + o /\ Current = f /\ Header \in Nat /\ Remaining \in Nat
         /\ Remaining <= f.len /\ (o + Header) + Remaining = HeaderLen + f.len
         /\ (o = 0 /\ Header = HeaderLen) \/ (Header = 0 /\ o >= HeaderLen)
  <2>1. CASE decoding = NoFrame
    <3>1. pos = e[k]
      BY <1>3, <1>8, <2>1, Zenon DEF Midway
    <3>2. Header = HeaderLen
      BY <2>1 DEF Header
    <3>3. pending[1] = [frame |-> f, at |-> 1]
      <4>1. 1 \in 1 .. L /\ 1 \in 1 .. HeaderLen + f.len
        <5> HIDE DEF L, f
        <5> QED BY <1>2, <1>4, <1>8
      <4>2. U[pos + 1] = pending[1]
        BY <1>3, <4>1, Zenon DEF Holds
      <4>3. U[e[k] + 1] = [frame |-> f, at |-> 1]
        BY <1>7, <4>1, Zenon
      <4> QED BY <3>1, <4>2, <4>3, Zenon
    <3>4. Current = f
      BY <1>2, <3>2, <3>3 DEF Current
    <3>5. Remaining = f.len
      BY <1>2, <3>2, <3>4 DEF Remaining
    <3>6. e[k] = e[k] + 0 /\ (0 + HeaderLen) + f.len = HeaderLen + f.len /\ f.len <= f.len
      <4> HIDE DEF e, f
      <4> QED BY <1>2, <1>5, <1>8
    <3> HIDE DEF e, f
    <3> QED BY <1>2, <1>7, <3>1, <3>2, <3>4, <3>5, <3>6, Zenon
  <2>2. CASE decoding # NoFrame
    <3>1. decoding = f /\ left \in 1 .. f.len /\ pos + left = e[k + 1]
      BY <1>3, <2>2, Zenon DEF Midway
    <3>2. Header = 0 /\ ~(Header > 0)
      BY <2>2 DEF Header
    <3>3. Current = f /\ Remaining = left
      BY <3>1, <3>2, Zenon DEF Current, Remaining
    <3> DEFINE n == f.len
               a == e[k]
               o == (HeaderLen + n) - left
    <3>4. n \in Nat /\ a \in Nat /\ left \in 1 .. n /\ pos + left = a + (HeaderLen + n)
      BY <1>5, <1>7, <3>1, Zenon
    <3> HIDE DEF n, a
    <3>5. o \in Nat /\ pos = a + o /\ o >= HeaderLen /\ (o + 0) + left = HeaderLen + n
          /\ left \in Nat /\ left <= n
      BY <1>2, <1>3, <3>4
    <3> HIDE DEF o
    <3>6. /\ pos = e[k] + o /\ (o + 0) + left = HeaderLen + f.len /\ left <= f.len /\ 0 \in Nat
      BY <3>5, Zenon DEF n, a
    <3> QED BY <3>2, <3>3, <3>5, <3>6, Zenon
  <2> QED BY <2>1, <2>2, Zenon
<1>10. PICK o \in Nat :
         /\ pos = e[k] + o /\ Current = f /\ Header \in Nat /\ Remaining \in Nat
         /\ Remaining <= f.len /\ (o + Header) + Remaining = HeaderLen + f.len
         /\ (o = 0 /\ Header = HeaderLen) \/ (Header = 0 /\ o >= HeaderLen)
  BY <1>9, Zenon
<1>11. PayloadLen \in Nat /\ PayloadLen <= Remaining /\ Header + PayloadLen <= L
  <2>1. Header <= L
    <3>1. Header \in Nat /\ ~(L < Header)
      BY <1>10 DEF HeaderCut
    <3> QED BY <1>4, <3>1
  <2> HIDE DEF L
  <2>2. L - Header \in Nat
    BY <1>4, <1>10, <2>1
  <2>3. \A x, y \in Nat : Smaller(x, y) \in Nat /\ Smaller(x, y) <= x /\ Smaller(x, y) <= y
    BY DEF Smaller
  <2> DEFINE z == Smaller(L - Header, FrameSize)
  <2>4. z \in Nat /\ z <= L - Header
    BY <1>2, <2>2, <2>3, Zenon
  <2>5. PayloadLen = Smaller(Remaining, z)
    BY DEF PayloadLen, L
  <2> HIDE DEF z
  <2>6. PayloadLen \in Nat /\ PayloadLen <= Remaining /\ PayloadLen <= z
    BY <1>10, <2>3, <2>4, <2>5, Zenon
  <2>7. \A h, p, l, y \in Nat : p <= y /\ y <= l - h => h + p <= l
    OBVIOUS
  <2>8. Header \in Nat /\ L \in Nat
    BY <1>4, <1>10, Zenon
  <2> QED BY <2>4, <2>6, <2>7, <2>8, Zenon
<1>12. (pos + Header) + Remaining = e[k + 1]
  <2> DEFINE a == e[k]
             n == HeaderLen + f.len
             h == Header
             r == Remaining
  <2>1. a \in Nat /\ h \in Nat /\ r \in Nat /\ pos = a + o /\ (o + h) + r = n /\ e[k + 1] = a + n
    BY <1>5, <1>7, <1>10, Zenon
  <2> HIDE DEF a, n, h, r
  <2>2. (pos + h) + r = a + n
    BY <2>1
  <2> QED BY <2>1, <2>2, Zenon DEF h, r
<1>13. InFrame(server, k, pos, Header, (pos + Header) + PayloadLen)
  <2> DEFINE n == HeaderLen + f.len
             h == Header
             r == Remaining
             l == PayloadLen
  <2>1. h \in Nat /\ r \in Nat /\ l \in Nat /\ l <= r /\ (o + h) + r = n
    BY <1>10, <1>11, Zenon
  <2>2. (o = 0 /\ h = HeaderLen) \/ (h = 0 /\ o >= HeaderLen)
    BY <1>10, Zenon
  <2> HIDE DEF n, h, r, l
  <2>3. (o + h) + l <= n
    BY <2>1
  <2>4. InFrame(server, k, e[k] + o, h, ((e[k] + o) + h) + l)
    <3>1. (o + h) + l <= HeaderLen + server.frames[k + 1].len
      BY <2>3 DEF n
    <3>2. h \in Nat /\ l \in Nat /\ k \in Nat /\ k + 1 <= Len(server.frames)
      BY <1>3, <1>6, <2>1
    <3> QED BY <2>2, <3>1, <3>2, FramePart, Zenon
  <2> QED BY <1>10, <2>4, Zenon DEF h, l
<1> QED BY <1>6, <1>10, <1>11, <1>12, <1>13, Zenon DEF Decodes

\* So is what is taken from the middle of it.
LEMMA Middle ==
    ASSUME NEW S, NEW w \in Seq(S), NEW h \in Nat, NEW l \in Nat, h + l <= Len(w),
           NEW c, NEW q \in Nat, Holds(c, q, w)
    PROVE  LET x == SubSeq(w, h + 1, h + l)
           IN x \in Seq(S) /\ Len(x) = l /\ Holds(c, q + h, x)
<1> DEFINE m == Len(w)
           x == SubSeq(w, h + 1, h + l)
<1>1. m \in Nat /\ \A i \in 1 .. m : w[i] \in S
  OBVIOUS
<1>2. x \in Seq(S) /\ Len(x) = l /\ \A i \in 1 .. l : x[i] = w[h + i]
  <2>1. \A i \in h + 1 .. h + l : w[i] \in S
    BY <1>1
  <2>2. /\ x \in Seq(S)
        /\ Len(x) = (IF h + 1 <= h + l THEN ((h + l) - (h + 1)) + 1 ELSE 0)
        /\ \A i \in 1 .. ((h + l) - (h + 1)) + 1 : x[i] = w[((h + 1) + i) - 1]
    BY <2>1, SubSeqAt
  <2> HIDE DEF x
  <2>3. ((h + l) - (h + 1)) + 1 = l /\ (~(h + 1 <= h + l) => l = 0)
    OBVIOUS
  <2>4. \A i \in 1 .. l : ((h + 1) + i) - 1 = h + i
    OBVIOUS
  <2> QED BY <2>2, <2>3, <2>4
<1> HIDE DEF x, m
<1>3. \A i \in 1 .. m : c[q + i] = w[i]
  BY DEF Holds, m
<1>4. ASSUME NEW i \in 1 .. l PROVE c[(q + h) + i] = x[i]
  <2>1. h + i \in 1 .. m /\ q + (h + i) = (q + h) + i
    BY <1>1 DEF m
  <2> QED BY <1>2, <1>3, <2>1
<1> QED BY <1>2, <1>4, Zenon DEF Holds, x

\* What the decoder took, and where that leaves the stream.
Moved(pos, k, q, j) ==
    /\ pending' \in Seq(Unit) /\ q \in Nat /\ j \in Nat /\ j <= Len(server.frames)
    /\ (q + Len(pending')) + Len(wire) = Len(ServerUnits(server))
    /\ Holds(ServerUnits(server), q, pending')
    /\ Holds(ServerUnits(server), q + Len(pending'), wire)
    /\ Midway(server, decoding', left', q, j)
    /\ Payload \in Seq(Unit) /\ Holds(ServerUnits(server), pos + Header, Payload)
    /\ q = (pos + Header) + Len(Payload)
    /\ q <= Ends(server)[k + 1] /\ (FrameDone => q = Ends(server)[k + 1])
    /\ j = (IF FrameDone THEN k + 1 ELSE k)

\* A call of the decoder moves the position in the stream by what it took, and to
\* the next frame when it took the last of this one (the remainder bookkeeping of recv).
LEMMA DecoderMoves ==
    ASSUME WellFormed(server), pending \in Seq(Unit), wire \in Seq(Unit), NEW pos, NEW k,
           InStream(server, wire, pending, accumulated, got, decoding, left, pos, k),
           Decodes(pos, k), Decoded
    PROVE  Moved(pos, k, (pos + Header) + PayloadLen, IF FrameDone THEN k + 1 ELSE k)
<1> DEFINE U == ServerUnits(server)
           K == Len(server.frames)
           L == Len(pending)
           W == Len(wire)
           h == Header
           r == Remaining
           l == PayloadLen
           f == server.frames[k + 1]
           q == (pos + h) + l
           j == IF FrameDone THEN k + 1 ELSE k
           z == Ends(server)[k + 1]
<1>1. /\ pos \in Nat /\ k \in Nat /\ k <= K /\ (pos + L) + W = Len(U)
      /\ Holds(U, pos, pending) /\ Holds(U, pos + L, wire)
  BY DEF InStream
<1>2. /\ k + 1 <= K /\ Current = f /\ h \in Nat /\ r \in Nat /\ l \in Nat
      /\ r <= f.len /\ l <= r /\ h + l <= L /\ (pos + h) + r = z
  BY Zenon DEF Decodes
<1>3. L \in Nat /\ W \in Nat /\ K \in Nat /\ Len(U) \in Nat
  <2>1. K \in Nat /\ Len(U) \in Nat
    BY Positions, Zenon
  <2> QED BY <2>1, SeqShape, Zenon
<1>4. f.len \in Nat
  <2>1. k + 1 \in 1 .. K
    <3>1. k \in Nat /\ k + 1 <= K /\ K \in Nat
      BY <1>1, <1>2, <1>3, Zenon
    <3> HIDE DEF K
    <3> QED BY <3>1
  <2> QED BY <2>1, Positions, Zenon
<1>5. /\ pending' = Drop(pending, h + l)
      /\ decoding' = (IF FrameDone THEN NoFrame ELSE f)
      /\ left' = r - l
  BY <1>2, Zenon DEF Decoded
<1>6. FrameDone <=> l = r
  BY DEF FrameDone
<1> HIDE DEF U, K, L, W, h, r, l, f, z
<1>7. /\ pending' \in Seq(Unit) /\ Len(pending') = L - (h + l)
      /\ Holds(U, pos + (h + l), pending')
  <2>1. h + l \in Nat /\ h + l <= Len(pending)
    BY <1>2 DEF L
  <2> DEFINE n == h + l
  <2> HIDE DEF n
  <2>2. /\ Drop(pending, n) \in Seq(Unit) /\ Len(Drop(pending, n)) = Len(pending) - n
        /\ \A c, y : y \in Nat /\ Holds(c, y, pending) => Holds(c, y + n, Drop(pending, n))
    BY <2>1, Cut DEF n
  <2>3. Holds(U, pos + n, Drop(pending, n))
    BY <1>1, <2>2, Zenon
  <2> QED BY <1>5, <2>2, <2>3, Zenon DEF n, L
<1>8. q \in Nat /\ q = pos + (h + l)
  BY <1>1, <1>2
<1>9. (q + Len(pending')) + W = Len(U) /\ q + Len(pending') = pos + L
  <2> DEFINE y == Len(pending')
             u == Len(U)
  <2>1. y = L - (h + l) /\ L \in Nat /\ h \in Nat /\ l \in Nat /\ W \in Nat /\ pos \in Nat
        /\ (pos + L) + W = u
    BY <1>1, <1>2, <1>3, <1>7, Zenon
  <2> HIDE DEF y, u
  <2>2. (q + y) + W = u /\ q + y = pos + L
    BY <2>1
  <2> QED BY <2>2, Zenon DEF y, u
<1>10. Holds(U, q, pending') /\ Holds(U, q + Len(pending'), wire)
  BY <1>1, <1>7, <1>8, <1>9, Zenon
<1>11. q <= z /\ (FrameDone => q = z)
  BY <1>1, <1>2, <1>6
<1>12. j \in Nat /\ j <= K
  BY <1>1, <1>2, <1>3
<1>13. Payload \in Seq(Unit) /\ Holds(U, pos + h, Payload) /\ Len(Payload) = l
  <2>1. h + l <= Len(pending)
    BY <1>2 DEF L
  <2>2. Payload = SubSeq(pending, h + 1, h + l)
    BY DEF Payload, h, l
  <2>3. pos \in Nat /\ h \in Nat /\ l \in Nat /\ Holds(U, pos, pending)
    BY <1>1, <1>2, Zenon
  <2> DEFINE x == SubSeq(pending, h + 1, h + l)
  <2>4. x \in Seq(Unit) /\ Len(x) = l /\ Holds(U, pos + h, x)
    BY <2>1, <2>3, Middle, Zenon
  <2> QED BY <2>2, <2>4, Zenon
<1>14. Midway(server, decoding', left', q, j)
  <2>1. CASE FrameDone
    BY <1>5, <1>11, <2>1, Zenon DEF Midway, z
  <2>2. CASE ~FrameDone
    <3>1. left' \in 1 .. f.len /\ q + left' = z
      BY <1>1, <1>2, <1>4, <1>5, <1>6, <2>2
    <3> QED BY <1>2, <1>5, <2>2, <3>1, Zenon DEF Midway, z, f, K
  <2> QED BY <2>1, <2>2
<1> QED
  BY <1>7, <1>8, <1>9, <1>10, <1>11, <1>12, <1>13, <1>14, Zenon DEF Moved, U, K, W, h, l, z

\* A frame, or a part of one, that completes no text.
LEMMA Continues ==
    ASSUME StreamInv, Decoded, NEW pos, NEW k, NEW q, NEW j,
           InStream(server, wire, pending, accumulated, got, decoding, left, pos, k),
           Decodes(pos, k), Moved(pos, k, q, j),
           ~(FrameDone /\ Ending(server.frames, k + 1)),
           tpc' = tpc, got' = got,
           accumulated' = TextOf(ServerUnits(server), Len(got) + 1)[q]
    PROVE  StreamInv'
<1>1. WellFormed(server) /\ response \in Nat /\ wire \in Seq(Unit) /\ Exact(server, got)
  BY DEF StreamInv
<1>2. server' = server /\ response' = response /\ wire' = wire /\ tpc = "up"
  BY DEF Decoded
<1>3. k \in Nat /\ Len(got) = Completed(server.frames, k)
  BY DEF InStream
<1>4. k + 1 <= Len(server.frames)
  BY Zenon DEF Decodes
<1>5. Completed(server.frames, j) = Completed(server.frames, k)
  <2>1. j = IF FrameDone THEN k + 1 ELSE k
    BY DEF Moved
  <2>2. CASE FrameDone
    <3>1. ~Ending(server.frames, k + 1)
      BY <2>2
    <3>2. Completed(server.frames, k + 1) = Completed(server.frames, k)
      BY <1>1, <1>3, <1>4, <3>1, FrameEnds, Zenon
    <3> QED BY <2>1, <2>2, <3>2
  <2>3. CASE ~FrameDone
    BY <2>1, <2>3
  <2> QED BY <2>2, <2>3
<1>6. Len(got) = Completed(server.frames, j)
  BY <1>3, <1>5
<1>7. /\ pending' \in Seq(Unit) /\ q \in Nat /\ j \in Nat /\ j <= Len(server.frames)
      /\ (q + Len(pending')) + Len(wire) = Len(ServerUnits(server))
      /\ Holds(ServerUnits(server), q, pending')
      /\ Holds(ServerUnits(server), q + Len(pending'), wire)
      /\ Midway(server, decoding', left', q, j)
  BY DEF Moved
<1>8. InStream(server, wire, pending', accumulated', got, decoding', left', q, j)
  BY <1>6, <1>7, Zenon DEF InStream
<1>9. InStream(server', wire', pending', accumulated', got', decoding', left', q, j)
  BY <1>2, <1>8, Zenon
<1>10. tpc' = "up"
  BY <1>2
<1> QED BY <1>1, <1>2, <1>7, <1>9, <1>10, Zenon DEF StreamInv

\* The frame that completes a text.
LEMMA Returns ==
    ASSUME StreamInv, Decoded, NEW pos, NEW k, NEW q, NEW j,
           InStream(server, wire, pending, accumulated, got, decoding, left, pos, k),
           Decodes(pos, k), Moved(pos, k, q, j),
           FrameDone, Ending(server.frames, k + 1), tpc' = tpc,
           got' = Append(got, TextOf(ServerUnits(server), Len(got) + 1)[q]),
           accumulated' = <<>>
    PROVE  StreamInv'
<1> DEFINE U == ServerUnits(server)
           n == Len(got) + 1
           T == TextOf(U, n)
<1>1. WellFormed(server) /\ response \in Nat /\ wire \in Seq(Unit) /\ Exact(server, got)
  BY DEF StreamInv
<1>2. server' = server /\ response' = response /\ wire' = wire /\ tpc = "up"
  BY DEF Decoded
<1>3. k \in Nat /\ Len(got) = Completed(server.frames, k)
  BY DEF InStream
<1>4. k + 1 <= Len(server.frames)
  BY Zenon DEF Decodes
<1>5. /\ pending' \in Seq(Unit) /\ q \in Nat /\ j \in Nat /\ j <= Len(server.frames)
      /\ (q + Len(pending')) + Len(wire) = Len(U)
      /\ Holds(U, q, pending') /\ Holds(U, q + Len(pending'), wire)
      /\ Midway(server, decoding', left', q, j)
      /\ q = Ends(server)[k + 1] /\ j = k + 1
  BY DEF Moved
<1>6. /\ Completed(server.frames, k + 1) = n
      /\ TextOf(U, n)[Len(U)] = TextOf(U, n)[q]
      /\ TextOf(U, n + 1)[q] = <<>>
  <2> DEFINE m == Completed(server.frames, k) + 1
  <2>1. /\ Completed(server.frames, k + 1) = m
        /\ TextOf(U, m)[Len(U)] = TextOf(U, m)[Ends(server)[k + 1]]
        /\ TextOf(U, m + 1)[Ends(server)[k + 1]] = <<>>
    BY <1>1, <1>3, <1>4, FrameEnds, Zenon
  <2>2. n = m
    BY <1>3
  <2> HIDE DEF n, m
  <2> QED BY <1>5, <2>1, <2>2, Zenon
<1>7. T[q] = Text(server, n)
  BY <1>6, Zenon DEF Text
<1>8. U \in Seq(Unit) /\ Len(U) \in Nat
  BY <1>1, Positions, Zenon
<1>9. T[q] \in Seq(Unit)
  <2>1. Len(U) \in 0 .. Len(U)
    BY <1>8
  <2>2. Reads(T, U, n)
    BY <1>8, TextReads
  <2>3. T[Len(U)] \in Seq(Unit)
    BY <2>1, <2>2, Zenon DEF Reads
  <2> QED BY <1>6, <2>3, Zenon
<1>10. got \in Seq(Seq(Unit)) /\ \A i \in DOMAIN got : got[i] = Text(server, i)
  BY <1>1 DEF Exact
<1> DEFINE x == T[q]
           text(i) == Text(server, i)
<1>11. got' = Append(got, x) /\ x \in Seq(Unit) /\ x = text(n)
  BY <1>7, <1>9
<1> HIDE DEF x, text, n
<1>12. got' \in Seq(Seq(Unit)) /\ Len(got') = n /\ \A i \in DOMAIN got' : got'[i] = text(i)
  <2>1. got \in Seq(Seq(Unit)) /\ \A i \in 1 .. Len(got) : got[i] = text(i)
    BY <1>10 DEF text
  <2>2. /\ Append(got, x) \in Seq(Seq(Unit)) /\ Len(Append(got, x)) = Len(got) + 1
        /\ \A i \in 1 .. Len(got) : Append(got, x)[i] = got[i]
        /\ Append(got, x)[Len(got) + 1] = x
    <3> DEFINE V == Seq(Unit)
    <3>1. got \in Seq(V) /\ x \in V
      BY <1>11, <2>1, Zenon
    <3> HIDE DEF V
    <3>2. /\ Append(got, x) \in Seq(V) /\ Len(Append(got, x)) = Len(got) + 1
          /\ \A i \in 1 .. Len(got) : Append(got, x)[i] = got[i]
          /\ Append(got, x)[Len(got) + 1] = x
      BY <3>1, AppendAt, Zenon
    <3> QED BY <3>2, Zenon DEF V
  <2>3. Len(got) \in Nat
    BY <2>1
  <2> DEFINE h == Append(got, x)
  <2> HIDE DEF h
  <2>4. DOMAIN h = 1 .. n
    BY <2>2, SeqShape, Zenon DEF h, n
  <2>5. ASSUME NEW i \in 1 .. n PROVE h[i] = text(i)
    <3>1. CASE i = n
      BY <1>11, <2>2, <3>1, Zenon DEF h, n
    <3>2. CASE i # n
      <4>1. i \in 1 .. Len(got)
        BY <2>3, <3>2 DEF n
      <4> QED BY <2>1, <2>2, <4>1, Zenon DEF h
    <3> QED BY <3>1, <3>2
  <2> QED BY <1>11, <2>2, <2>4, <2>5, Zenon DEF h, n
<1>13. Exact(server, got')
  BY <1>12 DEF Exact, text
<1>14. InStream(server, wire, pending', accumulated', got', decoding', left', q, j)
  <2>1. Len(got') = Completed(server.frames, j)
    BY <1>5, <1>6, <1>12, Zenon
  <2>2. accumulated' = TextOf(U, Len(got') + 1)[q]
    BY <1>6, <1>12, Zenon
  <2> QED BY <1>5, <2>1, <2>2, Zenon DEF InStream
<1>15. InStream(server', wire', pending', accumulated', got', decoding', left', q, j)
  BY <1>2, <1>14, Zenon
<1>16. tpc' = "up"
  BY <1>2
<1> QED BY <1>1, <1>2, <1>5, <1>13, <1>15, <1>16, Zenon DEF StreamInv

\* Once the connection has ended, what was returned stays as it is.
LEMMA Stops ==
    ASSUME StreamInv, tpc' \in {"none", "ended"}, UNCHANGED <<server, response, got>>,
           wire' \in Seq(Unit), pending' \in Seq(Unit)
    PROVE  StreamInv'
BY DEF StreamInv

\* recv's decoding loop.
LEMMA DecodeKeeps ==
    ASSUME StreamInv, DecodeText \/ DecodeBinary \/ DecodeControl \/ DecodeClose
    PROVE  StreamInv'
<1>1. Decoded
  BY DEF DecodeText, DecodeBinary, DecodeControl, DecodeClose
<1>2. /\ WellFormed(server) /\ wire \in Seq(Unit) /\ pending \in Seq(Unit)
      /\ pending # <<>> /\ ~HeaderCut /\ tpc = "up"
      /\ UNCHANGED <<server, response, wire>>
  BY <1>1 DEF StreamInv, Decoded
<1>3. PICK pos, k :
         InStream(server, wire, pending, accumulated, got, decoding, left, pos, k)
  BY <1>2 DEF StreamInv
<1>4. Decodes(pos, k)
  BY <1>2, <1>3, DecoderFacts
<1> DEFINE q == (pos + Header) + PayloadLen
           j == IF FrameDone THEN k + 1 ELSE k
           U == ServerUnits(server)
           T == TextOf(U, Len(got) + 1)
           f == server.frames[k + 1]
<1>5. Moved(pos, k, q, j)
  BY <1>1, <1>2, <1>3, <1>4, DecoderMoves, Zenon
<1>6. Current = f
  BY <1>4 DEF Decodes
<1>7. accumulated = T[pos]
  BY <1>3 DEF InStream
<1>8. /\ f.type = "text" => T[q] = T[pos] \o Payload
      /\ f.type = "binary" => T[q] = <<>>
      /\ f.type \notin {"text", "binary"} => T[q] = T[pos]
  <2>1. k \in Nat /\ pos \in Nat /\ Len(got) = Completed(server.frames, k)
    BY <1>3 DEF InStream
  <2>2. /\ k + 1 <= Len(server.frames) /\ Header \in Nat /\ InFrame(server, k, pos, Header, q)
    BY <1>4 DEF Decodes
  <2>3. /\ q \in Nat /\ Payload \in Seq(Unit) /\ q = (pos + Header) + Len(Payload)
        /\ q <= Ends(server)[k + 1] /\ Holds(U, pos + Header, Payload)
    BY <1>5 DEF Moved
  <2> DEFINE m == Completed(server.frames, k) + 1
             t == TextOf(U, m)
             h == Header
             x == Payload
  <2> HIDE DEF q, h, x
  <2>4. /\ q \in Nat /\ x \in Seq(Unit) /\ q = (pos + h) + Len(x) /\ h \in Nat
        /\ q <= Ends(server)[k + 1] /\ Holds(U, pos + h, x) /\ InFrame(server, k, pos, h, q)
    BY <2>2, <2>3 DEF h, x
  <2>5. /\ f.type = "text" => t[q] = t[pos] \o x
        /\ f.type = "binary" => t[q] = <<>>
        /\ f.type \notin {"text", "binary"} => t[q] = t[pos]
    <3>1. Assembled(server, k, pos, q, x)
      BY <1>2, <2>1, <2>2, <2>4, FrameTexts, Zenon
    <3> QED BY <3>1, Zenon DEF Assembled
  <2>6. t = T
    BY <2>1
  <2> HIDE DEF t, T
  <2> QED BY <2>5, <2>6, Zenon DEF x
<1> HIDE DEF q, j, T, f
<1>9. Ending(server.frames, k + 1) <=> f.type = "text" /\ f.fin
  BY DEF Ending, f
<1>10. CASE DecodeText
  <2>1. f.type = "text"
    BY <1>6, <1>10 DEF DecodeText
  <2>2. T[q] = accumulated \o Payload
    BY <1>7, <1>8, <2>1
  <2>3. CASE FrameDone /\ Current.fin
    <3>1. /\ accumulated' = <<>>
          /\ \/ got' = Append(got, accumulated \o Payload) /\ tpc' = tpc
             \/ tpc' = "ended" /\ got' = got
      BY <1>10, <2>3 DEF DecodeText
    <3>2. CASE got' = Append(got, accumulated \o Payload) /\ tpc' = tpc
      <4>1. got' = Append(got, TextOf(ServerUnits(server), Len(got) + 1)[q])
        BY <2>2, <3>2, Zenon DEF T
      <4>2. FrameDone /\ Ending(server.frames, k + 1)
        BY <1>6, <1>9, <2>1, <2>3
      <4> QED BY <1>1, <1>3, <1>4, <1>5, <3>1, <3>2, <4>1, <4>2, Returns, Zenon
    <3>3. CASE tpc' = "ended" /\ got' = got
      <4>1. pending' \in Seq(Unit) /\ wire' \in Seq(Unit)
        BY <1>2, <1>5 DEF Moved
      <4> QED BY <1>2, <3>3, <4>1, Stops
    <3> QED BY <3>1, <3>2, <3>3
  <2>4. CASE ~(FrameDone /\ Current.fin)
    <3>1. accumulated' = accumulated \o Payload /\ tpc' = tpc /\ got' = got
      BY <1>10, <2>4 DEF DecodeText
    <3>2. accumulated' = TextOf(ServerUnits(server), Len(got) + 1)[q]
      BY <2>2, <3>1 DEF T
    <3>3. ~(FrameDone /\ Ending(server.frames, k + 1))
      BY <1>6, <1>9, <2>4
    <3> QED BY <1>1, <1>3, <1>4, <1>5, <3>1, <3>2, <3>3, Continues, Zenon
  <2> QED BY <2>3, <2>4
<1>11. CASE DecodeBinary
  <2>1. f.type = "binary" /\ accumulated' = <<>> /\ tpc' = tpc /\ got' = got
    BY <1>6, <1>11 DEF DecodeBinary
  <2>2. accumulated' = TextOf(ServerUnits(server), Len(got) + 1)[q]
    BY <1>8, <2>1 DEF T
  <2>3. ~(FrameDone /\ Ending(server.frames, k + 1))
    BY <1>9, <2>1
  <2> QED BY <1>1, <1>3, <1>4, <1>5, <2>1, <2>2, <2>3, Continues, Zenon
<1>12. CASE DecodeControl
  <2>1. f.type \in {"ping", "pong"} /\ accumulated' = accumulated /\ tpc' = tpc /\ got' = got
    BY <1>6, <1>12 DEF DecodeControl
  <2>2. accumulated' = TextOf(ServerUnits(server), Len(got) + 1)[q]
    BY <1>7, <1>8, <2>1, Zenon DEF T
  <2>3. ~(FrameDone /\ Ending(server.frames, k + 1))
    BY <1>9, <2>1
  <2> QED BY <1>1, <1>3, <1>4, <1>5, <2>1, <2>2, <2>3, Continues, Zenon
<1>13. CASE DecodeClose
  <2>1. tpc' = "ended" /\ got' = got
    BY <1>13 DEF DecodeClose
  <2>2. pending' \in Seq(Unit) /\ wire' \in Seq(Unit)
    BY <1>2, <1>5 DEF Moved
  <2> QED BY <1>2, <2>1, <2>2, Stops
<1> QED BY <1>10, <1>11, <1>12, <1>13

\* A sequence holds itself, from its first position on.
LEMMA HoldsSelf ==
    ASSUME NEW w
    PROVE  Holds(w, 0, w)
<1> SUFFICES ASSUME NEW i \in 1 .. Len(w) PROVE w[0 + i] = w[i]
  BY DEF Holds
<1>1. 0 + i = i
  OBVIOUS
<1> QED BY <1>1

\* A read of the socket moves units from the wire to what is pending.
LEMMA ReadSocketKeeps ==
    ASSUME StreamInv, NEW n, ReadSocket(n)
    PROVE  StreamInv'
<1>1. /\ WellFormed(server) /\ response \in Nat /\ wire \in Seq(Unit) /\ Exact(server, got)
      /\ pending = <<>> /\ tpc = "up" /\ n \in 1 .. Smaller(Len(wire), RxSize)
      /\ pending' = SubSeq(wire, 1, n) /\ wire' = Drop(wire, n)
      /\ UNCHANGED <<tpc, server, response, accumulated, got, decoding, left>>
  BY DEF StreamInv, ReadSocket, Counts, dialVars
<1>2. PICK pos, k :
         InStream(server, wire, pending, accumulated, got, decoding, left, pos, k)
  BY <1>1 DEF StreamInv
<1> DEFINE U == ServerUnits(server)
           L == Len(wire)
<1>3. /\ pos \in Nat /\ k \in Nat /\ k <= Len(server.frames)
      /\ (pos + Len(pending)) + L = Len(U) /\ Holds(U, pos + Len(pending), wire)
      /\ Len(got) = Completed(server.frames, k)
      /\ accumulated = TextOf(U, Len(got) + 1)[pos]
      /\ Midway(server, decoding, left, pos, k)
  BY <1>2 DEF InStream
<1>4. Len(pending) = 0 /\ pos + 0 = pos
  BY <1>1, <1>3
<1>5. L \in Nat
  BY <1>1, SeqShape, Zenon
<1>6. n \in Nat /\ n <= L
  <2>1. RxSize \in Nat /\ n \in 1 .. Smaller(L, RxSize)
    BY <1>1, EmbassyAssumption
  <2> HIDE DEF L
  <2> QED BY <1>5, <2>1 DEF Smaller
<1>7. /\ pending' \in Seq(Unit) /\ Len(pending') = n
      /\ wire' \in Seq(Unit) /\ Len(wire') = L - n
      /\ Holds(U, pos, pending') /\ Holds(U, pos + n, wire')
  <2>1. /\ SubSeq(wire, 1, n) \in Seq(Unit) /\ Len(SubSeq(wire, 1, n)) = n
        /\ Drop(wire, n) \in Seq(Unit) /\ Len(Drop(wire, n)) = Len(wire) - n
        /\ \A c, y : y \in Nat /\ Holds(c, y, wire) =>
              Holds(c, y, SubSeq(wire, 1, n)) /\ Holds(c, y + n, Drop(wire, n))
    BY <1>1, <1>6, Cut
  <2>2. Holds(U, pos, wire)
    BY <1>3, <1>4
  <2> QED BY <1>1, <1>3, <2>1, <2>2, Zenon
<1> HIDE DEF U, L
<1>8. (pos + n) + (L - n) = Len(U)
  <2>1. pos \in Nat /\ L \in Nat /\ n \in Nat /\ (pos + 0) + L = Len(U)
    BY <1>3, <1>4, <1>5, <1>6, Zenon
  <2> QED BY <2>1
<1>9. InStream(server', wire', pending', accumulated', got', decoding', left', pos, k)
  BY <1>1, <1>3, <1>7, <1>8, Zenon DEF InStream, U
<1> QED BY <1>1, <1>7, <1>9 DEF StreamInv

\* A dial starts with all of the server's units on the wire.
LEMMA DialKeeps ==
    ASSUME NEW s \in Servers, Dial(s)
    PROVE  StreamInv'
<1>1. WellFormed(s)
  BY EmbassyAssumption
<1>2. /\ tpc' = "connecting" /\ server' = s /\ response' = 0 /\ wire' = ServerUnits(s)
      /\ pending' = <<>> /\ accumulated' = <<>> /\ got' = <<>> /\ decoding' = NoFrame
  BY DEF Dial
<1>3. ServerUnits(s) \in Seq(Unit) /\ Len(ServerUnits(s)) \in Nat
  BY <1>1, Positions, Zenon
<1>4. Holds(ServerUnits(s), 0, ServerUnits(s))
  BY HoldsSelf
<1>5. Exact(s, <<>>)
  BY DEF Exact
<1>6. 0 + Len(ServerUnits(s)) = Len(ServerUnits(s)) /\ <<>> \in Seq(Unit) /\ 0 \in Nat
  BY <1>3
<1> QED BY <1>1, <1>2, <1>3, <1>4, <1>5, <1>6 DEF StreamInv

\* The opening handshake: what follows the response in the buffer is the stream's.
LEMMA ReadResponseKeeps ==
    ASSUME StreamInv, NEW n, ReadResponse(n)
    PROVE  StreamInv'
<1> DEFINE U == ServerUnits(server)
           L == Len(wire)
           r == server.response
           y == response'
<1>1. /\ WellFormed(server) /\ response \in Nat /\ wire \in Seq(Unit) /\ Exact(server, got)
      /\ tpc = "response"
      /\ response + L = Len(U) /\ Holds(U, response, wire)
      /\ pending = <<>> /\ accumulated = <<>> /\ got = <<>> /\ decoding = NoFrame
  BY DEF StreamInv, ReadResponse
<1>2. /\ n \in 1 .. Smaller(L, HandshakeSize - response)
      /\ wire' = Drop(wire, n) /\ y = response + n
      /\ UNCHANGED <<server, accumulated, got, decoding, left>>
      /\ pending' = IF tpc' = "up" THEN SubSeq(U, r + 1, y) ELSE <<>>
  BY DEF ReadResponse, Counts
<1>3. tpc' \in {"up", "none", "response"} /\ (tpc' = "up" => y >= r)
  BY DEF ReadResponse
<1>4. L \in Nat /\ Len(U) \in Nat /\ U \in Seq(Unit) /\ r \in Nat
  BY <1>1, Positions, SeqShape, Zenon DEF WellFormed
<1>5. n \in Nat /\ n <= L
  <2>1. HandshakeSize \in Nat
    BY EmbassyAssumption
  <2> HIDE DEF L
  <2> QED BY <1>1, <1>2, <1>4, <2>1 DEF Smaller
<1>6. wire' \in Seq(Unit) /\ Len(wire') = L - n /\ Holds(U, response + n, wire')
  <2>1. /\ Drop(wire, n) \in Seq(Unit) /\ Len(Drop(wire, n)) = Len(wire) - n
        /\ \A c, x : x \in Nat /\ Holds(c, x, wire) => Holds(c, x + n, Drop(wire, n))
    BY <1>1, <1>5, Cut
  <2> QED BY <1>1, <1>2, <2>1, Zenon
<1> HIDE DEF L, U, r
<1>7. y \in Nat /\ y <= Len(U) /\ y + (L - n) = Len(U)
  BY <1>1, <1>2, <1>4, <1>5
<1>8. CASE tpc' = "up"
  <2> DEFINE l == y - r
  <2>1. l \in Nat /\ r + l = y
    <3>1. r \in Nat /\ y \in Nat /\ y >= r
      BY <1>3, <1>4, <1>7, <1>8, Zenon
    <3>2. \A u, v \in Nat : u >= v => u - v \in Nat /\ v + (u - v) = u
      OBVIOUS
    <3> QED BY <3>1, <3>2, Zenon
  <2> HIDE DEF l
  <2>2. pending' = SubSeq(U, r + 1, r + l)
    BY <1>2, <1>8, <2>1, Zenon
  <2>3. pending' \in Seq(Unit) /\ Len(pending') = l /\ Holds(U, r, pending')
    <3>1. r + l <= Len(U) /\ Holds(U, 0, U) /\ 0 \in Nat /\ 0 + r = r
      BY <1>4, <1>7, <2>1, HoldsSelf
    <3> DEFINE x == SubSeq(U, r + 1, r + l)
    <3>2. x \in Seq(Unit) /\ Len(x) = l /\ Holds(U, 0 + r, x)
      BY <1>4, <2>1, <3>1, Middle, Zenon
    <3> QED BY <2>2, <3>1, <3>2, Zenon
  <2>4. (r + l) + (L - n) = Len(U) /\ Holds(U, r + l, wire')
    BY <1>2, <1>6, <1>7, <2>1, Zenon
  <2>5. Len(server.frames) \in Nat /\ Ends(server)[0] = r
    BY <1>1, Positions, Zenon DEF r
  <2>6. Len(got) = 0 /\ Completed(server.frames, 0) = 0
    BY <1>1, CompletedStep
  <2>7. TextOf(U, Len(got) + 1)[r] = <<>>
    <3>1. r <= Ends(server)[0] /\ 0 \in 0 .. Len(server.frames)
      BY <1>4, <2>5
    <3>2. \A m \in 1 .. 0 : server.frames[m].type = "text" => server.frames[m].msg # Len(got) + 1
      OBVIOUS
    <3> QED BY <1>1, <1>4, <3>1, <3>2, TextBefore, Zenon DEF U
  <2>8. Midway(server, decoding, left', r, 0)
    BY <1>1, <2>5 DEF Midway
  <2>9. 0 \in Nat /\ 0 <= Len(server.frames)
    BY <2>5
  <2>10. InStream(server, wire', pending', accumulated, got, decoding, left', r, 0)
    <3>1. (r + Len(pending')) + Len(wire') = Len(U) /\ Holds(U, r + Len(pending'), wire')
      BY <1>6, <2>3, <2>4, Zenon
    <3>2. Len(got) = Completed(server.frames, 0) /\ accumulated = TextOf(U, Len(got) + 1)[r]
      BY <1>1, <2>6, <2>7, Zenon
    <3> QED BY <1>4, <2>3, <2>8, <2>9, <3>1, <3>2, Zenon DEF InStream, U
  <2>11. InStream(server', wire', pending', accumulated', got', decoding', left', r, 0)
    BY <1>2, <2>10, Zenon
  <2>12. tpc' \notin {"connecting", "response"}
    BY <1>8
  <2>13. WellFormed(server') /\ response' \in Nat /\ Exact(server', got')
    BY <1>1, <1>2, <1>7
  <2> QED BY <1>6, <2>3, <2>11, <2>12, <2>13 DEF StreamInv
<1>9. CASE tpc' # "up"
  <2>1. pending' = <<>>
    BY <1>2, <1>9
  <2>2. Holds(U, y, wire') /\ y + Len(wire') = Len(U)
    BY <1>2, <1>6, <1>7, Zenon
  <2>3. <<>> \in Seq(Unit)
    OBVIOUS
  <2> QED BY <1>1, <1>2, <1>6, <1>7, <1>9, <2>1, <2>2, <2>3, Zenon DEF StreamInv, U
<1> QED BY <1>8, <1>9

\* Before the first dial nothing has been received.
LEMMA StreamInit ==
    ASSUME Init
    PROVE  StreamInv
<1>1. tpc = "none" /\ server = NoServer /\ response = 0 /\ wire = <<>> /\ pending = <<>> /\ got = <<>>
  BY DEF Init, EmbassyInit
<1>2. WellFormed(NoServer)
  <2>1. NoServer.response = 0 /\ NoServer.frames = <<>>
    BY DEF NoServer
  <2>2. <<>> \in Seq(Frames) /\ Len(<<>>) = 0 /\ 1 .. 0 = {}
    OBVIOUS
  <2> QED BY <2>1, <2>2 DEF WellFormed, Settled
<1>3. <<>> \in Seq(Unit)
  OBVIOUS
<1>4. Exact(NoServer, <<>>)
  BY DEF Exact
<1> QED BY <1>1, <1>2, <1>3, <1>4 DEF StreamInv

\* A step that leaves the stream half alone keeps its invariant.
LEMMA StreamSame ==
    ASSUME StreamInv,
           UNCHANGED <<tpc, server, response, wire, pending, accumulated, got, decoding, left>>
    PROVE  StreamInv'
<1>1. /\ tpc' = tpc /\ server' = server /\ response' = response /\ wire' = wire
      /\ pending' = pending /\ accumulated' = accumulated /\ got' = got
      /\ decoding' = decoding /\ left' = left
  OBVIOUS
<1> QED BY <1>1 DEF StreamInv

\* Every step of the board keeps the stream in order.
LEMMA StreamNext ==
    ASSUME StreamInv, [Next]_vars
    PROVE  StreamInv'
<1>1. ASSUME UNCHANGED embassyVars PROVE StreamInv'
  BY <1>1, StreamSame DEF embassyVars, dialVars, streamVars
<1>2. ASSUME TryDial PROVE StreamInv'
  <2>1. CASE leaked < Sockets
    <3>1. PICK s \in Servers : Dial(s)
      BY <1>2, <2>1 DEF TryDial
    <3> QED BY <3>1, DialKeeps
  <2>2. CASE ~(leaked < Sockets)
    BY <1>1, <1>2, <2>2 DEF TryDial
  <2> QED BY <2>1, <2>2
<1>3. ASSUME Requested PROVE StreamInv'
  <2>1. /\ tpc = "connecting" /\ tpc' \in {"response", "unheard"}
        /\ UNCHANGED <<server, response, wire, pending, accumulated, got, decoding, left>>
    BY <1>3 DEF Requested, streamVars
  <2> QED BY <2>1 DEF StreamInv
<1>4. ASSUME DialFails \/ CutHeader \/ SocketEnds PROVE StreamInv'
  <2>1. /\ tpc' \in {"none", "ended"}
        /\ UNCHANGED <<server, response, wire, pending, got>>
    BY <1>4 DEF DialFails, CutHeader, SocketEnds, streamVars
  <2>2. wire' \in Seq(Unit) /\ pending' \in Seq(Unit)
    BY <2>1 DEF StreamInv
  <2> QED BY <2>1, <2>2, Stops
<1>5. ASSUME Recv \/ CancelRecv \/ SinkStep PROVE StreamInv'
  <2>1. UNCHANGED <<tpc, server, response, wire, pending, accumulated, got, decoding, left>>
    <3>1. CASE Recv
      BY <3>1 DEF Recv, dialVars
    <3>2. CASE CancelRecv
      BY <3>2 DEF CancelRecv, dialVars
    <3>3. CASE SinkStep
      BY <3>3, Zenon DEF SinkStep, Encode, WriteSocket, Flushed, CancelSend, Transmit, dialVars, streamVars
    <3> QED BY <1>5, <3>1, <3>2, <3>3
  <2> QED BY <2>1, StreamSame
<1>6. ASSUME RecvStep PROVE StreamInv'
  <2>1. CASE \E n \in 1 .. RxSize : ReadSocket(n)
    BY <2>1, ReadSocketKeeps
  <2>2. CASE DecodeText \/ DecodeBinary \/ DecodeControl \/ DecodeClose
    BY <2>2, DecodeKeeps
  <2>3. CASE CutHeader
    BY <1>4, <2>3
  <2> QED BY <1>6, <2>1, <2>2, <2>3 DEF RecvStep
<1>7. ASSUME StreamStep PROVE StreamInv'
  <2>1. CASE \E n \in 1 .. HandshakeSize : ReadResponse(n)
    BY <2>1, ReadResponseKeeps
  <2> QED BY <1>4, <1>5, <1>6, <1>7, <2>1 DEF StreamStep, DialStep
<1>8. CASE Next
  BY <1>1, <1>2, <1>3, <1>5, <1>7, <1>8, Zenon
     DEF Next, Boot, NetworkUp, BoardDial, BoardRedial, BoardRequested, Retry, BuildClient,
         Register, BoardSend
<1>9. CASE UNCHANGED vars
  BY <1>1, <1>9 DEF vars
<1> QED BY <1>8, <1>9

\* Between the server and the application no text is lost, repeated, cut or mixed
\* with another.
LEMMA StreamAlways == Spec => []StreamInv
<1>1. Init => StreamInv
  BY StreamInit
<1>2. StreamInv /\ [Next]_vars => StreamInv'
  BY StreamNext
<1> QED BY <1>1, <1>2, PTL DEF Spec

\* The n-th text recv returns is the n-th the server sent, for every server, every
\* size of the buffers, however TCP cuts the stream and however often recv is
\* dropped and called again (EmbassyWsStream::recv).
THEOREM TextsComeThrough == Spec => []TextsExact
<1>1. StreamInv => TextsExact
  BY DEF StreamInv, Exact, TextsExact, Text, Message, AllUnits
<1> QED BY <1>1, StreamAlways, PTL

\* Once all of the server's bytes have been taken in, every text has been returned
\* and none is half assembled (EmbassyWsStream::recv).
THEOREM NothingLeftBehind == Spec => []AllDelivered
<1>1. ASSUME StreamInv, tpc = "up", wire = <<>>, pending = <<>>
      PROVE  DOMAIN got = Messages /\ accumulated = <<>>
  <2> DEFINE F == server.frames
             U == ServerUnits(server)
             e == Ends(server)
             K == Len(F)
  <2>1. WellFormed(server) /\ got \in Seq(Seq(Unit))
    BY <1>1 DEF StreamInv, Exact
  <2>2. PICK pos, k :
           InStream(server, wire, pending, accumulated, got, decoding, left, pos, k)
    BY <1>1 DEF StreamInv
  <2>3. /\ pos \in Nat /\ k \in Nat /\ k <= K /\ (pos + Len(pending)) + Len(wire) = Len(U)
        /\ Len(got) = Completed(F, k) /\ accumulated = TextOf(U, Len(got) + 1)[pos]
        /\ Midway(server, decoding, left, pos, k)
    BY <2>2 DEF InStream
  <2>4. /\ K \in Nat /\ e \in [0 .. K -> Nat] /\ e[K] = Len(U)
        /\ \A i \in 1 .. K : e[i - 1] < e[i]
        /\ \A i, j \in 0 .. K : i <= j => e[i] <= e[j]
    BY <2>1, Positions, Zenon
  <2>5. pos = e[K]
    <3>1. Len(pending) = 0 /\ Len(wire) = 0
      BY <1>1
    <3>2. (pos + 0) + 0 = pos
      BY <2>3
    <3> QED BY <2>3, <2>4, <3>1, <3>2, Zenon
  <2> HIDE DEF K, e
  <2>6. k = K
    <3> SUFFICES ASSUME k # K PROVE FALSE
      OBVIOUS
    <3>1. k + 1 \in 1 .. K /\ k + 1 \in 0 .. K /\ k \in 0 .. K /\ K \in 0 .. K
          /\ (k + 1) - 1 = k /\ k + 1 <= K
      BY <2>3, <2>4
    <3>2. e[k] < e[k + 1] /\ e[k + 1] <= e[K] /\ e[k] \in Nat /\ e[k + 1] \in Nat /\ e[K] \in Nat
      BY <2>4, <3>1
    <3>3. pos = e[k] \/ (left \in 1 .. decoding.len /\ pos + left = e[k + 1])
      BY <2>3, Zenon DEF Midway, e
    <3>4. CASE pos = e[k]
      BY <2>5, <3>2, <3>4
    <3>5. CASE left \in 1 .. decoding.len /\ pos + left = e[k + 1]
      <4>1. left \in Int /\ left >= 1 /\ pos + left = e[k + 1]
        BY <3>5
      <4> QED BY <2>5, <3>2, <4>1
    <3> QED BY <3>3, <3>4, <3>5
  <2>7. /\ Completed(F, K) \in Nat
        /\ {F[j].msg : j \in {i \in DOMAIN F : F[i].type = "text"}} = 1 .. Completed(F, K)
        /\ TextOf(U, Completed(F, K) + 1)[Len(U)] = <<>>
    BY <2>1, AllTexts, Zenon DEF K
  <2>8. accumulated = <<>>
    BY <2>3, <2>4, <2>5, <2>6, <2>7, Zenon
  <2>9. DOMAIN got = 1 .. Len(got)
    BY <2>1
  <2>10. Messages = 1 .. Len(got)
    BY <2>3, <2>6, <2>7, Zenon DEF Messages
  <2> QED BY <2>8, <2>9, <2>10
<1>2. StreamInv => AllDelivered
  BY <1>1 DEF AllDelivered
<1> QED BY <1>2, StreamAlways, PTL

------------------------------------------------------------------------------
(* The sink. *)

\* Unless a send was dropped, the transmit buffer is empty when one starts.
SinkInv ==
    /\ queued \in Nat /\ sending \in Nat /\ torn \in Nat /\ cancelled \in BOOLEAN
    /\ ~cancelled /\ spc # "flush" => queued = 0
    /\ WholeIfItFits

\* A frame that fits the transmit buffer goes out whole, for every size of the
\* buffer and every length, as long as no send before it was dropped: each waits
\* for the buffer to empty (EmbassyWsSink::write_frame).
THEOREM SendsWhole == Spec => []WholeIfItFits
<1>0. 0 \in Nat /\ ~(0 > 0) /\ FALSE \in BOOLEAN
  OBVIOUS
<1>1. Init => SinkInv
  BY <1>0, Zenon DEF Init, EmbassyInit, SinkInv, WholeIfItFits
<1>2. ASSUME SinkInv, [Next]_vars PROVE SinkInv'
  <2>1. ASSUME UNCHANGED sinkVars PROVE SinkInv'
    BY <1>2, <2>1 DEF SinkInv, WholeIfItFits, sinkVars
  <2>2. ASSUME UNCHANGED embassyVars PROVE SinkInv'
    BY <2>1, <2>2 DEF embassyVars
  <2>3. ASSUME TryDial PROVE SinkInv'
    <3>1. ASSUME NEW s, Dial(s) PROVE SinkInv'
      BY <1>0, <3>1, Zenon DEF Dial, SinkInv, WholeIfItFits
    <3> QED BY <2>2, <2>3, <3>1 DEF TryDial
  <2>4. ASSUME SinkStep PROVE SinkInv'
    <3>1. ASSUME NEW length \in Lengths, Encode(length) PROVE SinkInv'
      BY <1>2, <3>1, EmbassyAssumption DEF Encode, SinkInv, WholeIfItFits
    <3>2. ASSUME WriteSocket PROVE SinkInv'
      <4> DEFINE taken == Smaller(sending, TxSize - queued)
      <4>1. /\ queued < TxSize /\ queued' = queued + taken /\ spc = "write" /\ spc' = "flush"
            /\ torn' = (IF taken < sending THEN sending ELSE torn)
            /\ UNCHANGED <<sending, cancelled>>
        BY <3>2 DEF WriteSocket
      <4>2. TxSize \in Nat /\ queued \in Nat /\ sending \in Nat /\ torn \in Nat
        BY <1>2, EmbassyAssumption, Zenon DEF SinkInv
      <4>3. taken \in Nat
        BY <4>1, <4>2 DEF Smaller
      <4>4. queued' \in Nat /\ torn' \in Nat
        BY <4>1, <4>2, <4>3
      <4>5. ASSUME torn' > 0, ~cancelled' PROVE torn' > TxSize
        <5>1. queued = 0
          BY <1>2, <4>1, <4>5 DEF SinkInv
        <5>2. taken = IF sending < TxSize THEN sending ELSE TxSize
          BY <4>2, <5>1 DEF Smaller
        <5>3. CASE taken < sending
          BY <4>1, <4>2, <5>2, <5>3
        <5>4. CASE ~(taken < sending)
          <6>1. torn' = torn
            BY <4>1, <5>4
          <6> QED BY <1>2, <4>1, <4>5, <6>1 DEF SinkInv, WholeIfItFits
        <5> QED BY <5>3, <5>4
      <4> QED BY <1>2, <4>1, <4>2, <4>4, <4>5 DEF SinkInv, WholeIfItFits
    <3>3. ASSUME Flushed PROVE SinkInv'
      BY <1>2, <3>3 DEF Flushed, SinkInv, WholeIfItFits
    <3>4. ASSUME CancelSend PROVE SinkInv'
      BY <1>2, <3>4 DEF CancelSend, SinkInv, WholeIfItFits
    <3>5. ASSUME Transmit PROVE SinkInv'
      BY <1>2, <3>5 DEF Transmit, SinkInv, WholeIfItFits
    <3> QED BY <2>4, <3>1, <3>2, <3>3, <3>4, <3>5 DEF SinkStep
  <2>5. ASSUME StreamStep PROVE SinkInv'
    <3>1. UNCHANGED sinkVars
      BY <2>5 DEF StreamStep, DialStep, ReadResponse, DialFails, Recv, RecvStep, ReadSocket,
                  DecodeText, DecodeBinary, DecodeControl, DecodeClose, Decoded, CutHeader,
                  CancelRecv, SocketEnds
    <3> QED BY <2>1, <3>1
  <2>6. ASSUME Requested PROVE SinkInv'
    BY <2>1, <2>6 DEF Requested
  <2>7. CASE Next
    BY <2>2, <2>3, <2>4, <2>5, <2>6, <2>7
       DEF Next, Boot, NetworkUp, BoardDial, BoardRedial, BoardRequested, Retry, BuildClient,
           Register, BoardSend
  <2>8. CASE UNCHANGED vars
    BY <2>2, <2>8 DEF vars
  <2> QED BY <1>2, <2>7, <2>8
<1>3. SinkInv => WholeIfItFits
  BY DEF SinkInv
<1> QED BY <1>1, <1>2, <1>3, PTL DEF Spec

------------------------------------------------------------------------------
(* The firmware. *)

\* Nothing is dialled before the cell of the RNG is filled.
RngInv ==
    /\ mpc # "boot" => rng = TRUE
    /\ tpc # "none" => mpc # "boot"
    /\ RngBeforeUse

\* No use of the RNG finds its cell empty, whatever the network does (main,
\* SharedHwRng, __getrandom_v03_custom).
THEOREM RngIsReady == Spec => []RngBeforeUse
<1>1. Init => RngInv
  BY DEF Init, EmbassyInit, RngInv, RngBeforeUse
<1>2. ASSUME RngInv, [Next]_vars PROVE RngInv'
  <2>1. ASSUME UNCHANGED <<mpc, rng, panic, tpc>> PROVE RngInv'
    BY <1>2, <2>1 DEF RngInv, RngBeforeUse
  <2>2. CASE Boot
    BY <1>2, <2>2 DEF Boot, UseRng, RngInv, RngBeforeUse
  <2>3. CASE NetworkUp
    BY <1>2, <2>3 DEF NetworkUp, RngInv, RngBeforeUse, embassyVars, dialVars
  <2>4. CASE BoardDial \/ BoardRedial
    <3>1. mpc # "boot" /\ mpc' # "boot" /\ rng' = rng /\ (panic' = panic \/ panic' = "sockets")
      BY <2>4 DEF BoardDial, BoardRedial, TryDial
    <3> QED BY <1>2, <3>1 DEF RngInv, RngBeforeUse
  <2>5. CASE BoardRequested
    <3>1. tpc = "connecting" /\ UNCHANGED <<mpc, rng>> /\ UseRng(rng)
      BY <2>5 DEF BoardRequested, Requested
    <3> QED BY <1>2, <3>1 DEF UseRng, RngInv, RngBeforeUse
  <2>6. CASE StreamStep
    <3>1. UNCHANGED <<mpc, rng, panic>> /\ tpc # "none"
      BY <2>6 DEF StreamStep, boardVars, DialStep, ReadResponse, DialFails, Recv, RecvStep,
                  ReadSocket, DecodeText, DecodeBinary, DecodeControl, DecodeClose, Decoded,
                  CutHeader, CancelRecv, SocketEnds
    <3> QED BY <1>2, <3>1 DEF RngInv, RngBeforeUse
  <2>7. CASE Retry
    BY <1>2, <2>7 DEF Retry, RngInv, RngBeforeUse, embassyVars, dialVars
  <2>8. CASE BuildClient
    BY <1>2, <2>8 DEF BuildClient, RngInv, RngBeforeUse, embassyVars, dialVars
  <2>9. CASE Register
    BY <2>1, <2>9 DEF Register, embassyVars, dialVars
  <2>10. CASE BoardSend
    <3>1. mpc = "beat" /\ UNCHANGED <<mpc, rng>> /\ UseRng(rng)
      BY <2>10 DEF BoardSend
    <3> QED BY <1>2, <3>1 DEF UseRng, RngInv, RngBeforeUse
  <2>11. CASE UNCHANGED vars
    BY <2>1, <2>11 DEF vars, boardVars, embassyVars, dialVars
  <2> QED BY <1>2, <2>2, <2>3, <2>4, <2>5, <2>6, <2>7, <2>8, <2>9, <2>10, <2>11 DEF Next
<1>3. RngInv => RngBeforeUse
  BY DEF RngInv
<1> QED BY <1>1, <1>2, <1>3, PTL DEF Spec

\* Every future was given a slot or dropped, and dropped only from a full pool.
PoolInv ==
    /\ tasks \in Nat /\ handlers \in Nat /\ dropped \in Nat /\ tasks <= PoolSize
    /\ tasks + dropped = handlers + (IF mpc = "beat" THEN 2 ELSE 0)
    /\ dropped > 0 => tasks = PoolSize

\* EmbassyExecutor::spawn gives a future a slot as long as there is one
\* (runtime.rs:71-86), so what is dropped is dropped from a full pool.
LEMMA SpawnFills ==
    ASSUME NEW n \in Nat, tasks \in Nat, dropped \in Nat, tasks <= PoolSize,
           dropped > 0 => tasks = PoolSize, Spawn(n)
    PROVE  /\ tasks' \in Nat /\ dropped' \in Nat /\ tasks' <= PoolSize
           /\ tasks' + dropped' = (tasks + dropped) + n
           /\ dropped' > 0 => tasks' = PoolSize
<1> DEFINE free == PoolSize - tasks
           most == Smaller(n, free)
<1>1. free \in Nat /\ PoolSize \in Nat /\ tasks + free = PoolSize
  BY BoardAssumption
<1>2. tasks' = tasks + most /\ dropped' = dropped + (n - most)
  BY DEF Spawn
<1> HIDE DEF free
<1>3. most \in Nat /\ most <= n /\ most <= free /\ (most = n \/ most = free)
  BY <1>1 DEF Smaller
<1> HIDE DEF most
<1> QED BY <1>1, <1>2, <1>3

\* With a pool of any size, no future is dropped before as many handlers are
\* registered as the pool has slots besides the client's own two
\* (EmbassyExecutor::spawn).
THEOREM PoolIsEnough == Spec => []PoolServesHandlers
<1>1. Init => PoolInv
  BY BoardAssumption DEF Init, PoolInv
<1>2. ASSUME PoolInv, [Next]_vars PROVE PoolInv'
  <2>1. ASSUME UNCHANGED <<tasks, handlers, dropped>>, mpc' = "beat" <=> mpc = "beat"
        PROVE  PoolInv'
    BY <1>2, <2>1 DEF PoolInv
  <2>2. CASE BuildClient
    <3>1. mpc # "beat" /\ mpc' = "beat" /\ handlers' = handlers /\ Spawn(2) /\ 2 \in Nat
      BY <2>2 DEF BuildClient
    <3>2. /\ tasks' \in Nat /\ dropped' \in Nat /\ tasks' <= PoolSize
          /\ tasks' + dropped' = (tasks + dropped) + 2
          /\ dropped' > 0 => tasks' = PoolSize
      BY <1>2, <3>1, SpawnFills DEF PoolInv
    <3>3. tasks \in Nat /\ dropped \in Nat /\ handlers \in Nat /\ tasks + dropped = handlers + 0
      BY <1>2, <3>1, Zenon DEF PoolInv
    <3>4. handlers' \in Nat /\ tasks' + dropped' = handlers' + 2
      <4>1. \A t, h \in Nat : t = h + 0 => t + 2 = h + 2
        OBVIOUS
      <4>2. tasks + dropped \in Nat
        BY <3>3
      <4> QED BY <3>1, <3>2, <3>3, <4>1, <4>2, Zenon
    <3> QED BY <3>1, <3>2, <3>4, Zenon DEF PoolInv
  <2>3. CASE Register
    <3>1. mpc = "beat" /\ mpc' = mpc /\ handlers' = handlers + 1 /\ Spawn(1) /\ 1 \in Nat
      BY <2>3 DEF Register
    <3>2. /\ tasks' \in Nat /\ dropped' \in Nat /\ tasks' <= PoolSize
          /\ tasks' + dropped' = (tasks + dropped) + 1
          /\ dropped' > 0 => tasks' = PoolSize
      BY <1>2, <3>1, SpawnFills DEF PoolInv
    <3>3. tasks \in Nat /\ dropped \in Nat /\ handlers \in Nat /\ tasks + dropped = handlers + 2
      BY <1>2, <3>1, Zenon DEF PoolInv
    <3>4. handlers' \in Nat /\ tasks' + dropped' = handlers' + 2
      <4>1. \A t, h \in Nat : t = h + 2 => t + 1 = (h + 1) + 2 /\ h + 1 \in Nat
        OBVIOUS
      <4>2. tasks + dropped \in Nat
        BY <3>3
      <4> QED BY <3>1, <3>2, <3>3, <4>1, <4>2, Zenon
    <3> QED BY <3>1, <3>2, <3>4, Zenon DEF PoolInv
  <2>4. CASE \/ Boot \/ NetworkUp \/ BoardDial \/ BoardRedial \/ BoardRequested
             \/ StreamStep \/ Retry \/ BoardSend
    BY <2>1, <2>4, Zenon DEF Boot, NetworkUp, BoardDial, BoardRedial, TryDial, BoardRequested,
                      StreamStep, Retry, BoardSend, boardVars
  <2>5. CASE UNCHANGED vars
    BY <2>1, <2>5 DEF vars, boardVars
  <2> QED BY <1>2, <2>2, <2>3, <2>4, <2>5 DEF Next
<1>3. PoolInv => PoolServesHandlers
  BY BoardAssumption DEF PoolInv, PoolServesHandlers
<1> QED BY <1>1, <1>2, <1>3, PTL DEF Spec

=============================================================================
