------------------------- MODULE MediaPlayoutProofs -------------------------
(***************************************************************************)
(* The theorems about MediaPlayout, for every track length, watermark,     *)
(* channel capacity and number of commands: its types, that the driver's   *)
(* list of pending commands mirrors its deadline sender thread, and that   *)
(* frames are sent in order, none lost, none counted before it was sent.   *)
(*                                                                         *)
(* They rest on what FramesOf makes of a sequence of packets and on how many*)
(* of them are silence.  FramesOf is a recursive function: least elements of*)
(* sets of naturals stand in for induction over lengths.                   *)
(***************************************************************************)
EXTENDS MediaPlayoutDriverDelivery, WellFoundedInduction, FiniteSetTheorems

\* A non-empty set of naturals has a least element: what stands in for
\* induction over lengths below.
LEMMA LeastNat ==
  ASSUME NEW T, T \subseteq Nat, T # {}
  PROVE  \E x \in T : \A y \in T : x <= y
<1>1. PICK x \in T : \A y \in T : ~(<<y, x>> \in OpToRel(<, Nat))
  BY Zenon, NatLessThanWellFounded, WFMin
<1>2. ASSUME NEW y \in T PROVE x <= y
  <2>1. SUFFICES ASSUME y < x PROVE FALSE
    OBVIOUS
  <2>2. <<y, x>> \in Nat \X Nat
    OBVIOUS
  <2>3. <<y, x>>[1] < <<y, x>>[2]
    BY Zenon, <2>1
  <2>4. <<y, x>> \in OpToRel(<, Nat)
    BY Zenon, <2>2, <2>3 DEF OpToRel
  <2>5. QED
    BY Zenon, <1>1, <2>4
<1>3. QED
  BY Zenon, <1>2

-----------------------------------------------------------------------------
(* FramesOf: the recursive function in it exists, and returns frames.      *)

FrameStep(packets, i, s) ==
    IF packets[i].frame = NoFrame THEN s ELSE Append(s, packets[i].frame)

\* g satisfies the recursive definition of upTo for the first n packets.
CollectsUpTo(packets, n, g) ==
    g = [i \in 0..n |-> IF i = 0 THEN <<>> ELSE FrameStep(packets, i, g[i - 1])]

\* Such a function exists: the least n without one would be the successor of
\* one that has it.
LEMMA CollectorExists ==
  ASSUME NEW packets, NEW n \in Nat
  PROVE  \E g : CollectsUpTo(packets, n, g)
<1> DEFINE T == {m \in Nat : ~ \E g : CollectsUpTo(packets, m, g)}
<1>1. SUFFICES ASSUME T # {} PROVE FALSE
  OBVIOUS
<1>2. PICK m \in T : \A y \in T : m <= y
  <2>1. T \subseteq Nat
    OBVIOUS
  <2> HIDE DEF T
  <2>2. QED
    BY Zenon, <1>1, <2>1, LeastNat
<1>3. m # 0
  <2>1. CollectsUpTo(packets, 0, [i \in 0..0 |-> <<>>])
    BY DEF CollectsUpTo
  <2>2. QED
    BY Zenon, <2>1
<1>4. m - 1 \in Nat /\ m - 1 \notin T
  BY SMTT(60), <1>2, <1>3
<1>5. PICK g : CollectsUpTo(packets, m - 1, g)
  BY Zenon, <1>4
<1> DEFINE h == [i \in 0..m |-> IF i = m THEN FrameStep(packets, m, g[m - 1]) ELSE g[i]]
<1>6. ASSUME NEW i \in 0..m
      PROVE  h[i] = IF i = 0 THEN <<>> ELSE FrameStep(packets, i, h[i - 1])
  <2>1. CASE i = m
    <3>1. h[i] = FrameStep(packets, m, g[m - 1])
      BY Zenon, <2>1
    <3>2. h[m - 1] = g[m - 1]
      BY SMTT(60), <1>3, <1>4
    <3>3. QED
      BY Zenon, <3>1, <3>2, <2>1, <1>3
  <2>2. CASE i # m
    <3>1. i \in 0..(m - 1)
      BY SMTT(60), <2>2
    <3>2. g[i] = IF i = 0 THEN <<>> ELSE FrameStep(packets, i, g[i - 1])
      BY Zenon, <3>1, <1>5 DEF CollectsUpTo
    <3>3. h[i] = g[i]
      BY Zenon, <2>2
    <3>4. i # 0 => h[i - 1] = g[i - 1]
      BY <3>1
    <3>5. QED
      BY Zenon, <3>2, <3>3, <3>4
  <2>3. QED
    BY Zenon, <2>1, <2>2
<1>7. CollectsUpTo(packets, m, h)
  <2>1. h = [i \in 0..m |-> h[i]]
    OBVIOUS
  <2> HIDE DEF h
  <2>2. QED
    BY Zenon, <1>6, <2>1 DEF CollectsUpTo
<1>8. QED
  BY Zenon, <1>7, <1>2

\* FramesOf is the last value of such a function.
LEMMA FramesOfCollects ==
  ASSUME NEW packets \in Seq(Packet)
  PROVE  \E g : CollectsUpTo(packets, Len(packets), g) /\ FramesOf(packets) = g[Len(packets)]
<1> DEFINE u == CHOOSE g : CollectsUpTo(packets, Len(packets), g)
<1>1. Len(packets) \in Nat
  OBVIOUS
<1>2. CollectsUpTo(packets, Len(packets), u)
  BY Zenon, <1>1, CollectorExists
<1>3. FramesOf(packets) = u[Len(packets)]
  BY Zenon DEF FramesOf, CollectsUpTo, FrameStep
<1>4. QED
  BY ZenonT(60), <1>2, <1>3

\* The first element of a prefix 0..n at which something fails, if it fails at all.
LEMMA LeastFailure ==
  ASSUME NEW n \in Nat, NEW T, T \subseteq 0..n, T # {}
  PROVE  \E m \in T : m \in 0..n /\ (m = 0 \/ (m \in 1..n /\ m - 1 \in 0..n /\ m - 1 \notin T))
<1>1. T \subseteq Nat
  OBVIOUS
<1>2. PICK m \in T : \A y \in T : m <= y
  BY Zenon, <1>1, LeastNat
<1>3. m \in 0..n /\ (m # 0 => m \in 1..n /\ m - 1 \in 0..n /\ ~(m <= m - 1))
  BY SMTT(60), <1>2
<1>4. QED
  BY Zenon, <1>2, <1>3

\* FramesOf, prefix by prefix: every value of such a function is a sequence of
\* frames, and the next one adds the frame of the next packet, if it has one.
LEMMA FramesByPrefix ==
  ASSUME NEW packets \in Seq(Packet)
  PROVE  \E g : /\ FramesOf(packets) = g[Len(packets)]
                /\ g[0] = <<>>
                /\ \A i \in 0..Len(packets) : g[i] \in Seq(Frames)
                /\ \A i \in 1..Len(packets) :
                     /\ packets[i].frame = NoFrame => g[i] = g[i - 1]
                     /\ packets[i].frame # NoFrame =>
                          g[i] = Append(g[i - 1], packets[i].frame) /\ packets[i].frame \in Frames
<1> DEFINE n == Len(packets)
<1>1. PICK g : CollectsUpTo(packets, n, g) /\ FramesOf(packets) = g[n]
  BY Zenon, FramesOfCollects
<1>2. \A i \in 0..n : g[i] = IF i = 0 THEN <<>> ELSE FrameStep(packets, i, g[i - 1])
  BY Zenon, <1>1 DEF CollectsUpTo
<1>3. n \in Nat /\ <<>> \in Seq(Frames)
  OBVIOUS
<1>4. ASSUME NEW i \in 1..n
      PROVE  /\ packets[i].frame = NoFrame => g[i] = g[i - 1]
             /\ packets[i].frame # NoFrame =>
                  g[i] = Append(g[i - 1], packets[i].frame) /\ packets[i].frame \in Frames
  <2>1. packets[i] \in Packet
    BY ZenonT(60), <1>3, SeqElement
  <2>2. i \in 0..n /\ i # 0
    BY SMTT(60), <1>3
  <2>3. g[i] = FrameStep(packets, i, g[i - 1])
    BY Zenon, <2>2, <1>2
  <2>4. packets[i].frame # NoFrame => packets[i].frame \in Frames
    BY Zenon, <2>1 DEF Packet
  <2>5. QED
    BY ZenonT(60), <2>3, <2>4 DEF FrameStep
<1>5. g[0] = <<>>
  BY SMTT(60), <1>2, <1>3
<1> DEFINE T == {m \in 0..n : g[m] \notin Seq(Frames)}
<1>6. T = {}
  <2>1. SUFFICES ASSUME T # {} PROVE FALSE
    OBVIOUS
  <2>2. T \subseteq 0..n
    OBVIOUS
  <2> HIDE DEF T
  <2>3. PICK m \in T : m \in 0..n /\ (m = 0 \/ (m \in 1..n /\ m - 1 \in 0..n /\ m - 1 \notin T))
    BY ZenonT(60), <2>1, <2>2, <1>3, LeastFailure
  <2> USE DEF T
  <2>4. m # 0
    BY ZenonT(60), <2>3, <1>3, <1>5
  <2>5. m \in 1..n /\ g[m - 1] \in Seq(Frames)
    BY ZenonT(60), <2>3, <2>4
  <2>6. g[m] \in Seq(Frames)
    <3>1. g[m] = g[m - 1] \/ \E f \in Frames : g[m] = Append(g[m - 1], f)
      BY ZenonT(60), <2>5, <1>4
    <3> DEFINE h == g[m - 1]
    <3>2. h \in Seq(Frames)
      BY ZenonT(60), <2>5
    <3> HIDE DEF h
    <3>3. \A f \in Frames : Append(h, f) \in Seq(Frames)
      BY SMTT(60), <3>2
    <3>4. QED
      BY ZenonT(60), <3>1, <3>2, <3>3 DEF h
  <2>7. QED
    BY ZenonT(60), <2>3, <2>6
<1>7. \A i \in 0..n : g[i] \in Seq(Frames)
  BY Zenon, <1>6
<1>8. QED
  BY ZenonT(60), <1>1, <1>4, <1>5, <1>7

\* FramesOf returns a sequence of frames.
LEMMA FramesOfType ==
  ASSUME NEW packets \in Seq(Packet)
  PROVE  FramesOf(packets) \in Seq(Frames)
<1>1. PICK g : /\ FramesOf(packets) = g[Len(packets)]
               /\ \A i \in 0..Len(packets) : g[i] \in Seq(Frames)
  BY Zenon, FramesByPrefix
<1>2. Len(packets) \in 0..Len(packets)
  BY SMTT(60), SeqShape
<1>3. QED
  BY ZenonT(60), <1>1, <1>2

\* The frames of silence.
LEMMA FramesOfSilent == FramesSilent
<1>1. SUFFICES ASSUME NEW p \in Seq(Packet), \A i \in DOMAIN p : p[i].frame = NoFrame
               PROVE  FramesOf(p) = <<>>
  BY Zenon DEF FramesSilent
<1> DEFINE n == Len(p)
<1>2. PICK g : /\ FramesOf(p) = g[n] /\ g[0] = <<>>
               /\ \A i \in 1..n : p[i].frame = NoFrame => g[i] = g[i - 1]
  BY Zenon, FramesByPrefix
<1>3. n \in Nat /\ DOMAIN p = 1..n
  BY ZenonT(60), SeqShape
<1> DEFINE T == {m \in 0..n : g[m] # <<>>}
<1>4. SUFFICES ASSUME T # {} PROVE FALSE
  BY SMTT(60), <1>2, <1>3
<1>5. T \subseteq 0..n
  BY SMTT(60)
<1> HIDE DEF T
<1>6. PICK m \in T : m \in 0..n /\ (m = 0 \/ (m \in 1..n /\ m - 1 \in 0..n /\ m - 1 \notin T))
  BY ZenonT(60), <1>3, <1>4, <1>5, LeastFailure
<1>7. QED
  BY ZenonT(60), <1>1, <1>2, <1>3, <1>6 DEF T

\* The frames of tracks.
LEMMA FramesOfTracks == FramesTracks
<1>1. SUFFICES ASSUME NEW p \in Seq(Packet), \A i \in DOMAIN p : p[i].frame # NoFrame
               PROVE  /\ Len(FramesOf(p)) = Len(p)
                      /\ \A i \in DOMAIN p : FramesOf(p)[i] = p[i].frame
  BY Zenon DEF FramesTracks
<1> DEFINE n == Len(p)
<1>2. PICK g : /\ FramesOf(p) = g[n] /\ g[0] = <<>>
               /\ \A i \in 0..n : g[i] \in Seq(Frames)
               /\ \A i \in 1..n : p[i].frame # NoFrame =>
                     g[i] = Append(g[i - 1], p[i].frame) /\ p[i].frame \in Frames
  BY ZenonT(60), FramesByPrefix
<1>3. n \in Nat /\ DOMAIN p = 1..n
  BY Zenon, SeqShape
<1> DEFINE T == {m \in 0..n : ~(Len(g[m]) = m /\ \A j \in 1..m : g[m][j] = p[j].frame)}
<1>4. SUFFICES ASSUME T # {} PROVE FALSE
  BY SMTT(60), <1>2, <1>3
<1>5. T \subseteq 0..n
  BY SMTT(60)
<1> HIDE DEF T
<1>6. PICK m \in T : m \in 0..n /\ (m = 0 \/ (m \in 1..n /\ m - 1 \in 0..n /\ m - 1 \notin T))
  BY Zenon, <1>3, <1>4, <1>5, LeastFailure
<1>7. m # 0
  BY SMTT(60), <1>2, <1>6 DEF T
<1>8. /\ m \in 1..n /\ g[m - 1] \in Seq(Frames) /\ Len(g[m - 1]) = m - 1
      /\ \A j \in 1..(m - 1) : g[m - 1][j] = p[j].frame
      /\ g[m] = Append(g[m - 1], p[m].frame) /\ p[m].frame \in Frames
  BY ZenonT(60), <1>1, <1>2, <1>3, <1>6, <1>7 DEF T
<1>9. Len(g[m]) = m /\ \A j \in 1..m : g[m][j] = p[j].frame
  BY SMTT(60), <1>3, <1>8, AppendShape
<1>10. QED
  BY ZenonT(60), <1>6, <1>9 DEF T

\* A frame comes from a packet.
LEMMA FramesOfFrom == FramesFrom
<1>1. SUFFICES ASSUME NEW p \in Seq(Packet)
               PROVE  \A j \in DOMAIN FramesOf(p) : \E i \in DOMAIN p : p[i].frame = FramesOf(p)[j]
  BY Zenon DEF FramesFrom
<1> DEFINE n == Len(p)
<1>2. PICK g : /\ FramesOf(p) = g[n] /\ g[0] = <<>>
               /\ \A i \in 0..n : g[i] \in Seq(Frames)
               /\ \A i \in 1..n :
                     /\ p[i].frame = NoFrame => g[i] = g[i - 1]
                     /\ p[i].frame # NoFrame =>
                          g[i] = Append(g[i - 1], p[i].frame) /\ p[i].frame \in Frames
  BY ZenonT(60), FramesByPrefix
<1>3. n \in Nat /\ DOMAIN p = 1..n
  BY Zenon, SeqShape
<1> DEFINE T == {m \in 0..n : ~ \A j \in DOMAIN g[m] : \E i \in 1..n : p[i].frame = g[m][j]}
<1>4. SUFFICES ASSUME T # {} PROVE FALSE
  <2>1. n \in 0..n /\ T = {}
    BY SMTT(60), <1>3
  <2>2. \A j \in DOMAIN g[n] : \E i \in 1..n : p[i].frame = g[n][j]
    BY ZenonT(60), <2>1
  <2>3. QED
    BY ZenonT(60), <2>2, <1>2, <1>3
<1>5. T \subseteq 0..n
  BY SMTT(60)
<1> HIDE DEF T
<1>6. PICK m \in T : m \in 0..n /\ (m = 0 \/ (m \in 1..n /\ m - 1 \in 0..n /\ m - 1 \notin T))
  BY Zenon, <1>3, <1>4, <1>5, LeastFailure
<1>7. m # 0
  BY SMTT(60), <1>2, <1>6 DEF T
<1>8. /\ m \in 1..n /\ g[m - 1] \in Seq(Frames)
      /\ \A j \in DOMAIN g[m - 1] : \E i \in 1..n : p[i].frame = g[m - 1][j]
  BY ZenonT(60), <1>2, <1>6, <1>7 DEF T
<1>9. ASSUME NEW j \in DOMAIN g[m] PROVE \E i \in 1..n : p[i].frame = g[m][j]
  <2>1. CASE p[m].frame = NoFrame
    BY ZenonT(60), <2>1, <1>2, <1>8, <1>9
  <2>2. CASE p[m].frame # NoFrame
    <3>1. g[m] = Append(g[m - 1], p[m].frame) /\ p[m].frame \in Frames
      BY ZenonT(60), <2>2, <1>2, <1>8
    <3>2. g[m][j] = p[m].frame \/ (j \in DOMAIN g[m - 1] /\ g[m][j] = g[m - 1][j])
      BY SMTT(60), <3>1, <1>8, AppendShape
    <3>3. QED
      BY ZenonT(60), <3>2, <1>8
  <2>3. QED
    BY ZenonT(60), <2>1, <2>2
<1>10. QED
  BY ZenonT(60), <1>6, <1>9 DEF T

\* Appending to a concatenation.
LEMMA AppendConcat ==
  ASSUME NEW a \in Seq(Frames), NEW b \in Seq(Frames), NEW e \in Frames
  PROVE  Append(a \o b, e) = a \o Append(b, e)
  OBVIOUS

\* The frames of a concatenation.
LEMMA FramesOfConcat == FramesConcat
<1>1. SUFFICES ASSUME NEW p \in Seq(Packet), NEW q \in Seq(Packet)
               PROVE  FramesOf(p \o q) = FramesOf(p) \o FramesOf(q)
  BY Zenon DEF FramesConcat
<1> DEFINE w == p \o q
           k == Len(p)
           n == Len(q)
<1>2. /\ w \in Seq(Packet) /\ k \in Nat /\ n \in Nat /\ Len(w) = k + n
      /\ \A i \in 1..k : w[i] = p[i]
      /\ \A i \in 1..n : w[k + i] = q[i]
  BY SMTT(60), ConcatShape
<1> HIDE DEF w
<1>3. PICK g : /\ FramesOf(w) = g[Len(w)]
               /\ g[0] = <<>>
               /\ \A i \in 0..Len(w) : g[i] \in Seq(Frames)
               /\ \A i \in 1..Len(w) :
                     /\ w[i].frame = NoFrame => g[i] = g[i - 1]
                     /\ w[i].frame # NoFrame =>
                          g[i] = Append(g[i - 1], w[i].frame) /\ w[i].frame \in Frames
  <2>1. w \in Seq(Packet)
    BY ZenonT(60), <1>2
  <2>2. QED
    BY ZenonT(60), <2>1, FramesByPrefix
<1>4. PICK a : /\ FramesOf(p) = a[k] /\ a[0] = <<>>
               /\ \A i \in 0..k : a[i] \in Seq(Frames)
               /\ \A i \in 1..k :
                     /\ p[i].frame = NoFrame => a[i] = a[i - 1]
                     /\ p[i].frame # NoFrame => a[i] = Append(a[i - 1], p[i].frame)
  BY ZenonT(60), FramesByPrefix
<1>5. PICK b : /\ FramesOf(q) = b[n] /\ b[0] = <<>>
               /\ \A i \in 0..n : b[i] \in Seq(Frames)
               /\ \A i \in 1..n :
                     /\ q[i].frame = NoFrame => b[i] = b[i - 1]
                     /\ q[i].frame # NoFrame =>
                          b[i] = Append(b[i - 1], q[i].frame) /\ q[i].frame \in Frames
  BY Zenon, FramesByPrefix
<1> DEFINE T == {m \in 0..k : g[m] # a[m]}
<1>6. T = {}
  <2>1. SUFFICES ASSUME T # {} PROVE FALSE
    OBVIOUS
  <2>2. T \subseteq 0..k
    OBVIOUS
  <2> HIDE DEF T
  <2>3. PICK m \in T : m \in 0..k /\ (m = 0 \/ (m \in 1..k /\ m - 1 \in 0..k /\ m - 1 \notin T))
    BY ZenonT(60), <2>1, <2>2, <1>2, LeastFailure
  <2>4. m # 0 /\ m \in 1..k /\ g[m - 1] = a[m - 1] /\ g[m] # a[m]
    BY ZenonT(60), <2>3, <1>3, <1>4 DEF T
  <2>5. m \in 1..Len(w) /\ w[m] = p[m]
    BY SMTT(60), <2>4, <1>2
  <2>6. QED
    BY ZenonT(60), <2>4, <2>5, <1>3, <1>4
<1>7. g[k] = a[k] /\ a[k] \in Seq(Frames)
  <2>1. k \in 0..k
    BY <1>2
  <2>2. QED
    BY Zenon, <2>1, <1>4, <1>6
<1> DEFINE U == {m \in 0..n : g[k + m] # a[k] \o b[m]}
<1>8. U = {}
  <2>1. SUFFICES ASSUME U # {} PROVE FALSE
    BY ZenonT(60)
  <2>2. U \subseteq 0..n
    BY ZenonT(60)
  <2> HIDE DEF U
  <2>3. PICK m \in U : m \in 0..n /\ (m = 0 \/ (m \in 1..n /\ m - 1 \in 0..n /\ m - 1 \notin U))
    BY Zenon, <2>1, <2>2, <1>2, LeastFailure
  <2>4. m # 0
    <3>1. a[k] \o <<>> = a[k]
      BY ZenonT(60), <1>7, ConcatNothing
    <3>2. k + 0 = k
      BY SMTT(60), <1>2
    <3>3. QED
      BY ZenonT(60), <3>1, <3>2, <2>3, <1>5, <1>7 DEF U
  <2>5. m \in 1..n /\ g[k + (m - 1)] = a[k] \o b[m - 1] /\ g[k + m] # a[k] \o b[m]
    BY ZenonT(60), <2>3, <2>4 DEF U
  <2>6. /\ k + m \in 1..Len(w) /\ w[k + m] = q[m] /\ (k + m) - 1 = k + (m - 1)
        /\ b[m - 1] \in Seq(Frames)
    BY SMTT(60), <2>3, <2>5, <1>2, <1>5
  <2>7. CASE q[m].frame = NoFrame
    BY ZenonT(60), <2>5, <2>6, <2>7, <1>3, <1>5
  <2>8. CASE q[m].frame # NoFrame
    <3>1. b[m] = Append(b[m - 1], q[m].frame) /\ q[m].frame \in Frames
      BY ZenonT(60), <2>5, <2>8, <1>5
    <3>2. g[k + m] = Append(a[k] \o b[m - 1], q[m].frame)
      BY ZenonT(60), <2>5, <2>6, <2>8, <1>3
    <3>3. Append(a[k] \o b[m - 1], q[m].frame) = a[k] \o Append(b[m - 1], q[m].frame)
      <4> DEFINE x == a[k]
                 y == b[m - 1]
                 e == q[m].frame
      <4>1. x \in Seq(Frames) /\ y \in Seq(Frames) /\ e \in Frames
        BY ZenonT(60), <3>1, <2>6, <1>7
      <4> HIDE DEF x, y, e
      <4>2. Append(x \o y, e) = x \o Append(y, e)
        BY ZenonT(60), <4>1, AppendConcat
      <4>3. QED
        BY ZenonT(60), <4>2 DEF x, y, e
    <3>4. QED
      BY ZenonT(60), <3>1, <3>2, <3>3, <2>5
  <2>9. QED
    BY ZenonT(60), <2>7, <2>8
<1>9. g[k + n] = a[k] \o b[n]
  <2>1. n \in 0..n
    BY <1>2
  <2>2. QED
    BY Zenon, <2>1, <1>8
<1>10. QED
  BY ZenonT(60), <1>2, <1>3, <1>4, <1>5, <1>9 DEF w

\* The same, as the other proofs use it.
LEMMA FramesOfTyped == FramesTyped
  BY Zenon, FramesOfType DEF FramesTyped

\* A sequence has finitely many scheduled silences.
LEMMA CountsAreTyped == CountsTyped
<1>1. SUFFICES ASSUME NEW commands \in Seq(Packet)
               PROVE  Cardinality({i \in DOMAIN commands :
                                     commands[i].kind = "ScheduledSilence"}) \in Nat
  BY Zenon DEF CountsTyped
<1> DEFINE scheduled == {i \in DOMAIN commands : commands[i].kind = "ScheduledSilence"}
<1>2. DOMAIN commands = 1..Len(commands) /\ Len(commands) \in Nat
  BY Zenon, SeqShape
<1>3. IsFiniteSet(1..Len(commands))
  BY <1>2, FS_Interval
<1>4. scheduled \subseteq 1..Len(commands)
  BY Zenon, <1>2
<1> HIDE DEF scheduled
<1>5. IsFiniteSet(scheduled)
  BY ZenonT(60), <1>3, <1>4, FS_Subset
<1>6. Cardinality(scheduled) \in Nat
  BY Zenon, <1>5, FS_CardinalityType
<1>7. QED
  BY Zenon, <1>6 DEF scheduled

\* The packets without a frame are those the count of silences counts.
LEMMA SilencesAreCounted == SilencesCounted
<1>1. SUFFICES ASSUME NEW p \in Seq(Packet),
                      \A i \in DOMAIN p : p[i].kind = "ScheduledSilence" <=> p[i].frame = NoFrame
               PROVE  Cardinality({i \in DOMAIN p : p[i].kind = "ScheduledSilence"})
                        = Len(p) - Len(FramesOf(p))
  BY ZenonT(60) DEF SilencesCounted
<1> DEFINE n == Len(p)
           S(m) == {i \in 1..m : p[i].kind = "ScheduledSilence"}
<1>2. PICK g : /\ FramesOf(p) = g[n] /\ g[0] = <<>>
               /\ \A i \in 0..n : g[i] \in Seq(Frames)
               /\ \A i \in 1..n :
                     /\ p[i].frame = NoFrame => g[i] = g[i - 1]
                     /\ p[i].frame # NoFrame =>
                          g[i] = Append(g[i - 1], p[i].frame) /\ p[i].frame \in Frames
  BY Zenon, FramesByPrefix
<1>3. n \in Nat /\ DOMAIN p = 1..n
  BY Zenon, SeqShape
<1> DEFINE T == {m \in 0..n : Cardinality(S(m)) # m - Len(g[m])}
<1>4. SUFFICES ASSUME T # {} PROVE FALSE
  <2>1. n \in 0..n
    BY SMTT(60), <1>3
  <2>2. QED
    BY ZenonT(60), <2>1, <1>2, <1>3
<1>5. T \subseteq 0..n
  BY SMTT(60)
<1> HIDE DEF T
<1>6. PICK m \in T : m \in 0..n /\ (m = 0 \/ (m \in 1..n /\ m - 1 \in 0..n /\ m - 1 \notin T))
  BY Zenon, <1>3, <1>4, <1>5, LeastFailure
<1>7. ASSUME NEW i \in 0..n PROVE IsFiniteSet(S(i)) /\ Cardinality(S(i)) \in Nat
  <2>1. IsFiniteSet(1..i)
    BY SMTT(60), <1>3, FS_Interval
  <2>2. S(i) \subseteq 1..i
    BY SMTT(60)
  <2> HIDE DEF S
  <2>3. QED
    BY ZenonT(60), <2>1, <2>2, FS_Subset, FS_CardinalityType
<1>8. m # 0
  <2>1. S(0) = {}
    BY SMTT(60)
  <2>2. Cardinality(S(0)) = 0
    BY ZenonT(60), <2>1, FS_EmptySet
  <2> HIDE DEF S
  <2>3. QED
    BY SMTT(60), <2>2, <1>2, <1>6 DEF T
<1>9. /\ m \in 1..n /\ m - 1 \in 0..n /\ g[m - 1] \in Seq(Frames) /\ Len(g[m - 1]) \in Nat
      /\ Cardinality(S(m - 1)) = (m - 1) - Len(g[m - 1])
  <2> HIDE DEF S
  <2>1. m \in 1..n /\ m - 1 \in 0..n /\ m - 1 \notin T
    BY ZenonT(60), <1>6, <1>8
  <2>2. g[m - 1] \in Seq(Frames)
    BY ZenonT(60), <2>1, <1>2
  <2>3. QED
    BY ZenonT(60), <2>1, <2>2, SeqShape DEF T
<1>10. CASE p[m].kind = "ScheduledSilence"
  <2>1. S(m) = S(m - 1) \cup {m} /\ m \notin S(m - 1)
    BY SMTT(60), <1>3, <1>9, <1>10
  <2>2. g[m] = g[m - 1]
    BY ZenonT(60), <1>1, <1>2, <1>3, <1>9, <1>10
  <2> HIDE DEF S
  <2>3. Cardinality(S(m)) = Cardinality(S(m - 1)) + 1
    BY ZenonT(60), <2>1, <1>7, <1>9, FS_AddElement
  <2>4. Cardinality(S(m)) = m - Len(g[m])
    <3> DEFINE c == Cardinality(S(m - 1))
               l == Len(g[m - 1])
    <3>1. m \in Nat /\ l \in Nat /\ c = (m - 1) - l
      <4>1. l \in Nat /\ c = (m - 1) - l /\ m \in 1..n
        BY ZenonT(60), <1>9
      <4> HIDE DEF c, l
      <4>2. QED
        BY SMTT(60), <4>1, <1>3
    <3> HIDE DEF c, l
    <3>2. c + 1 = m - l
      BY SMTT(60), <3>1
    <3>3. QED
      BY ZenonT(60), <3>2, <2>2, <2>3 DEF c, l
  <2>5. QED
    BY ZenonT(60), <2>4, <1>6 DEF T
<1>11. CASE p[m].kind # "ScheduledSilence"
  <2>1. S(m) = S(m - 1)
    BY SMTT(60), <1>3, <1>9, <1>11
  <2>2. g[m] = Append(g[m - 1], p[m].frame) /\ p[m].frame \in Frames
    BY ZenonT(60), <1>1, <1>2, <1>3, <1>9, <1>11
  <2>3. Len(g[m]) = Len(g[m - 1]) + 1
    BY SMTT(60), <2>2, <1>9, AppendShape
  <2> HIDE DEF S
  <2>4. Cardinality(S(m)) = m - Len(g[m])
    <3> DEFINE c == Cardinality(S(m - 1))
               l == Len(g[m - 1])
    <3>1. m \in Nat /\ l \in Nat /\ c = (m - 1) - l
      <4>1. l \in Nat /\ c = (m - 1) - l /\ m \in 1..n
        BY Zenon, <1>9
      <4> HIDE DEF c, l
      <4>2. QED
        BY <4>1, <1>3
    <3> HIDE DEF c, l
    <3>2. c = m - (l + 1)
      BY SMTT(60), <3>1
    <3>3. QED
      BY ZenonT(60), <3>2, <2>1, <2>3 DEF c, l
  <2>5. QED
    BY Zenon, <2>4, <1>6 DEF T
<1>12. QED
  BY Zenon, <1>10, <1>11

-----------------------------------------------------------------------------
(* The driver and its sender.                                              *)

\* The inductive invariant holds throughout every playback.
THEOREM MirrorInvariant == Spec => []MirrorInv
<1>1. Init => MirrorInv
  BY Zenon, InitEstablishes
<1>2. MirrorInv /\ [Next]_vars => MirrorInv'
  BY ZenonT(60), NextPreserves, FramesOfTyped, CountsAreTyped
<1>3. QED
  BY ZenonT(60), <1>1, <1>2, PTL DEF Spec

\* The variables keep their types, for every track, watermark and capacity.
THEOREM TypeCorrect == Spec => []TypeOK
<1>1. MirrorInv => TypeOK
  BY ZenonT(60) DEF MirrorInv
<1>2. QED
  BY ZenonT(60), <1>1, MirrorInvariant, PTL

\* The driver's pending list mirrors its deadline sender, whatever commands,
\* DAVE transitions, underruns and failures interrupt the playback: none of the
\* three mismatch errors of account_deadline_outcome can be raised.
THEOREM SenderFifoAlways == Spec => []SenderFifo
<1>1. MirrorInv => SenderFifo
  BY Zenon DEF MirrorInv, Mirrored, Attached, SenderFifo
<1>2. QED
  BY <1>1, MirrorInvariant, PTL

\* The source buffer never holds more than its target, so a batch sized before
\* frames were put back is cut short instead of overfilling it.
THEOREM SourceNeverOverfilled == Spec => [](Len(source) <= SourceTarget)
<1>1. MirrorInv => Len(source) <= SourceTarget
  BY Zenon DEF MirrorInv, SourceFits
<1>2. QED
  BY ZenonT(60), <1>1, MirrorInvariant, PTL

-----------------------------------------------------------------------------
(* What is delivered.                                                      *)

\* What the delivery proofs assume of FramesOf.
LEMMA FramesAreFacts == FramesFacts
  BY ZenonT(60), FramesOfTyped, FramesOfConcat, FramesOfSilent, FramesOfTracks, FramesOfFrom,
     SilencesAreCounted DEF FramesFacts

\* The frames counted are among those on the wire.
LEMMA DeliveryCounts == DeliveryInv => PositionNeverAhead
<1>1. SUFFICES ASSUME DeliveryInv PROVE PositionNeverAhead
  BY SMTT(60)
<1> DEFINE n == position + mq
<1>2. n \in Nat /\ 1..n \subseteq wire /\ wire \subseteq Frames /\ NFrames \in Nat
  BY SMTT(60), <1>1, ConstantTypes DEF DeliveryInv, MirrorInv, TypeOK
<1>3. n <= Cardinality(wire)
  <2> HIDE DEF n
  <2>1. IsFiniteSet(1..n) /\ IsFiniteSet(1..NFrames)
    BY SMTT(60), <1>2, FS_Interval
  <2>2. Cardinality(1..n) = n
    <3>1. Cardinality(1..n) = IF 1 > n THEN 0 ELSE n - 1 + 1
      BY SMTT(60), <1>2, FS_Interval
    <3>2. QED
      BY SMTT(60), <3>1, <1>2
  <2>3. IsFiniteSet(wire)
    BY ZenonT(60), <2>1, <1>2, FS_Subset DEF Frames
  <2>4. Cardinality(1..n) <= Cardinality(wire)
    BY ZenonT(60), <2>3, <1>2, FS_Subset
  <2>5. QED
    BY ZenonT(60), <2>2, <2>4
<1>4. QED
  BY ZenonT(60), <1>3 DEF PositionNeverAhead

\* The delivery invariant holds throughout every playback.
THEOREM DeliveryInvariant == Spec => []DeliveryInv
<1>1. Init => DeliveryInv
  BY ZenonT(60), InitEstablishes, InitDelivers, FramesAreFacts
<1>2. DeliveryInv /\ [Next]_vars => DeliveryInv'
  BY ZenonT(60), NextPreserves, NextDelivers, FramesOfTyped, FramesAreFacts, CountsAreTyped
  DEF DeliveryInv
<1>3. QED
  BY <1>1, <1>2, PTL DEF Spec

\* Whatever pauses, stops, rebuilds and underruns interrupt it, a running
\* playback has every frame it decoded on the wire or still in a buffer.
THEOREM NothingEverLost == Spec => []NothingLost
<1>1. DeliveryInv => NothingLost
  BY ZenonT(60), DeliveryLosesNothing, FramesAreFacts
<1>2. QED
  BY ZenonT(60), <1>1, DeliveryInvariant, PTL

\* Frames reach the wire in track order and without a gap, also the ones a
\* sender that was given up still sends.
THEOREM AlwaysInOrder == Spec => []InOrderDelivery
<1>1. DeliveryInv => InOrderDelivery
  BY Zenon DEF DeliveryInv, InOrderDelivery
<1>2. QED
  BY <1>1, DeliveryInvariant, PTL

\* The position never counts a frame that did not reach the wire.
THEOREM PositionNeverCountsAhead == Spec => []PositionNeverAhead
  BY ZenonT(60), DeliveryInvariant, DeliveryCounts, PTL

\* No interruption discards a frame, no refill overflows the source buffer, and
\* no record overflows the channel of its sender.
THEOREM BuffersAlwaysFit == Spec => []BuffersFit
<1>1. DeliveryInv => BuffersFit
  BY Zenon, DeliveryFits, FramesAreFacts
<1>2. QED
  BY <1>1, DeliveryInvariant, PTL

=============================================================================
