------------------------- MODULE TrackSourceProofs -------------------------
(***************************************************************************)
(* Proofs about TrackSource, for every track, every layout of the resource *)
(* and every size of chunk, frame and buffer: SourceInv is inductive, the  *)
(* frames handed over are the track without gap or overlap, the end is     *)
(* announced only when all of it has been handed over, a position never    *)
(* moves back on the same video, and every step is a step of FrameFeed.    *)
(***************************************************************************)
EXTENDS TrackSource, TLAPS

-----------------------------------------------------------------------------
(* Numbers.                                                                *)

\* A product is a number, grows with its first factor and distributes.
LEMMA ProductFacts ==
  /\ \A a \in Nat, c \in Nat : a * c \in Nat
  /\ \A a \in Nat, b \in Nat, c \in Nat : a <= b => a * c <= b * c
  /\ \A a \in Int, b \in Int, c \in Int : (a + b) * c = (a * c) + (b * c)
  OBVIOUS

\* A quotient: what it leaves of the dividend is less than the divisor.
LEMMA QuotientFacts ==
  ASSUME NEW a \in Nat, NEW c \in Nat \ {0}
  PROVE  /\ a \div c \in Nat /\ (a \div c) * c <= a
         /\ a - ((a \div c) * c) < c
  OBVIOUS

\* Whatever lies between two multiples has the lower one's quotient.
LEMMA QuotientUnique ==
  ASSUME NEW a \in Nat, NEW c \in Nat \ {0}, NEW q \in Nat, q * c <= a, a < (q * c) + c
  PROVE  a \div c = q
<1>1. a \div c \in Nat /\ (a \div c) * c <= a /\ a - ((a \div c) * c) < c
  BY Zenon, QuotientFacts
<1> DEFINE p == a \div c
<1>2. p \in Nat /\ p * c <= a /\ a < (p * c) + c
  BY <1>1, ProductFacts
<1> HIDE DEF p
<1>3. CASE p < q
  <2>1. (p + 1) * c <= q * c
    BY <1>2, <1>3, ProductFacts
  <2>2. (p + 1) * c = (p * c) + c
    BY <1>2
  <2> QED
    BY <1>2, <2>1, <2>2, ProductFacts
<1>4. CASE q < p
  <2>1. (q + 1) * c <= p * c
    BY <1>2, <1>4, ProductFacts
  <2>2. (q + 1) * c = (q * c) + c
    OBVIOUS
  <2> QED
    BY <1>2, <2>1, <2>2, ProductFacts
<1>5. p = q
  BY <1>2, <1>3, <1>4
<1> QED
  BY Zenon, <1>5 DEF p

\* A quotient grows with its dividend.
LEMMA QuotientGrows ==
  ASSUME NEW a \in Nat, NEW b \in Nat, NEW c \in Nat \ {0}, a <= b
  PROVE  a \div c <= b \div c
<1> DEFINE p == a \div c
           q == b \div c
<1>1. p \in Nat /\ p * c <= a /\ q \in Nat /\ b - (q * c) < c
  BY Zenon, QuotientFacts
<1> HIDE DEF p, q
<1>2. SUFFICES ASSUME q < p
               PROVE  FALSE
  BY <1>1 DEF p, q
<1>3. (q + 1) * c <= p * c
  BY <1>1, <1>2, ProductFacts
<1>4. (q + 1) * c = (q * c) + c
  BY <1>1
<1> QED
  BY <1>1, <1>3, <1>4, ProductFacts

-----------------------------------------------------------------------------
(* The resource.                                                           *)

\* The timestamps: the packets follow each other and every one is as long as
\* the way to the next.
LEMMA StartFacts ==
  /\ LastPacket \in Nat \ {0} /\ TrackTicks \in Nat \ {0}
  /\ \A k \in 1..(LastPacket + 1) : Start[k] \in Nat /\ Start[k] <= TrackTicks
  /\ \A k, l \in 1..(LastPacket + 1) : k < l => Start[k] < Start[l]
  /\ \A k \in Packets : /\ k + 1 \in 1..(LastPacket + 1) /\ k \in 1..(LastPacket + 1)
                        /\ Duration(k) \in Nat \ {0} /\ Duration(k) <= TrackTicks
                        /\ Start[k + 1] = Start[k] + Duration(k)
  /\ Start[1] = 0 /\ Start[LastPacket + 1] = TrackTicks
<1>1. /\ Len(Start) \in Nat /\ Len(Start) > 1 /\ DOMAIN Start = 1..Len(Start)
      /\ \A k \in 1..Len(Start) : Start[k] \in Nat
  BY LayoutAssumption
<1>2. \A k, l \in 1..Len(Start) : k < l => Start[k] < Start[l]
  BY Zenon, <1>1, LayoutAssumption
<1>3. LastPacket \in Nat \ {0} /\ LastPacket + 1 = Len(Start)
  BY <1>1 DEF LastPacket
<1>4. \A k \in 1..Len(Start) : Start[k] <= Start[Len(Start)]
  BY <1>1, <1>2
<1>5. Start[1] = 0
  BY Zenon, LayoutAssumption
<1>6. TrackTicks = Start[Len(Start)] /\ TrackTicks \in Nat \ {0}
  BY <1>1, <1>2, <1>5 DEF TrackTicks
<1>7. ASSUME NEW k \in Packets
      PROVE  /\ k + 1 \in 1..(LastPacket + 1) /\ k \in 1..(LastPacket + 1)
             /\ Duration(k) \in Nat \ {0} /\ Duration(k) <= TrackTicks
             /\ Start[k + 1] = Start[k] + Duration(k)
  <2>1. k \in Nat /\ k >= 1 /\ k + 1 <= Len(Start)
    BY <1>3, <1>7 DEF Packets
  <2>2. k \in 1..Len(Start) /\ k + 1 \in 1..Len(Start) /\ k < k + 1
    BY <1>1, <2>1
  <2>3. Start[k] \in Nat /\ Start[k + 1] \in Nat /\ Start[k] < Start[k + 1]
        /\ Start[k + 1] <= TrackTicks
    BY Zenon, <1>1, <1>2, <1>4, <1>6, <2>2
  <2> QED
    BY <1>3, <1>6, <2>2, <2>3 DEF Duration
<1> QED
  BY Zenon, <1>1, <1>2, <1>3, <1>4, <1>5, <1>6, <1>7

\* The bytes of the resource: at least one, and a packet is found in them when
\* its block is complete, the last one with the last byte.
LEMMA ResourceFacts ==
  /\ ResourceEnd \in Nat \ {0} /\ Complete(0) = 0 /\ Complete(ResourceEnd) = LastPacket
  /\ \A n \in 0..ResourceEnd : Complete(n) \in 0..LastPacket
  /\ \A m, n \in 0..ResourceEnd : m <= n => Complete(m) <= Complete(n)
<1> DEFINE blocks == BlockBytes * LastPacket
<1>1. HeaderBytes \in Nat /\ BlockBytes \in Nat \ {0} /\ LastPacket \in Nat \ {0}
  BY Zenon, LayoutAssumption, StartFacts
<1>2. blocks \in Nat /\ blocks = LastPacket * BlockBytes
  BY <1>1
<1>3. blocks # 0
  <2>1. 1 * BlockBytes <= LastPacket * BlockBytes
    BY <1>1, ProductFacts
  <2> QED
    BY <1>1, <1>2, <2>1
<1>4. ResourceEnd = HeaderBytes + blocks
  BY Zenon DEF ResourceEnd
<1>5. blocks \div BlockBytes = LastPacket
  BY <1>1, <1>2, QuotientUnique
<1> HIDE DEF blocks
<1>6. ResourceEnd \in Nat \ {0} /\ ResourceEnd > HeaderBytes /\ ResourceEnd - HeaderBytes = blocks
  BY <1>1, <1>2, <1>3, <1>4
<1>7. Complete(0) = 0 /\ Complete(ResourceEnd) = LastPacket
  BY <1>1, <1>5, <1>6 DEF Complete
<1>8. ASSUME NEW m \in 0..ResourceEnd, NEW n \in 0..ResourceEnd, m <= n
      PROVE  Complete(m) \in Nat /\ Complete(n) \in Nat /\ Complete(m) <= Complete(n)
  <2>1. CASE m <= HeaderBytes
    <3>1. Complete(m) = 0
      BY Zenon, <2>1 DEF Complete
    <3>2. CASE n <= HeaderBytes
      BY <3>1, <3>2 DEF Complete
    <3>3. CASE n > HeaderBytes
      <4>1. n - HeaderBytes \in Nat
        BY <1>1, <1>6, <3>3
      <4>2. (n - HeaderBytes) \div BlockBytes \in Nat
        BY Zenon, <1>1, <4>1, QuotientFacts
      <4>3. Complete(n) = (n - HeaderBytes) \div BlockBytes
        BY <1>1, <1>6, <3>3 DEF Complete
      <4> QED
        BY <3>1, <4>2, <4>3
    <3> QED
      BY <1>1, <1>6, <3>2, <3>3
  <2>2. CASE m > HeaderBytes
    <3>1. m - HeaderBytes \in Nat /\ n - HeaderBytes \in Nat /\ m - HeaderBytes <= n - HeaderBytes
      BY <1>1, <1>6, <1>8, <2>2
    <3>2. /\ Complete(m) = (m - HeaderBytes) \div BlockBytes
          /\ Complete(n) = (n - HeaderBytes) \div BlockBytes
      BY <1>1, <1>6, <1>8, <2>2 DEF Complete
    <3>3. /\ (m - HeaderBytes) \div BlockBytes \in Nat /\ (n - HeaderBytes) \div BlockBytes \in Nat
          /\ (m - HeaderBytes) \div BlockBytes <= (n - HeaderBytes) \div BlockBytes
      BY Zenon, <1>1, <3>1, QuotientFacts, QuotientGrows
    <3> QED
      BY Zenon, <3>2, <3>3
  <2> QED
    BY <1>1, <1>6, <2>1, <2>2
<1>9. \A n \in 0..ResourceEnd : Complete(n) \in 0..LastPacket
  <2> SUFFICES ASSUME NEW n \in 0..ResourceEnd
               PROVE  Complete(n) \in 0..LastPacket
    OBVIOUS
  <2>1. ResourceEnd \in 0..ResourceEnd /\ n <= ResourceEnd
    BY <1>6
  <2>2. Complete(n) \in Nat /\ Complete(n) <= Complete(ResourceEnd)
    BY Zenon, <1>8, <2>1
  <2> QED
    BY <1>1, <1>7, <2>2
<1> QED
  BY Zenon, <1>6, <1>7, <1>8, <1>9

-----------------------------------------------------------------------------
(* HttpOpusStream.                                                         *)

\* What StreamInv and BytesContiguous say of a stream.
GoodStream(s) ==
  /\ s \in Streams /\ s.pos + s.pending = s.body
  /\ s.open /\ s.responseEnd > 0 => ResourceEnd \in {s.responseEnd, s.resourceEnd}

\* A stream never stands beyond the resource.
LEMMA StreamWithin ==
  ASSUME NEW s, GoodStream(s)
  PROVE  /\ s.pos \in 0..ResourceEnd /\ s.body \in 0..ResourceEnd /\ s.pending \in Nat
         /\ s.pending = 0 => s.body = s.pos
  BY ResourceFacts DEF GoodStream, Streams

\* set_resume_offset keeps the byte reached.
LEMMA NewStreamGood ==
  ASSUME NEW n \in 0..ResourceEnd
  PROVE  GoodStream(NewStream(n)) /\ NewStream(n).pos = n
  BY ResourceFacts DEF GoodStream, Streams, NewStream

\* What one turn of read_chunk leaves behind: a chunk starts at the byte reached
\* and moves it on, nothing else moves it, and the stream ends at the end of
\* the resource only.
GoodTurn(s, o) ==
  /\ GoodStream(o.s) /\ o.from \in Nat /\ o.len \in Nat
  /\ o.res \in {"chunk", "again", "end", "timeout", "stale", "http", "detail"}
  /\ o.res = "chunk" => o.from = s.pos /\ o.s.pos = s.pos + o.len /\ s.pos < ResourceEnd
  /\ o.res # "chunk" => o.s.pos = s.pos
  /\ o.res = "end" => s.pos = ResourceEnd

\* An outcome other than a chunk is as good as its stream.
LEMMA OutcomeGood ==
  ASSUME NEW s, NEW t, GoodStream(t), t.pos = s.pos,
         NEW res \in {"again", "timeout", "stale", "http", "detail"}
  PROVE  GoodTurn(s, Outcome(res, t))
  BY Zenon DEF GoodTurn, Outcome

\* So is the end of the stream, at the end of the resource.
LEMMA EndGood ==
  ASSUME NEW s, NEW t, GoodStream(t), t.pos = s.pos, s.pos = ResourceEnd
  PROVE  GoodTurn(s, Outcome("end", t))
  BY Zenon DEF GoodTurn, Outcome

\* A chunk out of the pending buffer continues the bytes before it.
LEMMA TakePendingGood ==
  ASSUME NEW s, GoodStream(s), s.pending > 0
  PROVE  GoodTurn(s, TakePendingChunk(s))
<1> DEFINE n == Smaller(s.pending, MaxRead)
           t == [s EXCEPT !.pos = @ + n, !.pending = @ - n]
<1>1. /\ s.pos \in Nat /\ s.pending \in Nat /\ s.body \in 0..ResourceEnd
      /\ s.pos + s.pending = s.body
  BY Zenon DEF GoodStream, Streams
<1>2. MaxRead \in Nat \ {0} /\ ResourceEnd \in Nat
  BY Zenon, LayoutAssumption, ResourceFacts
<1>3. n \in Nat /\ n <= s.pending
  BY <1>1, <1>2 DEF Smaller
<1> HIDE DEF n
<1>4. t.pos = s.pos + n /\ t.pending = s.pending - n /\ t.body = s.body
      /\ t.open = s.open /\ t.responseEnd = s.responseEnd /\ t.resourceEnd = s.resourceEnd
  BY Zenon DEF GoodStream, Streams
<1>5. t \in Streams
  <2>1. s \in Streams /\ s.pos + n \in Nat /\ s.pending - n \in Nat
    BY <1>1, <1>3 DEF GoodStream
  <2> QED
    BY Zenon, <2>1 DEF Streams
<1>6. t.pos + t.pending = t.body
  BY <1>1, <1>3, <1>4
<1> HIDE DEF t
<1>7. GoodStream(t)
  BY Zenon, <1>4, <1>5, <1>6 DEF GoodStream
<1>8. TakePendingChunk(s) = [res |-> "chunk", from |-> s.body - s.pending, len |-> n, s |-> t]
  BY Zenon DEF TakePendingChunk, n, t
<1>9. s.body - s.pending = s.pos /\ s.pos < ResourceEnd
  BY <1>1, <1>2
<1> QED
  BY <1>1, <1>3, <1>4, <1>7, <1>8, <1>9 DEF GoodTurn

\* open_response: whatever the headers announce, the body starts at the byte
\* asked for.
LEMMA OpenedGood ==
  ASSUME NEW s, GoodStream(s), s.pending = 0, NEW o \in Opened(s)
  PROVE  GoodTurn(s, o)
<1>1. s.pos \in 0..ResourceEnd /\ s.body = s.pos /\ ResourceEnd \in Nat \ {0}
  BY Zenon, StreamWithin, ResourceFacts
<1>2. CASE s.pos > 0 /\ s.pos >= ResourceEnd
  <2>1. s.pos = ResourceEnd
    BY <1>1, <1>2
  <2>2. o = Outcome("end", s)
    BY Zenon, <1>2 DEF Opened
  <2> QED
    BY Zenon, <2>1, <2>2, EndGood
<1>3. CASE ~(s.pos > 0 /\ s.pos >= ResourceEnd)
  <2>1. s.pos + 1 \in 0..ResourceEnd /\ s.pos \in Nat
    BY <1>1, <1>3
  <2>2. PICK from \in {0, s.pos} :
          o \in IF ~Honoured(s.pos, from) THEN {Outcome("detail", s)}
                ELSE { Outcome("again", [s EXCEPT !.open = TRUE, !.start = s.pos, !.body = from,
                         !.responseEnd = e[1], !.resourceEnd = e[2]]) : e \in Extents(s.pos) }
    BY Zenon, <1>3 DEF Opened
  <2>3. CASE ~Honoured(s.pos, from)
    <3>1. o = Outcome("detail", s)
      BY Zenon, <2>2, <2>3
    <3> QED
      BY Zenon, <3>1, OutcomeGood
  <2>4. CASE Honoured(s.pos, from)
    <3>1. from = s.pos
      BY Zenon, <2>4 DEF Honoured
    <3>2. PICK e \in Extents(s.pos) :
            o = Outcome("again", [s EXCEPT !.open = TRUE, !.start = s.pos, !.body = from,
                         !.responseEnd = e[1], !.resourceEnd = e[2]])
      BY Zenon, <2>2, <2>4
    <3>3. /\ e[1] \in 0..ResourceEnd /\ e[2] \in 0..ResourceEnd
          /\ e[1] > 0 => ResourceEnd \in {e[1], e[2]}
      BY <1>1, <2>1 DEF Extents
    <3> DEFINE t == [s EXCEPT !.open = TRUE, !.start = s.pos, !.body = from,
                         !.responseEnd = e[1], !.resourceEnd = e[2]]
    <3>4. t \in Streams
      BY Zenon, <1>1, <2>1, <3>1, <3>3 DEF GoodStream, Streams
    <3>5. /\ t.pos = s.pos /\ t.pending = s.pending /\ t.body = s.pos
          /\ t.responseEnd = e[1] /\ t.resourceEnd = e[2]
      BY Zenon, <3>1 DEF GoodStream, Streams
    <3> HIDE DEF t
    <3>6. GoodStream(t)
      BY <2>1, <3>3, <3>4, <3>5 DEF GoodStream
    <3>7. o = Outcome("again", t)
      BY Zenon, <3>2 DEF t
    <3> QED
      BY Zenon, <3>5, <3>6, <3>7, OutcomeGood
  <2> QED
    BY Zenon, <2>3, <2>4
<1> QED
  BY Zenon, <1>2, <1>3

\* A closed response leaves the byte reached.
LEMMA ClosedGood ==
  ASSUME NEW s, GoodStream(s)
  PROVE  /\ GoodStream([s EXCEPT !.open = FALSE]) /\ [s EXCEPT !.open = FALSE].pos = s.pos
         /\ GoodStream([s EXCEPT !.open = FALSE, !.responseEnd = 0])
         /\ [s EXCEPT !.open = FALSE, !.responseEnd = 0].pos = s.pos
         /\ GoodStream([[s EXCEPT !.open = FALSE, !.responseEnd = 0] EXCEPT !.resourceEnd = 0])
         /\ [[s EXCEPT !.open = FALSE, !.responseEnd = 0] EXCEPT !.resourceEnd = 0].pos = s.pos
<1>1. s \in Streams /\ 0 \in 0..ResourceEnd
  BY ResourceFacts DEF GoodStream
<1>2. /\ [s EXCEPT !.open = FALSE] \in Streams
      /\ [s EXCEPT !.open = FALSE, !.responseEnd = 0] \in Streams
      /\ [[s EXCEPT !.open = FALSE, !.responseEnd = 0] EXCEPT !.resourceEnd = 0] \in Streams
  BY Zenon, <1>1 DEF Streams
<1>3. GoodStream([s EXCEPT !.open = FALSE]) /\ [s EXCEPT !.open = FALSE].pos = s.pos
  BY Zenon, <1>1, <1>2 DEF GoodStream, Streams
<1>4. /\ GoodStream([s EXCEPT !.open = FALSE, !.responseEnd = 0])
      /\ [s EXCEPT !.open = FALSE, !.responseEnd = 0].pos = s.pos
  BY Zenon, <1>1, <1>2 DEF GoodStream, Streams
<1>5. /\ GoodStream([[s EXCEPT !.open = FALSE, !.responseEnd = 0] EXCEPT !.resourceEnd = 0])
      /\ [[s EXCEPT !.open = FALSE, !.responseEnd = 0] EXCEPT !.resourceEnd = 0].pos = s.pos
  BY Zenon, <1>1, <1>2 DEF GoodStream, Streams
<1> QED
  BY Zenon, <1>3, <1>4, <1>5

\* should_reopen_after_response_eof: a body that ended as announced ends the
\* stream only where the resource ends.
LEMMA AfterEofGood ==
  ASSUME NEW s, GoodStream(s), s.open, s.pending = 0,
         s.body >= BodyEnd(s) \/ s.responseEnd > 0
  PROVE  GoodTurn(s, AfterEof(s))
<1> DEFINE short == s.pos < s.responseEnd \/ s.pos < s.resourceEnd
           closed == [s EXCEPT !.open = FALSE, !.responseEnd = 0]
           gone == [closed EXCEPT !.resourceEnd = 0]
           shut == [s EXCEPT !.open = FALSE]
<1>1. /\ GoodStream(closed) /\ closed.pos = s.pos /\ GoodStream(gone) /\ gone.pos = s.pos
      /\ GoodStream(shut) /\ shut.pos = s.pos
  BY Zenon, ClosedGood
<1>2. AfterEof(s) = IF ~short THEN Outcome("end", gone)
                    ELSE IF s.pos <= s.start THEN Outcome("detail", shut)
                    ELSE Outcome("again", closed)
  BY Zenon DEF AfterEof
<1>3. ASSUME ~short
      PROVE  s.pos = ResourceEnd
  <2>1. /\ s.pos \in 0..ResourceEnd /\ s.body = s.pos /\ ResourceEnd \in Nat \ {0}
        /\ s.responseEnd \in Nat /\ s.resourceEnd \in Nat
    BY StreamWithin, ResourceFacts DEF GoodStream, Streams
  <2>2. CASE s.responseEnd = 0
    BY <2>1, <2>2 DEF BodyEnd
  <2>3. CASE s.responseEnd > 0
    <3>1. ResourceEnd \in {s.responseEnd, s.resourceEnd}
      BY Zenon, <2>3 DEF GoodStream
    <3> QED
      BY <1>3, <2>1, <3>1
  <2> QED
    BY <2>1, <2>2, <2>3
<1> HIDE DEF short, closed, gone, shut
<1>4. CASE ~short
  BY Zenon, <1>1, <1>2, <1>3, <1>4, EndGood
<1>5. CASE short
  BY Zenon, <1>1, <1>2, <1>5, OutcomeGood
<1> QED
  BY Zenon, <1>4, <1>5

\* A response that is read: more bytes behind the byte reached, or its end.
LEMMA BodyGood ==
  ASSUME NEW s, GoodStream(s), s.open, s.pending = 0, NEW o \in Body(s)
  PROVE  GoodTurn(s, o)
<1>1. /\ s.pos \in 0..ResourceEnd /\ s.body = s.pos /\ ResourceEnd \in Nat
      /\ BodyEnd(s) \in 0..ResourceEnd /\ MaxBody \in Nat
  BY StreamWithin, ResourceFacts, LayoutAssumption DEF GoodStream, Streams, BodyEnd
<1>2. \/ \E n \in 1..MaxBody : /\ s.body + n <= BodyEnd(s)
                               /\ o = Outcome("again", [s EXCEPT !.body = @ + n, !.pending = n])
      \/ o = AfterBodyError(s)
      \/ (s.body >= BodyEnd(s) \/ s.responseEnd > 0) /\ o = AfterEof(s)
  BY Zenon DEF Body
<1>3. ASSUME NEW n \in 1..MaxBody, s.body + n <= BodyEnd(s),
             o = Outcome("again", [s EXCEPT !.body = @ + n, !.pending = n])
      PROVE  GoodTurn(s, o)
  <2> DEFINE t == [s EXCEPT !.body = @ + n, !.pending = n]
  <2>1. n \in Nat /\ s.body + n \in 0..ResourceEnd
    BY <1>1, <1>3
  <2>2. t \in Streams
    BY Zenon, <2>1 DEF GoodStream, Streams
  <2>3. /\ t.pos = s.pos /\ t.pending = n /\ t.body = s.body + n /\ t.open = s.open
        /\ t.responseEnd = s.responseEnd /\ t.resourceEnd = s.resourceEnd
    BY Zenon DEF GoodStream, Streams
  <2> HIDE DEF t
  <2>4. GoodStream(t)
    BY Zenon, <1>1, <2>2, <2>3 DEF GoodStream
  <2>5. o = Outcome("again", t)
    BY Zenon, <1>3 DEF t
  <2> QED
    BY Zenon, <2>3, <2>4, <2>5, OutcomeGood
<1>4. ASSUME o = AfterBodyError(s)
      PROVE  GoodTurn(s, o)
  <2> DEFINE t == [s EXCEPT !.open = FALSE, !.responseEnd = 0]
  <2>1. GoodStream(t) /\ t.pos = s.pos
    BY Zenon, ClosedGood
  <2>2. o = Outcome(IF s.pos > s.start THEN "again" ELSE "http", t)
    BY Zenon, <1>4 DEF AfterBodyError
  <2> HIDE DEF t
  <2> QED
    BY Zenon, <2>1, <2>2, OutcomeGood
<1> QED
  BY Zenon, <1>2, <1>3, <1>4, AfterEofGood

\* Every turn of read_chunk is a good one.
LEMMA ReadTurnGood ==
  ASSUME NEW s, GoodStream(s), NEW o \in ReadTurn(s)
  PROVE  GoodTurn(s, o)
<1>1. \/ o = Outcome("timeout", s) \/ o = Outcome("stale", s) \/ o = Outcome("http", s)
      \/ s.pending > 0 /\ o = TakePendingChunk(s)
      \/ ~(s.pending > 0) /\ o \in Opened(s)
      \/ ~(s.pending > 0) /\ s.open /\ o \in Body(s)
  BY Zenon DEF ReadTurn, Refused
<1>2. s.pending \in Nat
  BY Zenon DEF GoodStream, Streams
<1>3. ~(s.pending > 0) => s.pending = 0
  BY <1>2
<1> QED
  BY Zenon, <1>1, <1>3, OutcomeGood, TakePendingGood, OpenedGood, BodyGood

-----------------------------------------------------------------------------
(* PlaybackSource.                                                         *)

\* What the invariants say of an open source.
GoodSource(src) ==
  /\ src \in Sources /\ GoodStream(src.stream) /\ src.fed = src.stream.pos
  /\ src.torn => src.mixed
  /\ ~src.torn => src.parsed = Complete(src.fed)
  /\ src.packets \subseteq 1..src.parsed

\* The source in use is a good one.
LEMMA SourceGood ==
  ASSUME TypeOK, BytesContiguous, StreamInv, source # None
  PROVE  GoodSource(source)
<1>1. source \in Sources
  BY Zenon DEF TypeOK
<1>2. source.stream \in Streams
  BY Zenon, <1>1 DEF Sources
<1> QED
  BY Zenon, <1>1, <1>2 DEF BytesContiguous, StreamInv, GoodSource, GoodStream

\* What has to be shown of the source after a step.
LEMMA SourceStaysGood ==
  ASSUME source' # None => GoodSource(source')
  PROVE  BytesContiguous' /\ StreamInv' /\ source' \in Sources \cup {None}
  BY Zenon DEF BytesContiguous, StreamInv, GoodSource, GoodStream

\* A source before its first byte.
LEMMA NewSourceGood ==
  ASSUME NEW v \in Videos, NEW e \in Encodings
  PROVE  /\ GoodSource(NewSource(v, e)) /\ NewSource(v, e) # None
         /\ NewSource(v, e).parsed = 0 /\ NewSource(v, e).packets = {}
         /\ NewSource(v, e).mixed = FALSE
<1> DEFINE src == NewSource(v, e)
<1>1. /\ src.video = v /\ src.encoding = e /\ src.stream = NewStream(0) /\ src.fed = 0
      /\ src.torn = FALSE /\ src.mixed = FALSE /\ src.parsed = 0 /\ src.packets = {}
  BY Zenon DEF NewSource
<1>2. GoodStream(NewStream(0)) /\ NewStream(0).pos = 0
  BY NewStreamGood, ResourceFacts
<1>3. NewStream(0) \in Streams
  BY Zenon, <1>2 DEF GoodStream
<1>4. LastPacket \in Nat
  BY Zenon, StartFacts
<1>5. src \in Sources
  BY <1>3, <1>4 DEF NewSource, Sources
<1> HIDE DEF src
<1>6. GoodSource(src)
  BY Zenon, <1>1, <1>2, <1>5, ResourceFacts DEF GoodSource
<1> QED
  BY Zenon, <1>1, <1>5, <1>6, NoneAssumption DEF src

\* A turn that brings no chunk moves the stream only.
LEMMA MovedGood ==
  ASSUME NEW src, GoodSource(src), NEW o, GoodTurn(src.stream, o), o.res # "chunk",
         NEW moved, moved = [src EXCEPT !.stream = o.s]
  PROVE  /\ GoodSource(moved) /\ moved # None /\ moved.parsed = src.parsed
         /\ moved.packets = src.packets /\ moved.mixed = src.mixed
         /\ moved.stream.pos = src.stream.pos /\ moved.stream = o.s
         /\ moved.encoding = src.encoding
<1>1. o.s \in Streams /\ GoodStream(o.s) /\ o.s.pos = src.stream.pos
  BY Zenon DEF GoodTurn, GoodStream
<1>2. src \in Sources
  BY Zenon DEF GoodSource
<1>3. moved \in Sources
  BY Zenon, <1>1, <1>2 DEF Sources
<1>4. /\ moved.stream = o.s /\ moved.fed = src.fed /\ moved.torn = src.torn
      /\ moved.mixed = src.mixed /\ moved.parsed = src.parsed /\ moved.packets = src.packets
      /\ moved.encoding = src.encoding
  BY Zenon, <1>2 DEF Sources
<1> QED
  BY Zenon, <1>1, <1>3, <1>4, NoneAssumption DEF GoodSource

\* What a chunk makes of a source.
FedFrom(src, o, packets, fed) ==
  /\ GoodSource(fed) /\ fed # None /\ fed.packets = src.packets \cup packets
  /\ Drained(src, o) = (src.parsed + 1)..fed.parsed /\ src.parsed <= fed.parsed
  /\ fed.mixed = src.mixed /\ fed.encoding = src.encoding

\* A chunk continues the bytes before it, so what is parsed only grows.
LEMMA FedGood ==
  ASSUME NEW src, GoodSource(src), NEW o, GoodTurn(src.stream, o), o.res = "chunk",
         NEW packets, packets \subseteq Drained(src, o),
         NEW fed, fed = [Fed(src, o) EXCEPT !.packets = @ \cup packets]
  PROVE  FedFrom(src, o, packets, fed)
<1> DEFINE torn == src.torn \/ src.mixed \/ o.from # src.fed
           parsed == IF torn THEN src.parsed ELSE Complete(src.fed + o.len)
<1>1. /\ o.s \in Streams /\ GoodStream(o.s) /\ o.from = src.fed /\ o.len \in Nat
      /\ o.s.pos = src.fed + o.len
  BY Zenon DEF GoodTurn, GoodStream, GoodSource
<1>2. /\ src \in Sources /\ src.fed \in Nat /\ src.parsed \in 0..LastPacket
      /\ src.packets \subseteq 1..src.parsed /\ src.torn \in BOOLEAN /\ src.mixed \in BOOLEAN
  BY Zenon DEF GoodSource, Sources
<1>3. src.fed + o.len \in 0..ResourceEnd /\ src.fed \in 0..ResourceEnd
      /\ src.fed <= src.fed + o.len
  BY <1>1, <1>2, StreamWithin, ResourceFacts
<1>4. torn = src.mixed
  BY Zenon, <1>1, <1>2 DEF GoodSource
<1>5. parsed \in 0..LastPacket /\ src.parsed <= parsed
  <2>1. CASE src.mixed
    BY <1>2, <1>4, <2>1, StartFacts
  <2>2. CASE ~src.mixed
    <3>1. src.parsed = Complete(src.fed) /\ parsed = Complete(src.fed + o.len)
      BY Zenon, <1>4, <2>2 DEF GoodSource
    <3> QED
      BY Zenon, <1>3, <3>1, ResourceFacts
  <2> QED
    BY Zenon, <2>1, <2>2
<1>6. ~src.mixed => parsed = Complete(src.fed + o.len)
  BY Zenon, <1>4
<1>7. Fed(src, o) = [src EXCEPT !.stream = o.s, !.fed = @ + o.len, !.torn = torn,
                                !.parsed = parsed]
  BY Zenon, <1>2 DEF Fed, Sources
<1> HIDE DEF torn, parsed
<1>8. /\ fed.stream = o.s /\ fed.fed = src.fed + o.len /\ fed.torn = torn
      /\ fed.mixed = src.mixed /\ fed.parsed = parsed /\ fed.packets = src.packets \cup packets
      /\ fed.encoding = src.encoding /\ Fed(src, o).parsed = parsed
  BY Zenon, <1>2, <1>7 DEF Sources
<1>9. Drained(src, o) = (src.parsed + 1)..parsed
  BY Zenon, <1>8 DEF Drained
<1>10. src.packets \cup packets \subseteq 1..parsed /\ 1..parsed \subseteq Packets
  BY <1>2, <1>5, <1>9, StartFacts DEF Packets
<1>11. fed \in Sources
  <2>1. src.fed + o.len \in Nat /\ torn \in BOOLEAN /\ src.packets \cup packets \in SUBSET Packets
    BY <1>1, <1>2, <1>4, <1>10
  <2>2. Fed(src, o) \in Sources
    BY Zenon, <1>1, <1>2, <1>5, <1>7, <2>1 DEF Sources
  <2> QED
    BY Zenon, <1>8, <2>1, <2>2 DEF Sources
<1> QED
  BY Zenon, <1>1, <1>4, <1>5, <1>6, <1>8, <1>9, <1>10, <1>11, NoneAssumption DEF GoodSource, FedFrom

\* Reopening where the stream stood, or resolving again, keeps what was parsed.
LEMMA ResetGood ==
  ASSUME NEW src, GoodSource(src)
  PROVE  /\ GoodSource(ResetStream(src)) /\ ResetStream(src) # None
         /\ ResetStream(src).parsed = src.parsed /\ ResetStream(src).packets = src.packets
         /\ ResetStream(src).stream.pos = src.stream.pos
         /\ ResetStream(src).mixed = src.mixed /\ ResetStream(src).fed = src.fed
<1> DEFINE r == ResetStream(src)
<1>1. src \in Sources /\ src.stream.pos \in 0..ResourceEnd
  BY Zenon, StreamWithin DEF GoodSource
<1>2. GoodStream(NewStream(src.stream.pos)) /\ NewStream(src.stream.pos).pos = src.stream.pos
  BY Zenon, <1>1, NewStreamGood
<1>3. r = [src EXCEPT !.stream = NewStream(src.stream.pos)]
  BY Zenon, <1>1 DEF ResetStream, SetResumeOffset, Sources
<1>4. NewStream(src.stream.pos) \in Streams
  BY Zenon, <1>2 DEF GoodStream
<1> HIDE DEF r
<1>5. r \in Sources
  BY Zenon, <1>1, <1>3, <1>4 DEF Sources
<1>6. /\ r.stream = NewStream(src.stream.pos) /\ r.fed = src.fed /\ r.torn = src.torn
      /\ r.mixed = src.mixed /\ r.parsed = src.parsed /\ r.packets = src.packets
  BY Zenon, <1>1, <1>3 DEF Sources
<1> QED
  BY Zenon, <1>2, <1>5, <1>6, NoneAssumption DEF GoodSource, r

\* The same of a resolution that may switch encodings.
LEMMA ReplacedGood ==
  ASSUME NEW src, GoodSource(src), NEW e \in Encodings,
         NEW r, r = ReplaceResolvedStream(src, e)
  PROVE  /\ GoodSource(r) /\ r # None /\ r.parsed = src.parsed /\ r.packets = src.packets
         /\ r.stream.pos = src.stream.pos /\ (src.mixed => r.mixed) /\ r.mixed \in BOOLEAN
<1> DEFINE s == ResetStream(src)
           mixed == src.mixed \/ (e # src.encoding /\ src.fed > 0)
<1>1. /\ GoodSource(s) /\ s.parsed = src.parsed /\ s.packets = src.packets
      /\ s.stream.pos = src.stream.pos /\ s.mixed = src.mixed /\ s.fed = src.fed
  BY Zenon, ResetGood
<1>2. src.mixed \in BOOLEAN /\ src \in Sources
  BY Zenon DEF GoodSource, Sources
<1>3. r = [s EXCEPT !.encoding = e, !.mixed = mixed]
  <2>1. r = [s EXCEPT !.encoding = e, !.mixed = s.mixed \/ (e # src.encoding /\ src.fed > 0)]
    BY Zenon, <1>1 DEF ReplaceResolvedStream, GoodSource, Sources
  <2> QED
    BY Zenon, <1>1, <2>1
<1>4. s \in Sources /\ mixed \in BOOLEAN /\ (src.mixed => mixed)
  BY Zenon, <1>1, <1>2 DEF GoodSource
<1> HIDE DEF s, mixed
<1>5. r \in Sources
  BY Zenon, <1>3, <1>4 DEF Sources
<1>6. /\ r.stream = s.stream /\ r.fed = s.fed /\ r.torn = s.torn /\ r.mixed = mixed
      /\ r.parsed = s.parsed /\ r.packets = s.packets
  BY Zenon, <1>3, <1>4 DEF Sources
<1>7. s.torn => s.mixed
  BY Zenon, <1>1 DEF GoodSource
<1> QED
  BY Zenon, <1>1, <1>4, <1>5, <1>6, <1>7, NoneAssumption DEF GoodSource

\* A frame of samples that end within the track starts within it.
LEMMA SampleFacts ==
  ASSUME NEW from \in Nat, NEW m \in Nat, NEW len \in Nat, NEW stop \in Nat,
         NEW track \in Nat, from + len = stop, stop <= track
  PROVE  \A f \in Nat \ {0} : m + f <= len =>
           from + m < track /\ from + m \in 0..(2 * track)
  OBVIOUS

-----------------------------------------------------------------------------
(* Sequences.                                                              *)

\* A sequence is a function on 1..Len into its set.
LEMMA SeqShape ==
  ASSUME NEW S, NEW seq \in Seq(S)
  PROVE  Len(seq) \in Nat /\ seq \in [1..Len(seq) -> S]
  OBVIOUS

\* A function on 1..n is a sequence.
LEMMA SeqOver ==
  ASSUME NEW S, NEW n \in Nat, NEW f \in [1..n -> S]
  PROVE  f \in Seq(S) /\ Len(f) = n
  OBVIOUS

\* A sequence is one over any set that holds its elements.
LEMMA SeqInto ==
  ASSUME NEW S, NEW T, NEW seq \in Seq(S), \A i \in 1..Len(seq) : seq[i] \in T
  PROVE  seq \in Seq(T)
  OBVIOUS

\* A sequence over a set is one over every larger set.
LEMMA SeqWider ==
  ASSUME NEW S, NEW T, S \subseteq T, NEW seq \in Seq(S)
  PROVE  seq \in Seq(T)
  OBVIOUS

\* One sequence after another: its length and its elements.
LEMMA ConcatShape ==
  ASSUME NEW S, NEW s \in Seq(S), NEW t \in Seq(S)
  PROVE  /\ s \o t \in Seq(S) /\ Len(s \o t) = Len(s) + Len(t)
         /\ \A n \in 1..(Len(s) + Len(t)) :
              (s \o t)[n] = IF n <= Len(s) THEN s[n] ELSE t[n - Len(s)]
  OBVIOUS

\* Sequences that agree at every place are equal.
LEMMA SeqAgree ==
  ASSUME NEW S, NEW s \in Seq(S), NEW t \in Seq(S), Len(s) = Len(t),
         \A n \in 1..Len(s) : s[n] = t[n]
  PROVE  s = t
  OBVIOUS

\* The stretch of a sequence between two places.
LEMMA SubSeqShape ==
  ASSUME NEW S, NEW seq, NEW m \in Int, NEW n \in Int, \A i \in m..n : seq[i] \in S
  PROVE  /\ SubSeq(seq, m, n) \in Seq(S)
         /\ Len(SubSeq(seq, m, n)) = IF m <= n THEN (n - m) + 1 ELSE 0
         /\ \A i \in 1..(n - m) + 1 : SubSeq(seq, m, n)[i] = seq[(m + i) - 1]
  OBVIOUS

-----------------------------------------------------------------------------
(* The normalizer.                                                         *)

\* The place of a tick of frame i among the decoded ones.
LEMMA PlaceFacts ==
  ASSUME NEW len \in Nat, NEW n \in Nat, n * FrameTicks <= len, NEW i \in 1..n
  PROVE  /\ (i - 1) * FrameTicks \in Nat /\ i * FrameTicks = (i - 1) * FrameTicks + FrameTicks
         /\ (i - 1) * FrameTicks + FrameTicks <= len
<1>1. FrameTicks \in Nat \ {0} /\ i - 1 \in Nat /\ i \in Nat
  BY LayoutAssumption
<1>2. i * FrameTicks <= n * FrameTicks /\ (i - 1) * FrameTicks \in Nat /\ n * FrameTicks \in Nat
  BY <1>1, ProductFacts
<1>3. i * FrameTicks = (i - 1) * FrameTicks + FrameTicks
  BY <1>1
<1> QED
  BY <1>1, <1>2, <1>3

Ticks == Pad..(TrackTicks - 1)

\* n frames taken off the decoded samples, each with the samples at its place,
\* and what is left of them, less than a frame.
Emitted(pcm, next, n, r) ==
  /\ n \in Nat /\ n * FrameTicks \in Nat /\ n * FrameTicks <= Len(pcm)
  /\ Len(pcm) - n * FrameTicks < FrameTicks
  /\ r.frames \in [1..n -> [at : Nat, ticks : [1..FrameTicks -> Ticks]]]
  /\ \A i \in 1..n :
       /\ r.frames[i].at = next + (i - 1) * FrameTicks
       /\ \A j \in 1..FrameTicks :
            /\ (i - 1) * FrameTicks + j \in 1..Len(pcm)
            /\ r.frames[i].ticks[j] = pcm[(i - 1) * FrameTicks + j]
  /\ r.norm.pcm \in Seq(Ticks) /\ Len(r.norm.pcm) = Len(pcm) - n * FrameTicks
  /\ \A i \in 1..Len(r.norm.pcm) : /\ n * FrameTicks + i \in 1..Len(pcm)
                                   /\ r.norm.pcm[i] = pcm[n * FrameTicks + i]
  /\ r.norm.next = next + n * FrameTicks
  /\ r.norm = [pcm |-> r.norm.pcm, next |-> r.norm.next]

\* emit_ready_frames: as many frames as fit.
LEMMA EmitShape ==
  ASSUME NEW pcm \in Seq(Ticks), NEW next \in Nat, NEW n, n = Len(pcm) \div FrameTicks,
         NEW r, r = EmitReadyFrames(pcm, next)
  PROVE  Emitted(pcm, next, n, r)
<1> DEFINE frame(i) == [at |-> next + (i - 1) * FrameTicks,
                        ticks |-> SubSeq(pcm, (i - 1) * FrameTicks + 1, i * FrameTicks)]
           rest == SubSeq(pcm, n * FrameTicks + 1, Len(pcm))
<1>1. FrameTicks \in Nat \ {0} /\ Len(pcm) \in Nat /\ \A i \in 1..Len(pcm) : pcm[i] \in Ticks
  BY LayoutAssumption
<1>2. n \in Nat /\ n * FrameTicks <= Len(pcm) /\ Len(pcm) - n * FrameTicks < FrameTicks
  BY Zenon, <1>1, QuotientFacts
<1>3. n * FrameTicks \in Nat
  BY Zenon, <1>1, <1>2, ProductFacts
<1>4. /\ r.frames = [i \in 1..n |-> frame(i)] /\ r.norm.pcm = rest
      /\ r.norm.next = next + n * FrameTicks /\ r.norm = [pcm |-> r.norm.pcm, next |-> r.norm.next]
  BY Zenon DEF EmitReadyFrames
<1>5. ASSUME NEW i \in 1..n
      PROVE  /\ frame(i) \in [at : Nat, ticks : [1..FrameTicks -> Ticks]]
             /\ frame(i).at = next + (i - 1) * FrameTicks
             /\ \A j \in 1..FrameTicks :
                  /\ (i - 1) * FrameTicks + j \in 1..Len(pcm)
                  /\ frame(i).ticks[j] = pcm[(i - 1) * FrameTicks + j]
  <2> DEFINE m == (i - 1) * FrameTicks
  <2>1. m \in Nat /\ i * FrameTicks = m + FrameTicks /\ m + FrameTicks <= Len(pcm)
    BY Zenon, <1>1, <1>2, PlaceFacts
  <2>2. frame(i) = [at |-> next + m, ticks |-> SubSeq(pcm, m + 1, i * FrameTicks)]
    OBVIOUS
  <2>3. frame(i) = [at |-> next + m, ticks |-> SubSeq(pcm, m + 1, m + FrameTicks)]
    BY Zenon, <2>1, <2>2
  <2> HIDE DEF m, frame
  <2>4. \A j \in (m + 1)..(m + FrameTicks) : pcm[j] \in Ticks
    BY <1>1, <2>1
  <2> DEFINE sub == SubSeq(pcm, m + 1, m + FrameTicks)
  <2>5. /\ sub \in Seq(Ticks) /\ Len(sub) = FrameTicks
        /\ \A j \in 1..FrameTicks : sub[j] = pcm[m + j]
    BY <1>1, <2>1, <2>4
  <2> HIDE DEF sub
  <2>6. sub \in [1..FrameTicks -> Ticks]
    BY Zenon, <2>5, SeqShape
  <2>7. frame(i) = [at |-> next + m, ticks |-> sub] /\ next + m \in Nat
    BY <2>1, <2>3 DEF sub
  <2>8. \A j \in 1..FrameTicks : m + j \in 1..Len(pcm)
    BY <1>1, <2>1
  <2>9. /\ frame(i) \in [at : Nat, ticks : [1..FrameTicks -> Ticks]]
        /\ frame(i).at = next + m /\ frame(i).ticks = sub
    BY <2>6, <2>7
  <2> QED
    BY Zenon, <2>5, <2>8, <2>9 DEF m
<1>6. /\ rest \in Seq(Ticks) /\ Len(rest) = Len(pcm) - n * FrameTicks
      /\ \A i \in 1..Len(rest) : /\ n * FrameTicks + i \in 1..Len(pcm)
                                 /\ rest[i] = pcm[n * FrameTicks + i]
  <2> DEFINE m == n * FrameTicks
  <2>1. m \in Nat /\ m <= Len(pcm)
    BY Zenon, <1>2, <1>3
  <2> HIDE DEF m
  <2>2. \A j \in (m + 1)..Len(pcm) : pcm[j] \in Ticks
    BY <1>1, <2>1
  <2>3. /\ SubSeq(pcm, m + 1, Len(pcm)) \in Seq(Ticks)
        /\ Len(SubSeq(pcm, m + 1, Len(pcm))) = Len(pcm) - m
        /\ \A i \in 1..(Len(pcm) - m) : SubSeq(pcm, m + 1, Len(pcm))[i] = pcm[m + i]
    BY <1>1, <2>1, <2>2
  <2>4. \A i \in 1..(Len(pcm) - m) : m + i \in 1..Len(pcm)
    BY <1>1, <2>1
  <2> QED
    BY Zenon, <2>3, <2>4 DEF m
<1> HIDE DEF frame, rest
<1>7. r.frames \in [1..n -> [at : Nat, ticks : [1..FrameTicks -> Ticks]]]
  BY <1>4, <1>5
<1>8. \A i \in 1..n : r.frames[i] = frame(i)
  BY Zenon, <1>4
<1>9. \A i \in 1..n :
        /\ r.frames[i].at = next + (i - 1) * FrameTicks
        /\ \A j \in 1..FrameTicks :
             /\ (i - 1) * FrameTicks + j \in 1..Len(pcm)
             /\ r.frames[i].ticks[j] = pcm[(i - 1) * FrameTicks + j]
  BY ZenonT(60), <1>5, <1>8
<1> QED
  BY Zenon, <1>2, <1>3, <1>4, <1>6, <1>7, <1>9 DEF Emitted

\* The frames of a call of the normalizer: where they start, what they hold.
GoodFrames(frames, from, padded) ==
  frames \in Seq(Frames) /\ InLine(frames, from) /\ Sound(frames, padded)

\* The samples the normalizer holds are those of the track from a tick on.
Decoded(norm, from) == \A i \in 1..Len(norm.pcm) : norm.pcm[i] = from + i - 1

\* What a packet makes of the normalizer that was at from.
Pushed(r, from, k) ==
  /\ GoodFrames(r.frames, from, FALSE)
  /\ r.norm \in [pcm : Seq(0..(TrackTicks - 1)), next : Nat]
  /\ r.norm.next = from + Len(r.frames) * FrameTicks
  /\ Len(r.norm.pcm) < FrameTicks
  /\ Decoded(r.norm, r.norm.next)
  /\ r.norm.next + Len(r.norm.pcm) = Start[k + 1]

\* push_packet: the frames a packet completes start where the normalizer was,
\* hold what their positions claim, and what is left ends where the packet ends.
LEMMA PushGood ==
  ASSUME NEW norm \in [pcm : Seq(0..(TrackTicks - 1)), next : Nat \cup {None}],
         NEW k \in Packets, NEW from, from = IF norm.next = None THEN Start[k] ELSE norm.next,
         from + Len(norm.pcm) = Start[k], Len(norm.pcm) < FrameTicks,
         Decoded(norm, from), NEW r, r = PushPacket(norm, k)
  PROVE  Pushed(r, from, k)
<1>1. /\ FrameTicks \in Nat \ {0} /\ TrackTicks \in Nat \ {0} /\ Start[k] \in Nat
      /\ Duration(k) \in Nat \ {0} /\ Start[k + 1] = Start[k] + Duration(k)
      /\ Start[k + 1] \in Nat /\ Start[k + 1] <= TrackTicks
  BY Zenon, LayoutAssumption, StartFacts
<1>2. /\ norm.pcm \in Seq(0..(TrackTicks - 1)) /\ Len(norm.pcm) \in Nat
      /\ norm.next \in Nat \cup {None}
  OBVIOUS
<1>3. from \in Nat
  BY Zenon, <1>1, <1>2
<1> DEFINE audio == Audio(k)
<1>4. /\ audio \in Seq(0..(TrackTicks - 1)) /\ Len(audio) = Duration(k)
      /\ \A i \in 1..Duration(k) : audio[i] = Start[k] + i - 1
  <2>1. audio = [i \in 1..Duration(k) |-> Start[k] + i - 1]
    BY Zenon DEF Audio
  <2>2. \A i \in 1..Duration(k) : Start[k] + i - 1 \in 0..(TrackTicks - 1)
    BY SMTT(60), <1>1
  <2> HIDE DEF audio
  <2>3. audio \in [1..Duration(k) -> 0..(TrackTicks - 1)]
    BY Zenon, <2>1, <2>2
  <2>4. \A i \in 1..Duration(k) : audio[i] = Start[k] + i - 1
    BY Zenon, <2>1
  <2> QED
    BY Zenon, <1>1, <2>3, <2>4, SeqOver
<1> HIDE DEF audio
<1>5. CASE PassesThrough(norm, k)
  <2>1. norm.pcm = <<>> /\ Duration(k) = FrameTicks /\ from = Start[k]
    BY <1>1, <1>2, <1>3, <1>5 DEF PassesThrough
  <2> DEFINE f == [at |-> from, ticks |-> audio]
             nn == [norm EXCEPT !.next = from + Duration(k)]
  <2>2. r = [frames |-> <<f>>, norm |-> nn]
    BY Zenon, <1>5 DEF PushPacket, audio
  <2>3. nn.pcm = <<>> /\ nn.next = from + FrameTicks
        /\ nn \in [pcm : Seq(0..(TrackTicks - 1)), next : Nat]
    BY Zenon, <1>1, <1>3, <2>1
  <2>4. /\ f.at = from /\ f.ticks = audio /\ from < TrackTicks /\ from \in 0..(2 * TrackTicks)
        /\ audio \in [1..FrameTicks -> Ticks]
    <3>1. from < TrackTicks /\ from \in 0..(2 * TrackTicks)
      BY <1>1, <1>3, <2>1
    <3>2. audio \in [1..FrameTicks -> 0..(TrackTicks - 1)]
      BY Zenon, <1>4, <2>1, SeqShape
    <3>3. 0..(TrackTicks - 1) \subseteq Ticks
      BY <1>1 DEF Ticks, Pad
    <3> QED
      BY Zenon, <3>1, <3>2, <3>3
  <2>5. f \in Frames
    BY Zenon, <2>4 DEF Frames, Ticks
  <2> HIDE DEF f, nn
  <2>6. r.frames = <<f>> /\ r.norm = nn
    BY <2>2
  <2>7. r.frames \in Seq(Frames) /\ Len(r.frames) = 1 /\ r.frames[1] = f
    BY <2>5, <2>6
  <2>8. InLine(r.frames, from)
    <3>1. \A i \in 1..Len(r.frames) : i = 1
      BY <2>7
    <3>2. from + (1 - 1) * FrameTicks = from
      BY <1>1, <1>3
    <3> QED
      BY Zenon, <2>4, <2>7, <3>1, <3>2 DEF InLine
  <2>9. Sound(r.frames, FALSE)
    <3>1. \A j \in 1..FrameTicks : f.ticks[j] = f.at + j - 1
      BY Zenon, <1>4, <2>1, <2>4
    <3>2. \A i \in 1..Len(r.frames) : r.frames[i] = f
      BY <2>7
    <3> QED
      BY Zenon, <3>1, <3>2 DEF Sound
  <2>10. from + Len(r.frames) * FrameTicks = from + FrameTicks
    BY <1>1, <1>3, <2>7
  <2>11. r.norm.next + Len(r.norm.pcm) = Start[k + 1]
    BY <1>1, <1>3, <2>1, <2>3, <2>6
  <2>12. r.norm.pcm = <<>> /\ Len(r.norm.pcm) = 0 /\ Len(r.norm.pcm) < FrameTicks
    BY <1>1, <2>3, <2>6
  <2>13. \A i \in 1..Len(r.norm.pcm) : r.norm.pcm[i] = r.norm.next + i - 1
    BY <2>12
  <2> QED
    BY Zenon, <2>3, <2>6, <2>7, <2>8, <2>9, <2>10, <2>11, <2>12, <2>13
       DEF GoodFrames, Decoded, Pushed
<1>6. CASE ~PassesThrough(norm, k)
  <2> DEFINE pcm == norm.pcm \o audio
             n == Len(pcm) \div FrameTicks
  <2>1. r = EmitReadyFrames(pcm, from)
    BY Zenon, <1>6 DEF PushPacket, audio
  <2>2. /\ pcm \in Seq(0..(TrackTicks - 1)) /\ Len(pcm) = Len(norm.pcm) + Duration(k)
        /\ \A i \in 1..Len(pcm) :
             pcm[i] = IF i <= Len(norm.pcm) THEN norm.pcm[i] ELSE audio[i - Len(norm.pcm)]
    <3>1. Len(norm.pcm) + Len(audio) = Len(norm.pcm) + Duration(k)
      BY Zenon, <1>4
    <3>2. /\ pcm \in Seq(0..(TrackTicks - 1)) /\ Len(pcm) = Len(norm.pcm) + Len(audio)
          /\ \A i \in 1..(Len(norm.pcm) + Len(audio)) :
               pcm[i] = IF i <= Len(norm.pcm) THEN norm.pcm[i] ELSE audio[i - Len(norm.pcm)]
      <4> DEFINE T == 0..(TrackTicks - 1)
      <4>1. norm.pcm \in Seq(T) /\ audio \in Seq(T)
        BY Zenon, <1>2, <1>4
      <4> HIDE DEF T
      <4>2. /\ norm.pcm \o audio \in Seq(T)
            /\ Len(norm.pcm \o audio) = Len(norm.pcm) + Len(audio)
            /\ \A i \in 1..(Len(norm.pcm) + Len(audio)) :
                 (norm.pcm \o audio)[i] = IF i <= Len(norm.pcm) THEN norm.pcm[i]
                                          ELSE audio[i - Len(norm.pcm)]
        BY <4>1, ConcatShape
      <4> QED
        BY Zenon, <4>2 DEF T
    <3> HIDE DEF pcm
    <3> QED
      BY Zenon, <3>1, <3>2
  <2> HIDE DEF pcm, n
  <2>3. /\ Len(pcm) \in Nat /\ from + Len(pcm) = Start[k + 1]
    BY SMTT(60), <1>1, <1>2, <1>3, <2>2
  <2>4. ASSUME NEW i \in 1..Len(pcm)
        PROVE  pcm[i] = from + i - 1
    <3>1. CASE i <= Len(norm.pcm)
      <4>1. i \in 1..Len(norm.pcm)
        BY <1>2, <3>1
      <4> QED
        BY Zenon, <2>2, <3>1, <4>1 DEF Decoded
    <3>2. CASE ~(i <= Len(norm.pcm))
      <4>1. i - Len(norm.pcm) \in 1..Duration(k)
        <5> DEFINE l == Len(norm.pcm)
        <5>1. i \in 1..(l + Duration(k)) /\ l \in Nat /\ ~(i <= l)
          BY Zenon, <1>2, <2>2, <3>2
        <5> HIDE DEF l
        <5>2. i - l \in 1..Duration(k)
          BY <1>1, <5>1
        <5> QED
          BY Zenon, <5>2 DEF l
      <4>2. pcm[i] = Start[k] + (i - Len(norm.pcm)) - 1
        BY Zenon, <1>4, <2>2, <3>2, <4>1
      <4> QED
        BY <1>1, <1>2, <1>3, <4>2
    <3> QED
      BY Zenon, <3>1, <3>2
  <2>5. pcm \in Seq(Ticks)
    <3>1. 0..(TrackTicks - 1) \subseteq Ticks
      BY <1>1 DEF Ticks, Pad
    <3> QED
      BY Zenon, <2>2, <3>1, SeqWider
  <2>a. Emitted(pcm, from, n, r)
    BY Zenon, <1>3, <2>1, <2>5, EmitShape DEF n
  <2>6. /\ n \in Nat /\ n * FrameTicks \in Nat /\ n * FrameTicks <= Len(pcm)
        /\ Len(pcm) - n * FrameTicks < FrameTicks
        /\ r.frames \in [1..n -> [at : Nat, ticks : [1..FrameTicks -> Ticks]]]
        /\ r.norm.pcm \in Seq(Ticks) /\ Len(r.norm.pcm) = Len(pcm) - n * FrameTicks
        /\ r.norm.next = from + n * FrameTicks
        /\ r.norm = [pcm |-> r.norm.pcm, next |-> r.norm.next]
    BY Zenon, <2>a DEF Emitted
  <2>b. \A i \in 1..Len(r.norm.pcm) : /\ n * FrameTicks + i \in 1..Len(pcm)
                                      /\ r.norm.pcm[i] = pcm[n * FrameTicks + i]
    BY Zenon, <2>a DEF Emitted
  <2>c. \A i \in 1..n :
          /\ r.frames[i].at = from + (i - 1) * FrameTicks
          /\ \A j \in 1..FrameTicks :
               /\ (i - 1) * FrameTicks + j \in 1..Len(pcm)
               /\ r.frames[i].ticks[j] = pcm[(i - 1) * FrameTicks + j]
    BY Zenon, <2>a DEF Emitted
  <2>7. Len(r.frames) = n
    BY <2>6, SeqOver
  <2>8. ASSUME NEW i \in 1..n
        PROVE  /\ r.frames[i] \in Frames /\ r.frames[i].at < TrackTicks
               /\ \A j \in 1..FrameTicks : r.frames[i].ticks[j] = r.frames[i].at + j - 1
    <3> DEFINE m == (i - 1) * FrameTicks
    <3>1. m \in Nat /\ m + FrameTicks <= Len(pcm)
      BY Zenon, <2>3, <2>6, PlaceFacts
    <3>2. /\ r.frames[i].at = from + m
          /\ \A j \in 1..FrameTicks :
               m + j \in 1..Len(pcm) /\ r.frames[i].ticks[j] = pcm[m + j]
      BY Zenon, <2>c
    <3> HIDE DEF m
    <3>3. ASSUME NEW j \in 1..FrameTicks
          PROVE  r.frames[i].ticks[j] = r.frames[i].at + j - 1
      <4>1. r.frames[i].ticks[j] = from + (m + j) - 1
        BY Zenon, <2>4, <3>2
      <4>2. from + (m + j) - 1 = (from + m) + j - 1
        <5>1. j \in Nat
          BY <1>1
        <5> QED
          BY <1>3, <3>1, <5>1
      <4> QED
        BY Zenon, <3>2, <4>1, <4>2
    <3>4. from + m < TrackTicks /\ from + m \in 0..(2 * TrackTicks)
      BY Zenon, <1>1, <1>3, <2>3, <3>1, SampleFacts
    <3>5. r.frames[i] \in [at : Nat, ticks : [1..FrameTicks -> Ticks]]
      BY Zenon, <2>6
    <3>a. r.frames[i].at \in 0..(2 * TrackTicks)
      BY Zenon, <3>2, <3>4
    <3>6. r.frames[i] \in Frames
      BY Zenon, <3>5, <3>a DEF Frames, Ticks
    <3> QED
      BY Zenon, <3>2, <3>3, <3>4, <3>6
  <2>9. r.frames \in Seq(Frames)
    <3>1. r.frames \in [1..n -> Frames]
      BY Zenon, <2>6, <2>8
    <3> QED
      BY Zenon, <2>6, <3>1, SeqOver
  <2>10. InLine(r.frames, from) /\ Sound(r.frames, FALSE)
    BY Zenon, <2>7, <2>8, <2>c DEF InLine, Sound
  <2>11. ASSUME NEW i \in 1..Len(r.norm.pcm)
         PROVE  r.norm.pcm[i] = r.norm.next + i - 1
    <3> DEFINE m == n * FrameTicks
    <3>1. m \in Nat /\ r.norm.next = from + m
      BY Zenon, <2>6
    <3>2. r.norm.pcm[i] = from + (m + i) - 1
      BY Zenon, <2>4, <2>b
    <3> HIDE DEF m
    <3>3. from + (m + i) - 1 = (from + m) + i - 1
      <4>1. i \in Nat
        OBVIOUS
      <4> QED
        BY SMT, <1>3, <3>1, <4>1
    <3> QED
      BY Zenon, <3>1, <3>2, <3>3
  <2>12. r.norm.next \in Nat /\ r.norm.next + Len(r.norm.pcm) = Start[k + 1]
    <3> DEFINE m == n * FrameTicks
    <3>1. m \in Nat /\ r.norm.next = from + m /\ Len(r.norm.pcm) = Len(pcm) - m
      BY Zenon, <2>6
    <3>2. m <= Len(pcm)
      BY Zenon, <2>6
    <3> HIDE DEF m
    <3>3. (from + m) + (Len(pcm) - m) = Start[k + 1]
      BY SMTT(60), <1>1, <1>3, <2>3, <3>1, <3>2
    <3>4. from + m \in Nat
      BY <1>3, <3>1
    <3> QED
      BY Zenon, <3>1, <3>3, <3>4
  <2>13. r.norm.pcm \in Seq(0..(TrackTicks - 1))
    <3>1. ASSUME NEW i \in 1..Len(r.norm.pcm)
          PROVE  r.norm.pcm[i] \in 0..(TrackTicks - 1)
      <4>1. Len(r.norm.pcm) \in Nat /\ r.norm.pcm[i] = r.norm.next + i - 1
        BY Zenon, <2>6, <2>11, SeqShape
      <4> DEFINE l == Len(r.norm.pcm)
                 next == r.norm.next
      <4>2. l \in Nat /\ next \in Nat /\ next + l = Start[k + 1] /\ i \in 1..l
        BY Zenon, <2>12, <4>1
      <4> HIDE DEF l, next
      <4>3. next + i - 1 \in 0..(TrackTicks - 1)
        BY <1>1, <4>2
      <4> QED
        BY Zenon, <4>1, <4>3 DEF next
    <3> DEFINE T == 0..(TrackTicks - 1)
    <3>2. \A i \in 1..Len(r.norm.pcm) : r.norm.pcm[i] \in T
      BY Zenon, <3>1
    <3> HIDE DEF T
    <3>3. r.norm.pcm \in Seq(T)
      BY Zenon, <2>6, <3>2, SeqInto
    <3> QED
      BY Zenon, <3>3 DEF T
  <2>14. r.norm \in [pcm : Seq(0..(TrackTicks - 1)), next : Nat]
    BY Zenon, <2>6, <2>12, <2>13
  <2>15. r.norm.next = from + Len(r.frames) * FrameTicks /\ Len(r.norm.pcm) < FrameTicks
    BY Zenon, <2>6, <2>7
  <2> QED
    BY Zenon, <2>9, <2>10, <2>11, <2>12, <2>14, <2>15 DEF GoodFrames, Decoded, Pushed
<1> QED
  BY Zenon, <1>5, <1>6

\* flush: one frame, padded, and nothing is left.
LEMMA FlushGood ==
  ASSUME NEW norm \in [pcm : Seq(0..(TrackTicks - 1)), next : Nat \cup {None}],
         norm.next \in Nat, norm.pcm # <<>>, Len(norm.pcm) < FrameTicks,
         Decoded(norm, norm.next), norm.next + Len(norm.pcm) <= TrackTicks,
         NEW r, r = Flush(norm)
  PROVE  /\ GoodFrames(r.frames, norm.next, TRUE) /\ Len(r.frames) = 1
         /\ r.norm = [pcm |-> <<>>, next |-> norm.next + FrameTicks]
<1> DEFINE pad == [i \in 1..(FrameTicks - Len(norm.pcm)) |-> Pad]
           pcm == norm.pcm \o pad
<1>1. /\ FrameTicks \in Nat \ {0} /\ TrackTicks \in Nat \ {0} /\ Len(norm.pcm) \in Nat \ {0}
      /\ norm.pcm \in Seq(0..(TrackTicks - 1))
  BY LayoutAssumption, StartFacts
<1>2. r = EmitReadyFrames(pcm, norm.next)
  BY Zenon DEF Flush
<1>3. /\ pad \in Seq(Ticks) /\ Len(pad) = FrameTicks - Len(norm.pcm)
      /\ \A i \in 1..Len(pad) : pad[i] = Pad
  <2>1. FrameTicks - Len(norm.pcm) \in Nat /\ Pad \in Ticks
    BY <1>1 DEF Ticks, Pad
  <2>2. pad \in [1..(FrameTicks - Len(norm.pcm)) -> Ticks]
    BY Zenon, <2>1
  <2>3. pad \in Seq(Ticks) /\ Len(pad) = FrameTicks - Len(norm.pcm)
    BY <2>1, <2>2, SeqOver
  <2>4. \A i \in 1..(FrameTicks - Len(norm.pcm)) : pad[i] = Pad
    OBVIOUS
  <2> QED
    BY Zenon, <2>3, <2>4
<1>4. norm.pcm \in Seq(Ticks)
  BY <1>1 DEF Ticks, Pad
<1> HIDE DEF pad
<1>5. /\ pcm \in Seq(Ticks) /\ Len(pcm) = FrameTicks
      /\ \A i \in 1..FrameTicks : pcm[i] = IF i <= Len(norm.pcm) THEN norm.pcm[i]
                                           ELSE pad[i - Len(norm.pcm)]
  BY <1>1, <1>3, <1>4, ConcatShape
<1> HIDE DEF pcm
<1>6. ASSUME NEW i \in 1..FrameTicks
      PROVE  pcm[i] = norm.next + i - 1 \/ pcm[i] = Pad
  <2>1. CASE i <= Len(norm.pcm)
    <3>1. i \in 1..Len(norm.pcm)
      BY <1>1, <2>1
    <3> QED
      BY Zenon, <1>5, <2>1, <3>1 DEF Decoded
  <2>2. CASE ~(i <= Len(norm.pcm))
    <3>1. i - Len(norm.pcm) \in 1..Len(pad)
      BY <1>1, <1>3, <2>2
    <3> QED
      BY Zenon, <1>3, <1>5, <2>2, <3>1
  <2> QED
    BY Zenon, <2>1, <2>2
<1>7. Len(pcm) \div FrameTicks = 1
  <2>1. 1 * FrameTicks = FrameTicks
    BY <1>1
  <2> QED
    BY <1>1, <1>5, <2>1, QuotientUnique
<1>8. /\ r.frames \in [1..1 -> [at : Nat, ticks : [1..FrameTicks -> Ticks]]]
      /\ r.frames[1].at = norm.next + (1 - 1) * FrameTicks
      /\ \A j \in 1..FrameTicks : r.frames[1].ticks[j] = pcm[(1 - 1) * FrameTicks + j]
      /\ r.norm.pcm \in Seq(Ticks) /\ Len(r.norm.pcm) = Len(pcm) - 1 * FrameTicks
      /\ r.norm.next = norm.next + 1 * FrameTicks
      /\ r.norm = [pcm |-> r.norm.pcm, next |-> r.norm.next]
  <2>1. Emitted(pcm, norm.next, 1, r)
    BY Zenon, <1>2, <1>5, <1>7, EmitShape
  <2>2. 1 \in 1..1
    OBVIOUS
  <2> QED
    BY Zenon, <2>1, <2>2 DEF Emitted
<1>9. (1 - 1) * FrameTicks = 0 /\ 1 * FrameTicks = FrameTicks
  BY <1>1
<1>10. r.norm = [pcm |-> <<>>, next |-> norm.next + FrameTicks]
  <2>1. Len(r.norm.pcm) = 0
    BY <1>1, <1>5, <1>8, <1>9
  <2>2. r.norm.pcm = <<>>
    BY <1>8, <2>1
  <2> QED
    BY Zenon, <1>8, <1>9, <2>2
<1>11. Len(r.frames) = 1 /\ r.frames[1].at = norm.next /\ norm.next < TrackTicks
       /\ \A j \in 1..FrameTicks : r.frames[1].ticks[j] = pcm[j]
  <2>1. Len(r.frames) = 1
    BY <1>8, SeqOver
  <2>2. r.frames[1].at = norm.next /\ norm.next < TrackTicks
    BY <1>1, <1>8, <1>9
  <2>3. ASSUME NEW j \in 1..FrameTicks
        PROVE  r.frames[1].ticks[j] = pcm[j]
    <3>1. (1 - 1) * FrameTicks + j = j
      BY <1>9
    <3> QED
      BY Zenon, <1>8, <3>1
  <2> QED
    BY Zenon, <2>1, <2>2, <2>3
<1>12. r.frames[1] \in Frames
  <2>1. r.frames[1] \in [at : Nat, ticks : [1..FrameTicks -> Ticks]]
    BY <1>8
  <2>2. r.frames[1].at \in 0..(2 * TrackTicks)
    BY <1>1, <1>11
  <2> QED
    BY Zenon, <2>1, <2>2 DEF Frames, Ticks
<1>13. r.frames \in Seq(Frames) /\ \A i \in 1..Len(r.frames) : i = 1
  <2>1. r.frames \in [1..1 -> Frames]
    BY <1>8, <1>12
  <2>2. r.frames \in Seq(Frames)
    BY Zenon, <2>1, SeqOver
  <2>3. \A i \in 1..Len(r.frames) : i = 1
    BY <1>11
  <2> QED
    BY Zenon, <2>2, <2>3
<1>14. InLine(r.frames, norm.next)
  BY <1>9, <1>11, <1>13 DEF InLine
<1>15. Sound(r.frames, TRUE)
  BY <1>6, <1>11, <1>13 DEF Sound
<1> QED
  BY Zenon, <1>10, <1>11, <1>13, <1>14, <1>15 DEF GoodFrames

-----------------------------------------------------------------------------
(* Frames in a row.                                                        *)

\* Frames after frames stay in line.
LEMMA InLineConcat ==
  ASSUME NEW ws \in Seq(Frames), NEW fs \in Seq(Frames), NEW e \in Nat,
         InLine(ws, e), InLine(fs, e + Len(ws) * FrameTicks)
  PROVE  InLine(ws \o fs, e)
<1>1. FrameTicks \in Nat \ {0} /\ Len(ws) \in Nat /\ Len(fs) \in Nat
  BY LayoutAssumption
<1>2. /\ Len(ws \o fs) = Len(ws) + Len(fs)
      /\ \A i \in 1..(Len(ws) + Len(fs)) :
           (ws \o fs)[i] = IF i <= Len(ws) THEN ws[i] ELSE fs[i - Len(ws)]
  OBVIOUS
<1> SUFFICES ASSUME NEW i \in 1..(Len(ws) + Len(fs))
             PROVE  /\ (ws \o fs)[i].at = e + (i - 1) * FrameTicks
                    /\ (ws \o fs)[i].at < TrackTicks
  BY Zenon, <1>2 DEF InLine
<1>3. CASE i <= Len(ws)
  BY <1>1, <1>2, <1>3 DEF InLine
<1>4. CASE i > Len(ws)
  <2> DEFINE j == i - Len(ws)
  <2>1. j \in 1..Len(fs) /\ (ws \o fs)[i] = fs[j] /\ i - 1 = Len(ws) + (j - 1)
    BY <1>1, <1>2, <1>4
  <2> HIDE DEF j
  <2>2. /\ fs[j].at = (e + Len(ws) * FrameTicks) + (j - 1) * FrameTicks
        /\ fs[j].at < TrackTicks
    BY Zenon, <2>1 DEF InLine
  <2>3. (Len(ws) + (j - 1)) * FrameTicks = (Len(ws) * FrameTicks) + ((j - 1) * FrameTicks)
    BY <1>1, <2>1, ProductFacts
  <2>4. Len(ws) * FrameTicks \in Nat /\ (j - 1) * FrameTicks \in Nat
    BY <1>1, <2>1, ProductFacts
  <2> QED
    BY <1>1, <2>1, <2>2, <2>3, <2>4
<1> QED
  BY <1>1, <1>3, <1>4

\* So does what is in front of others.
LEMMA InLineFront ==
  ASSUME NEW ws \in Seq(Frames), NEW fs \in Seq(Frames), NEW e \in Nat, InLine(ws \o fs, e)
  PROVE  InLine(ws, e)
  BY DEF InLine

\* Without the first frame the line starts one frame later.
LEMMA InLineTail ==
  ASSUME NEW ws \in Seq(Frames), ws # <<>>, NEW e \in Nat, InLine(ws, e)
  PROVE  InLine(Tail(ws), e + FrameTicks) /\ ws[1].at = e /\ e < TrackTicks
<1>1. FrameTicks \in Nat \ {0} /\ Len(ws) \in Nat \ {0}
  BY LayoutAssumption
<1>2. /\ Len(Tail(ws)) = Len(ws) - 1
      /\ \A i \in 1..(Len(ws) - 1) : Tail(ws)[i] = ws[i + 1]
  BY <1>1
<1>3. (1 - 1) * FrameTicks = 0 /\ 1 \in 1..Len(ws)
  BY <1>1
<1>4. ws[1].at = e /\ e < TrackTicks
  BY <1>3 DEF InLine
<1>5. ASSUME NEW i \in 1..(Len(ws) - 1)
      PROVE  /\ ws[i + 1].at = (e + FrameTicks) + (i - 1) * FrameTicks
             /\ ws[i + 1].at < TrackTicks
  <2>1. i + 1 \in 1..Len(ws) /\ (i + 1) - 1 = 1 + (i - 1)
    BY <1>1
  <2>2. (1 + (i - 1)) * FrameTicks = (1 * FrameTicks) + ((i - 1) * FrameTicks)
    BY <1>1, ProductFacts
  <2>3. (i - 1) * FrameTicks \in Nat /\ 1 * FrameTicks = FrameTicks
    BY <1>1, ProductFacts
  <2>4. /\ ws[i + 1].at = e + ((i + 1) - 1) * FrameTicks /\ ws[i + 1].at < TrackTicks
    BY Zenon, <2>1 DEF InLine
  <2> QED
    BY <1>1, <2>1, <2>2, <2>3, <2>4
<1> QED
  BY Zenon, <1>2, <1>4, <1>5 DEF InLine

\* Sound frames before sound frames.
LEMMA SoundConcat ==
  ASSUME NEW ws \in Seq(Frames), NEW fs \in Seq(Frames), NEW padded,
         Sound(ws, FALSE), Sound(fs, padded)
  PROVE  Sound(ws \o fs, padded)
<1>1. /\ Len(ws) \in Nat /\ Len(fs) \in Nat /\ Len(ws \o fs) = Len(ws) + Len(fs)
      /\ \A i \in 1..(Len(ws) + Len(fs)) :
           (ws \o fs)[i] = IF i <= Len(ws) THEN ws[i] ELSE fs[i - Len(ws)]
  OBVIOUS
<1> SUFFICES ASSUME NEW i \in 1..(Len(ws) + Len(fs)), NEW j \in 1..FrameTicks
             PROVE  \/ (ws \o fs)[i].ticks[j] = (ws \o fs)[i].at + j - 1
                    \/ padded /\ (ws \o fs)[i].ticks[j] = Pad /\ i = Len(ws) + Len(fs)
  BY Zenon, <1>1 DEF Sound
<1>2. CASE i <= Len(ws)
  <2>1. i \in 1..Len(ws) /\ (ws \o fs)[i] = ws[i]
    BY <1>1, <1>2
  <2> QED
    BY Zenon, <2>1 DEF Sound
<1>3. CASE i > Len(ws)
  <2>1. i - Len(ws) \in 1..Len(fs) /\ (ws \o fs)[i] = fs[i - Len(ws)]
    BY <1>1, <1>3
  <2>2. i - Len(ws) = Len(fs) => i = Len(ws) + Len(fs)
    BY <1>1
  <2> QED
    BY Zenon, <2>1, <2>2 DEF Sound
<1> QED
  BY <1>1, <1>2, <1>3

\* Frames sound without padding are sound.
LEMMA SoundWeaker ==
  ASSUME NEW ws, NEW p, NEW q, Sound(ws, p), p => q
  PROVE  Sound(ws, q)
  BY Zenon DEF Sound

\* The front of sound frames is sound.
LEMMA SoundFront ==
  ASSUME NEW ws \in Seq(Frames), NEW fs \in Seq(Frames), NEW p, Sound(ws \o fs, p)
  PROVE  Sound(ws, p)
<1>1. /\ Len(ws) \in Nat /\ Len(fs) \in Nat /\ Len(ws \o fs) = Len(ws) + Len(fs)
      /\ \A i \in 1..Len(ws) : (ws \o fs)[i] = ws[i]
  OBVIOUS
<1> SUFFICES ASSUME NEW i \in 1..Len(ws), NEW j \in 1..FrameTicks
             PROVE  \/ ws[i].ticks[j] = ws[i].at + j - 1
                    \/ p /\ ws[i].ticks[j] = Pad /\ i = Len(ws)
  BY Zenon DEF Sound
<1>2. i \in 1..Len(ws \o fs) /\ (ws \o fs)[i] = ws[i] /\ (i = Len(ws \o fs) => i = Len(ws))
  BY <1>1
<1> QED
  BY Zenon, <1>2 DEF Sound

\* So is what follows the first of them.
LEMMA SoundTail ==
  ASSUME NEW ws \in Seq(Frames), ws # <<>>, NEW p, Sound(ws, p)
  PROVE  Sound(Tail(ws), p)
<1>1. /\ Len(ws) \in Nat \ {0} /\ Len(Tail(ws)) = Len(ws) - 1
      /\ \A i \in 1..(Len(ws) - 1) : Tail(ws)[i] = ws[i + 1]
  OBVIOUS
<1> SUFFICES ASSUME NEW i \in 1..(Len(ws) - 1), NEW j \in 1..FrameTicks
             PROVE  \/ ws[i + 1].ticks[j] = ws[i + 1].at + j - 1
                    \/ p /\ ws[i + 1].ticks[j] = Pad /\ i = Len(ws) - 1
  <2> DEFINE t == Tail(ws)
  <2>1. \A i \in 1..Len(t) : i \in 1..(Len(ws) - 1) /\ t[i] = ws[i + 1]
    BY Zenon, <1>1
  <2>2. Len(t) = Len(ws) - 1
    BY Zenon, <1>1
  <2> HIDE DEF t
  <2>3. SUFFICES Sound(t, p)
    BY Zenon DEF t
  <2> QED
    BY <2>1, <2>2 DEF Sound
<1>2. i + 1 \in 1..Len(ws) /\ (i + 1 = Len(ws) => i = Len(ws) - 1)
  <2> DEFINE l == Len(ws)
  <2>1. l \in Nat /\ i \in 1..(l - 1)
    BY Zenon, <1>1
  <2> HIDE DEF l
  <2>2. i + 1 \in 1..l /\ (i + 1 = l => i = l - 1)
    BY <2>1
  <2> QED
    BY Zenon, <2>2 DEF l
<1> QED
  BY Zenon, <1>2 DEF Sound

\* The two parts a sequence is split into, and that they make it up.
LEMMA SplitWhole ==
  ASSUME NEW S, NEW fs \in Seq(S), NEW n \in 0..Len(fs)
  PROVE  /\ SubSeq(fs, 1, n) \in Seq(S) /\ Len(SubSeq(fs, 1, n)) = n
         /\ SubSeq(fs, n + 1, Len(fs)) \in Seq(S)
         /\ Len(SubSeq(fs, n + 1, Len(fs))) = Len(fs) - n
         /\ SubSeq(fs, 1, n) \o SubSeq(fs, n + 1, Len(fs)) = fs
<1> DEFINE a == SubSeq(fs, 1, n)
           b == SubSeq(fs, n + 1, Len(fs))
<1>1. Len(fs) \in Nat /\ n \in Nat /\ n <= Len(fs) /\ \A i \in 1..Len(fs) : fs[i] \in S
  OBVIOUS
<1>2. (\A i \in 1..n : fs[i] \in S) /\ (\A i \in (n + 1)..Len(fs) : fs[i] \in S)
  BY <1>1
<1>3. a \in Seq(S) /\ Len(a) = n /\ \A i \in 1..n : a[i] = fs[i]
  BY <1>1, <1>2, SubSeqShape
<1> HIDE DEF a
<1>4. b \in Seq(S) /\ Len(b) = Len(fs) - n /\ \A i \in 1..(Len(fs) - n) : b[i] = fs[n + i]
  <2>1. /\ b \in Seq(S) /\ Len(b) = IF n + 1 <= Len(fs) THEN (Len(fs) - (n + 1)) + 1 ELSE 0
        /\ \A i \in 1..(Len(fs) - (n + 1)) + 1 : b[i] = fs[((n + 1) + i) - 1]
    BY <1>1, <1>2, SubSeqShape
  <2> HIDE DEF b
  <2>2. (Len(fs) - (n + 1)) + 1 = Len(fs) - n /\ \A i \in Nat : ((n + 1) + i) - 1 = n + i
    BY <1>1
  <2>3. Len(b) = Len(fs) - n
    <3> DEFINE l == Len(fs)
    <3>1. (IF n + 1 <= l THEN (l - (n + 1)) + 1 ELSE 0) = l - n
      <4>1. l \in Nat /\ n \in Nat /\ n <= l
        BY Zenon, <1>1
      <4> HIDE DEF l
      <4> QED
        BY <4>1
    <3> QED
      BY <2>1, <3>1
  <2>4. ASSUME NEW i \in 1..(Len(fs) - n)
        PROVE  b[i] = fs[n + i]
    <3>1. i \in Nat /\ i \in 1..(Len(fs) - (n + 1)) + 1
      BY <1>1, <2>2
    <3> QED
      BY Zenon, <2>1, <2>2, <3>1
  <2> QED
    BY Zenon, <2>1, <2>3, <2>4
<1> HIDE DEF b
<1>5. /\ a \o b \in Seq(S) /\ Len(a \o b) = Len(a) + Len(b)
      /\ \A i \in 1..(Len(a) + Len(b)) : (a \o b)[i] = IF i <= Len(a) THEN a[i] ELSE b[i - Len(a)]
  BY Zenon, <1>3, <1>4, ConcatShape
<1>6. Len(a \o b) = Len(fs)
  BY <1>1, <1>3, <1>4, <1>5
<1>7. ASSUME NEW i \in 1..Len(a \o b)
      PROVE  (a \o b)[i] = fs[i]
  <2>1. i \in 1..(Len(a) + Len(b)) /\ i \in Nat /\ i <= Len(fs)
    BY <1>1, <1>5, <1>6
  <2>2. CASE i <= n
    <3>1. i \in 1..n /\ (a \o b)[i] = a[i]
      BY <1>1, <1>3, <1>5, <2>1, <2>2
    <3> QED
      BY Zenon, <1>3, <3>1
  <2>3. CASE ~(i <= n)
    <3>1. i - n \in 1..(Len(fs) - n) /\ n + (i - n) = i
      BY <1>1, <2>1, <2>3
    <3>2. (a \o b)[i] = b[i - n]
      BY Zenon, <1>3, <1>5, <2>1, <2>3
    <3> QED
      BY Zenon, <1>4, <3>1, <3>2
  <2> QED
    BY Zenon, <2>2, <2>3
<1>8. a \o b = fs
  BY Zenon, <1>5, <1>6, <1>7, SeqAgree
<1> QED
  BY Zenon, <1>3, <1>4, <1>8 DEF a, b

\* Concatenation of frames, kept closed in the lemmas below.
Join(s, t) == s \o t

\* Its length.
LEMMA JoinShape ==
  ASSUME NEW s \in Seq(Frames), NEW t \in Seq(Frames)
  PROVE  Join(s, t) \in Seq(Frames) /\ Len(Join(s, t)) = Len(s) + Len(t)
  BY DEF Join

\* It associates.
LEMMA JoinTwice ==
  ASSUME NEW s \in Seq(Frames), NEW t \in Seq(Frames), NEW u \in Seq(Frames)
  PROVE  Join(Join(s, t), u) = Join(s, Join(t, u))
  BY DEF Join

\* The frames a, moved from the front of a line to the end of the one before.
Moved(q, s, a, b) ==
  /\ Join(s, a) \in Seq(Frames) /\ Len(Join(s, a)) = Len(s) + Len(a)
  /\ Join(Join(q, Join(s, a)), b) = Join(Join(q, s), Join(a, b))

\* It stays in its place.
LEMMA MovedOver ==
  ASSUME NEW q \in Seq(Frames), NEW s \in Seq(Frames), NEW a \in Seq(Frames),
         NEW b \in Seq(Frames)
  PROVE  Moved(q, s, a, b)
<1>1. /\ Join(s, a) \in Seq(Frames) /\ Len(Join(s, a)) = Len(s) + Len(a)
      /\ Join(a, b) \in Seq(Frames)
  BY Zenon, JoinShape
<1>2. Join(Join(q, Join(s, a)), b) = Join(q, Join(Join(s, a), b))
  BY <1>1, JoinTwice
<1>3. Join(Join(s, a), b) = Join(s, Join(a, b))
  BY ZenonT(60), JoinTwice
<1>4. Join(Join(q, s), Join(a, b)) = Join(q, Join(s, Join(a, b)))
  BY <1>1, JoinTwice
<1> QED
  BY Zenon, <1>1, <1>2, <1>3, <1>4 DEF Moved

\* Frames split after the first n, the front put behind s and the rest kept.
Rejoined(q, s, fs, n, front, rest) ==
  /\ front \in Seq(Frames) /\ rest \in Seq(Frames)
  /\ Len(front) = Len(s) + n /\ Len(rest) = Len(fs) - n
  /\ (q \o front) \o rest = (q \o s) \o fs

\* Splitting frames and joining the parts again changes nothing.
LEMMA SplitJoined ==
  ASSUME NEW q \in Seq(Frames), NEW s \in Seq(Frames), NEW fs \in Seq(Frames),
         NEW n \in 0..Len(fs), NEW front, front = s \o SubSeq(fs, 1, n),
         NEW rest, rest = SubSeq(fs, n + 1, Len(fs))
  PROVE  Rejoined(q, s, fs, n, front, rest)
<1> DEFINE a == SubSeq(fs, 1, n)
           b == SubSeq(fs, n + 1, Len(fs))
<1>1. /\ a \in Seq(Frames) /\ Len(a) = n /\ b \in Seq(Frames) /\ Len(b) = Len(fs) - n
      /\ Join(a, b) = fs
  BY Zenon, SplitWhole DEF Join
<1>2. front = Join(s, a) /\ rest = b
  BY Zenon DEF Join
<1> HIDE DEF a, b
<1>a. a \in Seq(Frames) /\ b \in Seq(Frames)
  BY Zenon, <1>1
<1>b. Moved(q, s, a, b)
  BY Zenon, <1>a, MovedOver
<1>3. /\ Join(s, a) \in Seq(Frames) /\ Len(Join(s, a)) = Len(s) + Len(a)
      /\ Join(Join(q, Join(s, a)), b) = Join(Join(q, s), Join(a, b))
  BY Zenon, <1>b DEF Moved
<1>4. Join(Join(q, front), rest) = Join(Join(q, s), fs)
  BY Zenon, <1>1, <1>2, <1>3
<1> QED
  BY Zenon, <1>1, <1>2, <1>3, <1>4 DEF Join, Rejoined

-----------------------------------------------------------------------------
(* What several actions have in common.                                    *)

\* The parts of SourceInv but ResumeWithinPacket, which follows from them.
Core ==
  /\ TypeOK /\ BytesContiguous /\ StreamInv /\ CallInv /\ NormInv /\ LineInv /\ AudioInv
  /\ PositionOfCurrent /\ OwnerInv /\ EndedInv

\* A step that leaves the line where it is.
Steady == \A e \in 0..(TrackTicks + FrameTicks) : OnLine(e) => OnLine(e)'

\* The three states of the normalizer under an open source: before its first
\* packet, between two packets, and after the flush.
NormFresh ==
  /\ worker.norm = NewNormalizer /\ op # NoOp /\ op.kind = "prepare"
  /\ out = <<>> /\ worker.pending = <<>> /\ position.sent = op.resume
  /\ source.packets = Kept(1..source.parsed, op.resume)
  /\ \/ op.stage \in {"open", "seek"} \/ source.packets # {}
     \/ source.stream.pos = ResourceEnd
NormGoing ==
  /\ worker.norm.next # None /\ Len(worker.norm.pcm) < FrameTicks
  /\ Decoded(worker.norm, worker.norm.next)
  /\ \E k \in 1..(source.parsed + 1) :
       /\ Start[k] = worker.norm.next + Len(worker.norm.pcm)
       /\ source.packets = k..source.parsed
NormDone ==
  /\ worker.norm.next # None /\ worker.norm.pcm = <<>> /\ source.packets = {}
  /\ source.stream.pos = ResourceEnd
  /\ Start[source.parsed + 1] <= worker.norm.next
  /\ worker.norm.next < TrackTicks + FrameTicks

\* The normalizer is in one of them.
LEMMA NormCases ==
  ASSUME NormInv, source # None
  PROVE  NormFresh \/ NormGoing \/ NormDone
  BY Zenon DEF NormInv, NormFresh, NormGoing, NormDone, Decoded

\* And after a step.
LEMMA NormNext ==
  ASSUME NormFresh' \/ NormGoing' \/ NormDone'
  PROVE  NormInv'
  BY Zenon DEF NormInv, NormFresh, NormGoing, NormDone, Decoded

\* The types of the parts of the state.
LEMMA TypeFacts ==
  ASSUME TypeOK
  PROVE  /\ worker.current \in Videos \cup {None} /\ worker.pending \in Seq(Frames)
         /\ worker.norm \in [pcm : Seq(0..(TrackTicks - 1)), next : Nat \cup {None}]
         /\ worker.lastVideo \in Videos \cup {None}
         /\ worker.lastEncoding \in Encodings \cup {None}
         /\ position.sent \in Nat /\ position.of \in Videos \cup {None}
         /\ out \in Seq(Frames) /\ queue \in Seq(Frames) /\ Waiting \in Seq(Frames)
         /\ op # NoOp => op \in Ops
         /\ source # None => source \in Sources
<1>1. /\ worker.current \in Videos \cup {None} /\ worker.pending \in Seq(Frames)
      /\ worker.norm \in [pcm : Seq(0..(TrackTicks - 1)), next : Nat \cup {None}]
      /\ worker.lastVideo \in Videos \cup {None}
      /\ worker.lastEncoding \in Encodings \cup {None}
  BY Zenon DEF TypeOK
<1>2. out \in Seq(Frames) /\ queue \in Seq(Frames)
  BY Zenon DEF TypeOK
<1>3. Waiting \in Seq(Frames)
  BY <1>1, <1>2 DEF Waiting
<1>4. position.sent \in Nat /\ position.of \in Videos \cup {None}
  <2>1. position.sent \in 0..(2 * TrackTicks + FrameTicks) /\ position.of \in Videos \cup {None}
    BY Zenon DEF TypeOK
  <2> QED
    BY <2>1, StartFacts, LayoutAssumption
<1>5. (op # NoOp => op \in Ops) /\ (source # None => source \in Sources)
  BY Zenon DEF TypeOK
<1> QED
  BY Zenon, <1>1, <1>2, <1>3, <1>4, <1>5

\* A call in progress.
LEMMA OpFacts ==
  ASSUME TypeOK, op # NoOp
  PROVE  /\ op.kind \in {"prepare", "refill"} /\ op.video \in Videos /\ op.resume \in Nat
         /\ op.limit \in Nat \ {0} /\ op.target \in Nat \ {0} /\ op.tries \in 0..2
         /\ op.limit \in 1..SourceTarget /\ op.target \in 1..SourceTarget
         /\ op.stage \in {"resolve", "open", "seek", "loop", "read", "reresolve", "return"}
         /\ op.via \in {"reopen", "first", "second"}
<1>1. op \in Ops
  BY Zenon DEF TypeOK
<1>2. SourceTarget \in Nat
  BY Zenon, LayoutAssumption
<1> QED
  BY <1>1, <1>2 DEF Ops

\* A call in progress is not no call.
LEMMA OpIsNotNoOp ==
  ASSUME NEW o \in Ops
  PROVE  o # NoOp
<1>1. o.kind \in {"prepare", "refill"}
  BY Zenon DEF Ops
<1> QED
  BY <1>1 DEF NoOp

\* A call that goes on to another of its stages.
GoesOn(o, p, stage) ==
  /\ p \in Ops /\ p.kind = o.kind /\ p.video = o.video /\ p.limit = o.limit
  /\ p.target = o.target /\ p.resume = o.resume /\ p.stage = stage

\* It keeps its terms.
LEMMA OpMoved ==
  ASSUME NEW o \in Ops, NEW tries \in 0..2,
         NEW stage \in {"resolve", "open", "seek", "loop", "read", "reresolve", "return"},
         NEW p, p = [o EXCEPT !.stage = stage, !.tries = tries]
  PROVE  GoesOn(o, p, stage)
  BY Zenon DEF Ops, GoesOn

\* A step that leaves the frames, the normalizer and the position alone leaves
\* them in line.
LEMMA LineKept ==
  ASSUME LineInv, Waiting' = Waiting, worker'.norm = worker.norm,
         position'.sent = position.sent,
         source' # None /\ worker.norm.next # None => source # None
  PROVE  LineInv' /\ Steady
<1>1. ASSUME NEW e \in 0..(TrackTicks + FrameTicks), OnLine(e)
      PROVE  OnLine(e)'
  <2>1. InLine(Waiting', e)
    BY Zenon, <1>1 DEF OnLine
  <2> QED
    BY Zenon, <1>1, <2>1 DEF OnLine
<1> QED
  BY Zenon, <1>1 DEF LineInv, Steady

\* Frames that stay stay sound.
LEMMA AudioKept ==
  ASSUME AudioInv, Waiting' = Waiting, Exhausted => Exhausted'
  PROVE  AudioInv'
<1>1. Sound(Waiting', Exhausted)
  BY Zenon DEF AudioInv
<1>2. Sound(Waiting', Exhausted')
  BY <1>1, SoundWeaker
<1> QED
  BY Zenon, <1>2 DEF AudioInv

\* With no frame waiting and no packet pushed there is nothing to line up.
LEMMA LineEmpty ==
  ASSUME Waiting' = <<>>, source' # None => worker'.norm.next = None
  PROVE  LineInv' /\ AudioInv'
<1>1. 0 \in 0..(TrackTicks + FrameTicks)
  BY StartFacts, LayoutAssumption
<1>2. Len(<<>>) = 0
  OBVIOUS
<1>3. InLine(Waiting', 0) /\ Sound(Waiting', Exhausted')
  BY <1>2 DEF InLine, Sound
<1>4. OnLine(0)'
  BY Zenon, <1>3 DEF OnLine
<1> QED
  BY Zenon, <1>1, <1>3, <1>4 DEF LineInv, AudioInv

\* A packet or two are as good as none when all is read.
LEMMA ExhaustedFacts ==
  /\ Exhausted /\ source # None =>
       source.packets = {} /\ worker.norm.pcm = <<>> /\ source.stream.pos = ResourceEnd
  /\ source = None => Exhausted
  BY Zenon DEF Exhausted

\* What the line says of the first frame handed over.
LEMMA FirstInLine ==
  ASSUME NEW q \in Seq(Frames), NEW o \in Seq(Frames), NEW p \in Seq(Frames), q # <<>>,
         NEW e \in Nat, InLine((q \o o) \o p, e)
  PROVE  Head(q).at = e /\ (q \o o) \o p # <<>>
<1>1. /\ (q \o o) \o p \in Seq(Frames) /\ Len((q \o o) \o p) = (Len(q) + Len(o)) + Len(p)
      /\ Len(q) \in Nat \ {0} /\ Len(o) \in Nat /\ Len(p) \in Nat
      /\ ((q \o o) \o p)[1] = q[1] /\ Head(q) = q[1]
  OBVIOUS
<1>2. (q \o o) \o p # <<>>
  BY <1>1
<1> QED
  BY Zenon, <1>1, <1>2, InLineTail

\* The position lies in the packet of the first frame handed over.
LEMMA ResumeFromLine ==
  ASSUME TypeOK, LineInv
  PROVE  ResumeWithinPacket
<1> SUFFICES ASSUME queue # <<>>
             PROVE  /\ Head(queue).at <= position.sent
                    /\ \E k \in Packets : position.sent < Head(queue).at + Duration(k)
  BY Zenon DEF ResumeWithinPacket
<1>1. PICK e \in 0..(TrackTicks + FrameTicks) : OnLine(e)
  BY Zenon DEF LineInv
<1>2. e \in Nat /\ InLine((queue \o out) \o worker.pending, e)
  BY <1>1, StartFacts, LayoutAssumption DEF OnLine, Waiting
<1>3. queue \in Seq(Frames) /\ out \in Seq(Frames) /\ worker.pending \in Seq(Frames)
  BY Zenon, TypeFacts
<1>4. Head(queue).at = e /\ Waiting # <<>>
  BY Zenon, <1>2, <1>3, FirstInLine DEF Waiting
<1> QED
  BY Zenon, <1>1, <1>4 DEF OnLine

\* The two forms of the invariant.
LEMMA CoreIsInv ==
  ASSUME Core
  PROVE  SourceInv
  BY Zenon, ResumeFromLine DEF Core, SourceInv

-----------------------------------------------------------------------------
(* SourceInv is inductive: one lemma per action.                           *)

\* Nothing plays before the first call.
LEMMA InitCore ==
  ASSUME Init
  PROVE  Core
<1>1. TypeOK
  <2>1. TrackTicks \in Nat /\ FrameTicks \in Nat
    BY Zenon, StartFacts, LayoutAssumption
  <2>2. 0 \in 0..(2 * TrackTicks + FrameTicks)
    BY <2>1
  <2>3. <<>> \in Seq(Frames) /\ <<>> \in Seq(0..(TrackTicks - 1))
    OBVIOUS
  <2>4. NewNormalizer \in [pcm : Seq(0..(TrackTicks - 1)), next : Nat \cup {None}]
    BY Zenon, <2>3 DEF NewNormalizer
  <2>5. position \in [sent : 0..(2 * TrackTicks + FrameTicks), of : Videos \cup {None}]
    BY Zenon, <2>2 DEF Init, NewPosition
  <2>6. /\ worker \in [current : Videos \cup {None}, pending : Seq(Frames),
                 norm : [pcm : Seq(0..(TrackTicks - 1)), next : Nat \cup {None}],
                 lastVideo : Videos \cup {None}, lastEncoding : Encodings \cup {None}]
        /\ worker.lastVideo = None
    BY Zenon, <2>3, <2>4 DEF Init
  <2> QED
    BY Zenon, <2>3, <2>5, <2>6 DEF Init, TypeOK
<1>2. source = None /\ op = NoOp /\ out = <<>> /\ queue = <<>> /\ ended = FALSE
      /\ worker.pending = <<>> /\ position.sent = 0
  BY Zenon DEF Init, NewPosition
<1>3. BytesContiguous /\ StreamInv /\ CallInv /\ NormInv
  BY Zenon, <1>2 DEF BytesContiguous, StreamInv, CallInv, NormInv
<1>4. Waiting = <<>>
  BY <1>2 DEF Waiting
<1>5. Len(<<>>) = 0
  OBVIOUS
<1>6. InLine(Waiting, 0) /\ AudioInv
  BY <1>4, <1>5 DEF InLine, AudioInv, Sound
<1>7. OnLine(0)
  BY Zenon, <1>2, <1>4, <1>6 DEF OnLine
<1>8. 0 \in 0..(TrackTicks + FrameTicks)
  BY StartFacts, LayoutAssumption
<1>9. LineInv
  BY Zenon, <1>7, <1>8 DEF LineInv
<1>10. PositionOfCurrent /\ OwnerInv /\ EndedInv
  BY <1>2 DEF PositionOfCurrent, OwnerInv, EndedInv
<1> QED
  BY Zenon, <1>1, <1>3, <1>6, <1>9, <1>10 DEF Core

\* A call that fails: out and source go, the frames handed over stay in line.
LEMMA FailCore ==
  ASSUME Core, op # NoOp, worker.pending = <<>>, Fail
  PROVE  Core' /\ Steady
<1>1. op' = NoOp /\ source' = None /\ out' = <<>>
      /\ worker' = worker /\ position' = position /\ queue' = queue /\ ended' = ended
  BY Zenon DEF Fail
<1>2. /\ queue \in Seq(Frames) /\ out \in Seq(Frames) /\ worker.pending \in Seq(Frames)
      /\ <<>> \in Seq(Frames)
  BY Zenon, TypeFacts DEF Core
<1>3. TypeOK'
  BY Zenon, <1>1, <1>2 DEF Core, TypeOK
<1>4. BytesContiguous' /\ StreamInv' /\ NormInv' /\ CallInv'
  BY Zenon, <1>1 DEF BytesContiguous, StreamInv, NormInv, CallInv
<1>5. Waiting = queue \o out /\ Waiting' = queue
  BY <1>1, <1>2 DEF Waiting
<1>6. LineInv' /\ Steady
  <2>1. ASSUME NEW e \in 0..(TrackTicks + FrameTicks), OnLine(e)
        PROVE  OnLine(e)'
    <3>1. e \in Nat /\ InLine(queue \o out, e)
      BY <1>5, <2>1, StartFacts, LayoutAssumption DEF OnLine
    <3>2. InLine(Waiting', e)
      BY Zenon, <1>2, <1>5, <3>1, InLineFront
    <3>3. Waiting' # <<>> => Waiting # <<>>
      BY <1>2, <1>5
    <3> QED
      BY Zenon, <1>1, <2>1, <3>2, <3>3 DEF OnLine
  <2> QED
    BY Zenon, <2>1 DEF Core, LineInv, Steady
<1>7. AudioInv'
  <2>1. Sound(queue \o out, Exhausted)
    BY Zenon, <1>5 DEF Core, AudioInv
  <2>2. Sound(queue, Exhausted)
    BY Zenon, <1>2, <2>1, SoundFront
  <2>3. Exhausted'
    BY Zenon, <1>1 DEF Exhausted
  <2>4. Sound(Waiting', Exhausted')
    BY Zenon, <1>5, <2>2, <2>3, SoundWeaker
  <2> QED
    BY Zenon, <2>4 DEF AudioInv
<1>8. PositionOfCurrent' /\ OwnerInv' /\ EndedInv'
  BY Zenon, <1>1 DEF Core, PositionOfCurrent, OwnerInv, EndedInv, CallInv
<1> QED
  BY Zenon, <1>3, <1>4, <1>6, <1>7, <1>8 DEF Core

\* A Play: whatever was queued is dropped.
LEMMA PrepareCore ==
  ASSUME Core, NEW v \in Videos, NEW reset \in BOOLEAN, Prepare(v, reset)
  PROVE  Core'
<1> DEFINE known == ~reset /\ worker.lastVideo = v
<1>1. /\ op' = [kind |-> "prepare", video |-> v, limit |-> SourceTarget,
                target |-> Prebuffer, resume |-> ResumesAt(v, reset),
                via |-> IF known THEN "reopen" ELSE "first", tries |-> 1,
                stage |-> IF known THEN "open" ELSE "resolve"]
      /\ source' = IF known THEN NewSource(v, worker.lastEncoding) ELSE None
      /\ worker' = [worker EXCEPT !.norm = NewNormalizer, !.pending = <<>>,
                  !.current = IF reset THEN None ELSE @,
                  !.lastVideo = IF reset THEN None ELSE @,
                  !.lastEncoding = IF reset THEN None ELSE @]
      /\ position' = IF ~reset /\ worker.current = v THEN position ELSE NewPosition
      /\ out' = <<>> /\ queue' = <<>> /\ ended' = FALSE
  BY Zenon DEF Prepare
<1>2. TypeOK /\ position.sent \in Nat
  BY Zenon, TypeFacts DEF Core
<1>3. ResumesAt(v, reset) \in Nat /\ ResumesAt(v, reset) = position'.sent
      /\ (position'.sent > 0 => worker.current = v /\ ~reset /\ position' = position)
  BY <1>1, <1>2 DEF ResumesAt, NewPosition
<1>4. known => worker.lastEncoding \in Encodings
  BY Zenon, <1>2, NoneAssumption DEF TypeOK
<1> HIDE DEF known
<1>5. op' \in Ops /\ op' # NoOp
  <2>1. SourceTarget \in 1..SourceTarget /\ Prebuffer \in 1..SourceTarget
    BY LayoutAssumption
  <2>2. op' \in Ops
    BY <1>1, <1>3, <2>1 DEF Ops
  <2> QED
    BY Zenon, <2>2, OpIsNotNoOp
<1>6. /\ op'.kind = "prepare" /\ op'.video = v /\ op'.limit = SourceTarget
      /\ op'.resume = position'.sent /\ op'.stage = IF known THEN "open" ELSE "resolve"
  BY Zenon, <1>1, <1>3
<1>7. /\ worker'.norm = NewNormalizer /\ worker'.pending = <<>>
      /\ worker'.current = IF reset THEN None ELSE worker.current
      /\ worker'.lastVideo = IF reset THEN None ELSE worker.lastVideo
      /\ worker'.lastEncoding = IF reset THEN None ELSE worker.lastEncoding
  BY Zenon, <1>1, <1>2 DEF TypeOK
<1>8. /\ <<>> \in Seq(Frames) /\ <<>> \in Seq(0..(TrackTicks - 1))
      /\ NewNormalizer \in [pcm : Seq(0..(TrackTicks - 1)), next : Nat \cup {None}]
      /\ NewNormalizer.next = None /\ NewNormalizer.pcm = <<>>
  BY DEF NewNormalizer
<1>9. /\ worker' \in [current : Videos \cup {None}, pending : Seq(Frames),
                 norm : [pcm : Seq(0..(TrackTicks - 1)), next : Nat \cup {None}],
                 lastVideo : Videos \cup {None}, lastEncoding : Encodings \cup {None}]
      /\ worker'.lastVideo # None => worker'.lastEncoding # None
  <2>1. worker \in [current : Videos \cup {None}, pending : Seq(Frames),
                 norm : [pcm : Seq(0..(TrackTicks - 1)), next : Nat \cup {None}],
                 lastVideo : Videos \cup {None}, lastEncoding : Encodings \cup {None}]
        /\ (worker.lastVideo # None => worker.lastEncoding # None)
    BY Zenon, <1>2 DEF TypeOK
  <2> QED
    BY ZenonT(60), <1>1, <1>7, <1>8, <2>1
<1>10. position' \in [sent : 0..(2 * TrackTicks + FrameTicks), of : Videos \cup {None}]
  <2>1. 0 \in 0..(2 * TrackTicks + FrameTicks)
    BY StartFacts, LayoutAssumption
  <2>2. NewPosition \in [sent : 0..(2 * TrackTicks + FrameTicks), of : Videos \cup {None}]
    BY Zenon, <2>1 DEF NewPosition
  <2> QED
    BY Zenon, <1>1, <1>2, <2>2 DEF TypeOK
<1>11. source' # None => /\ known /\ GoodSource(source') /\ source'.parsed = 0
                         /\ source'.packets = {} /\ ~source'.mixed
  BY Zenon, <1>1, <1>4, NewSourceGood
<1>12. known => source' # None
  BY Zenon, <1>1, <1>4, NewSourceGood
<1>13. BytesContiguous' /\ StreamInv' /\ source' \in Sources \cup {None}
  BY Zenon, <1>11, SourceStaysGood
<1>14. TypeOK'
  BY Zenon, <1>1, <1>5, <1>8, <1>9, <1>10, <1>13 DEF TypeOK
<1>15. Len(out') = 0 /\ SourceTarget \in Nat
  BY Zenon, <1>1, LayoutAssumption
<1>16. CallInv'
  BY <1>1, <1>3, <1>5, <1>6, <1>7, <1>8, <1>11, <1>12, <1>15 DEF CallInv
<1>17. NormInv'
  <2>1. Kept(1..0, op'.resume) = {}
    BY DEF Kept
  <2> QED
    BY Zenon, <1>1, <1>5, <1>6, <1>7, <1>11, <2>1 DEF NormInv
<1>18. Waiting' = <<>>
  BY <1>1, <1>7 DEF Waiting
<1>19. LineInv' /\ AudioInv'
  BY Zenon, <1>7, <1>8, <1>18, LineEmpty
<1>20. PositionOfCurrent'
  BY Zenon, <1>3, <1>7 DEF Core, PositionOfCurrent
<1>21. OwnerInv' /\ EndedInv'
  BY Zenon, <1>1, <1>5, <1>6, <1>11 DEF OwnerInv, EndedInv
<1> QED
  BY Zenon, <1>13, <1>14, <1>16, <1>17, <1>19, <1>20, <1>21 DEF Core

\* The resolution a prepare waits for.
LEMMA ResolveCore ==
  ASSUME Core, Resolve
  PROVE  Core'
<1>1. op # NoOp /\ op.stage = "resolve" /\ TypeOK
  BY Zenon DEF Resolve, Core
<1>2. /\ op.kind = "prepare" /\ worker.pending = <<>> /\ out = <<>> /\ queue = <<>>
      /\ worker.norm = NewNormalizer /\ position.sent = op.resume /\ source = None
      /\ (op.resume > 0 => worker.current = op.video) /\ op.limit = SourceTarget /\ ~ended
  BY Zenon, <1>1 DEF Core, CallInv
<1>3. CASE Fail
  BY Zenon, <1>1, <1>2, <1>3, FailCore
<1>4. ASSUME NEW e \in Selectable, source' = NewSource(op.video, e),
             op' = [op EXCEPT !.stage = "open", !.tries = 1],
             UNCHANGED <<worker, position, out, queue, ended>>
      PROVE  Core'
  <2>1. op \in Ops /\ op.video \in Videos /\ e \in Encodings
    BY Zenon, <1>1, <1>4, OpFacts DEF Selectable, TypeOK
  <2>2. op' \in Ops /\ op' # NoOp
    <3>1. op' \in Ops
      <4>1. 1 \in 0..2 /\ "open" \in {"resolve", "open", "seek", "loop", "read", "reresolve", "return"}
        OBVIOUS
      <4>2. op \in Ops /\ op' = [op EXCEPT !.stage = "open", !.tries = 1]
        BY Zenon, <1>4, <2>1
      <4>3. GoesOn(op, op', "open")
        BY Zenon, <4>1, <4>2, OpMoved
      <4> QED
        BY Zenon, <4>3 DEF GoesOn
    <3> QED
      BY Zenon, <3>1, OpIsNotNoOp
  <2>3. /\ op'.kind = "prepare" /\ op'.video = op.video /\ op'.limit = SourceTarget
        /\ op'.resume = op.resume /\ op'.stage = "open"
    BY Zenon, <1>2, <1>4, <2>1 DEF Ops
  <2>4. /\ GoodSource(source') /\ source' # None /\ source'.parsed = 0 /\ source'.packets = {}
        /\ ~source'.mixed
    BY Zenon, <1>4, <2>1, NewSourceGood
  <2>5. BytesContiguous' /\ StreamInv' /\ source' \in Sources \cup {None}
    BY Zenon, <2>4, SourceStaysGood
  <2>6. TypeOK'
    BY Zenon, <1>1, <1>4, <2>2, <2>5 DEF TypeOK
  <2>7. Len(out) = 0 /\ SourceTarget \in Nat
    BY Zenon, <1>2, LayoutAssumption
  <2>8. CallInv'
    BY <1>2, <1>4, <2>2, <2>3, <2>4, <2>7 DEF CallInv
  <2>9. NormInv'
    <3>1. Kept(1..0, op.resume) = {}
      BY DEF Kept
    <3> QED
      BY Zenon, <1>2, <1>4, <2>2, <2>3, <2>4, <3>1 DEF NormInv
  <2>10. Waiting' = <<>>
    BY <1>2, <1>4 DEF Waiting
  <2>11. worker'.norm.next = None
    BY <1>2, <1>4 DEF NewNormalizer
  <2>12. LineInv' /\ AudioInv'
    BY Zenon, <2>10, <2>11, LineEmpty
  <2>13. PositionOfCurrent' /\ OwnerInv' /\ EndedInv'
    BY Zenon, <1>2, <1>4, <2>2, <2>3 DEF Core, PositionOfCurrent, OwnerInv, EndedInv
  <2> QED
    BY Zenon, <2>5, <2>6, <2>8, <2>9, <2>12, <2>13 DEF Core
<1> QED
  BY Zenon, <1>3, <1>4 DEF Resolve

\* What an open source looks like before the first packet is pushed.
LEMMA OpeningFacts ==
  ASSUME Core, op # NoOp, op.stage \in {"open", "seek"}
  PROVE  /\ op.kind = "prepare" /\ worker.pending = <<>> /\ out = <<>> /\ queue = <<>>
         /\ worker.norm = NewNormalizer /\ position.sent = op.resume /\ source # None
         /\ (op.resume > 0 => worker.current = op.video) /\ op.limit = SourceTarget /\ ~ended
         /\ GoodSource(source) /\ Waiting = <<>> /\ ~source.mixed
         /\ source.packets = Kept(1..source.parsed, op.resume)
<1>1. /\ op.kind = "prepare" /\ worker.pending = <<>> /\ out = <<>> /\ queue = <<>>
      /\ worker.norm = NewNormalizer /\ position.sent = op.resume /\ source # None
      /\ (op.resume > 0 => worker.current = op.video) /\ op.limit = SourceTarget /\ ~ended
      /\ ~source.mixed
  BY Zenon DEF Core, CallInv
<1>2. GoodSource(source)
  BY Zenon, <1>1, SourceGood DEF Core
<1>3. Waiting = <<>>
  BY <1>1 DEF Waiting
<1>4. worker.norm.next = None
  BY <1>1 DEF NewNormalizer
<1>5. source.packets = Kept(1..source.parsed, op.resume)
  BY Zenon, <1>1, <1>4 DEF Core, NormInv
<1> QED
  BY Zenon, <1>1, <1>2, <1>3, <1>5

\* An error of open_from_position, before anything was queued.
LEMMA OpenFailedCore ==
  ASSUME Core, op # NoOp, op.stage \in {"open", "seek"}, NEW err, OpenFailed(err)
  PROVE  Core'
<1>1. /\ op.kind = "prepare" /\ worker.pending = <<>> /\ out = <<>> /\ queue = <<>>
      /\ worker.norm = NewNormalizer /\ position.sent = op.resume /\ source # None
      /\ (op.resume > 0 => worker.current = op.video) /\ op.limit = SourceTarget /\ ~ended
      /\ Waiting = <<>>
  BY Zenon, OpeningFacts
<1>2. CASE Fail
  BY Zenon, <1>1, <1>2, FailCore
<1>3. ASSUME op' = [op EXCEPT !.via = IF @ = "reopen" THEN "first" ELSE "second",
                              !.stage = "resolve"],
             source' = None, UNCHANGED <<worker, position, out, queue, ended>>
      PROVE  Core'
  <2>1. op \in Ops /\ TypeOK
    BY Zenon DEF Core, TypeOK
  <2>2. op' \in Ops /\ op' # NoOp
    <3>1. op' \in Ops
      BY Zenon, <1>3, <2>1 DEF Ops
    <3> QED
      BY Zenon, <3>1, OpIsNotNoOp
  <2>3. /\ op'.kind = "prepare" /\ op'.video = op.video /\ op'.limit = SourceTarget
        /\ op'.resume = op.resume /\ op'.stage = "resolve"
    BY Zenon, <1>1, <1>3, <2>1 DEF Ops
  <2>4. TypeOK'
    BY Zenon, <1>3, <2>1, <2>2 DEF TypeOK
  <2>5. BytesContiguous' /\ StreamInv' /\ NormInv'
    BY Zenon, <1>3 DEF BytesContiguous, StreamInv, NormInv
  <2>6. Len(out) = 0 /\ SourceTarget \in Nat
    BY Zenon, <1>1, LayoutAssumption
  <2>7. CallInv'
    BY <1>1, <1>3, <2>2, <2>3, <2>6 DEF CallInv
  <2>8. Waiting' = <<>>
    BY Zenon, <1>1, <1>3 DEF Waiting
  <2>9. LineInv' /\ AudioInv'
    BY Zenon, <1>3, <2>8, LineEmpty
  <2>10. PositionOfCurrent' /\ OwnerInv' /\ EndedInv'
    BY Zenon, <1>1, <1>3 DEF Core, PositionOfCurrent, OwnerInv, EndedInv
  <2> QED
    BY Zenon, <2>4, <2>5, <2>7, <2>9, <2>10 DEF Core
<1> QED
  BY Zenon, <1>2, <1>3 DEF OpenFailed

\* The worker remembers a resolution and nothing else changes in it.
LEMMA RememberedFacts ==
  ASSUME TypeOK, NEW v \in Videos, NEW e \in Encodings,
         worker' = [worker EXCEPT !.lastVideo = v, !.lastEncoding = e]
  PROVE  /\ worker' \in [current : Videos \cup {None}, pending : Seq(Frames),
                 norm : [pcm : Seq(0..(TrackTicks - 1)), next : Nat \cup {None}],
                 lastVideo : Videos \cup {None}, lastEncoding : Encodings \cup {None}]
         /\ worker'.lastVideo # None => worker'.lastEncoding # None
         /\ worker'.norm = worker.norm /\ worker'.pending = worker.pending
         /\ worker'.current = worker.current
<1>1. worker \in [current : Videos \cup {None}, pending : Seq(Frames),
                 norm : [pcm : Seq(0..(TrackTicks - 1)), next : Nat \cup {None}],
                 lastVideo : Videos \cup {None}, lastEncoding : Encodings \cup {None}]
  BY Zenon DEF TypeOK
<1> QED
  BY Zenon, <1>1, NoneAssumption

\* A step of a call that reads on, or tries again, without a new byte: the
\* source keeps its packets and its place, and the call its terms.
LEMMA QuietCore ==
  ASSUME Core, op # NoOp, source # None, GoodSource(source'), source' # None,
         source'.packets = source.packets, source'.parsed = source.parsed,
         source'.stream.pos = source.stream.pos,
         UNCHANGED <<position, out, queue, ended>>,
         worker' = worker \/ \E e \in Encodings :
           worker' = [worker EXCEPT !.lastVideo = op.video, !.lastEncoding = e],
         op' \in Ops, op'.kind = op.kind, op'.video = op.video, op'.limit = op.limit,
         op'.target = op.target, op'.resume = op.resume,
         op.stage \in {"open", "seek"} => source'.mixed = source.mixed,
         \/ op'.stage = op.stage
         \/ op.stage \in {"read", "reresolve"} /\ op'.stage \in {"read", "reresolve"}
         \/ /\ op.stage = "loop" /\ op'.stage = "read" /\ source.packets = {}
            /\ worker.pending = <<>> /\ Len(out) < op.limit /\ Len(out) < op.target
  PROVE  Core' /\ Steady
<1>1. TypeOK /\ op.video \in Videos
  BY Zenon, OpFacts DEF Core
<1>2. op' # NoOp
  BY Zenon, OpIsNotNoOp
<1>3. /\ worker' \in [current : Videos \cup {None}, pending : Seq(Frames),
                 norm : [pcm : Seq(0..(TrackTicks - 1)), next : Nat \cup {None}],
                 lastVideo : Videos \cup {None}, lastEncoding : Encodings \cup {None}]
      /\ worker'.lastVideo # None => worker'.lastEncoding # None
      /\ worker'.norm = worker.norm /\ worker'.pending = worker.pending
      /\ worker'.current = worker.current
  <2>1. CASE worker' = worker
    BY Zenon, <1>1, <2>1 DEF TypeOK
  <2>2. CASE \E e \in Encodings :
               worker' = [worker EXCEPT !.lastVideo = op.video, !.lastEncoding = e]
    BY Zenon, <1>1, <2>2, RememberedFacts
  <2> QED
    BY Zenon, <2>1, <2>2
<1>4. BytesContiguous' /\ StreamInv' /\ source' \in Sources \cup {None}
  BY Zenon, SourceStaysGood
<1>5. TypeOK'
  BY Zenon, <1>1, <1>3, <1>4 DEF TypeOK
<1>6. CallInv'
  <2>1. CallInv
    BY Zenon DEF Core
  <2>2. /\ ~ended' /\ Len(out') <= op'.limit
        /\ op'.kind = "prepare" => /\ queue' = <<>> /\ op'.limit = SourceTarget
                                   /\ op'.resume > 0 => worker'.current = op'.video
    BY Zenon, <1>3, <2>1 DEF CallInv
  <2>3. op'.kind = "refill" =>
            /\ op'.target = op'.limit /\ op'.limit + Len(queue') <= SourceTarget
            /\ worker'.norm.next # None
            /\ op'.stage \in {"loop", "read", "reresolve", "return"}
    BY Zenon, <1>3, <2>1 DEF CallInv
  <2>4. /\ op'.stage # "resolve"
        /\ op'.stage \in {"resolve", "open", "seek"} =>
            /\ op'.kind = "prepare" /\ worker'.pending = <<>> /\ out' = <<>>
            /\ worker'.norm = NewNormalizer /\ position'.sent = op'.resume
        /\ op'.stage \in {"open", "seek"} => ~source'.mixed
    BY Zenon, <1>3, <2>1 DEF CallInv
  <2>5. /\ op'.stage \in {"read", "reresolve"} =>
            /\ source'.packets = {} /\ worker'.pending = <<>>
            /\ Len(out') < op'.limit /\ Len(out') < op'.target
        /\ op'.stage = "return" =>
            /\ source'.packets = {} /\ worker'.pending = <<>> /\ worker'.norm.pcm = <<>>
            /\ source'.stream.pos = ResourceEnd
    BY Zenon, <1>3, <2>1 DEF CallInv
  <2> QED
    BY Zenon, <1>2, <2>2, <2>3, <2>4, <2>5 DEF CallInv
<1>7. NormInv'
  <2>1. NormInv
    BY ZenonT(60) DEF Core
  <2>2. op'.stage \in {"open", "seek"} <=> op.stage \in {"open", "seek"}
    BY ZenonT(60)
  <2>3. CASE NormFresh
    <3>1. NormFresh'
      BY Zenon, <1>2, <1>3, <2>2, <2>3 DEF NormFresh
    <3> QED
      BY Zenon, <3>1, NormNext
  <2>4. CASE NormGoing
    <3>1. NormGoing'
      BY ZenonT(60), <1>3, <2>4 DEF NormGoing
    <3> QED
      BY Zenon, <3>1, NormNext
  <2>5. CASE NormDone
    <3>1. NormDone'
      BY Zenon, <1>3, <2>5 DEF NormDone
    <3> QED
      BY Zenon, <3>1, NormNext
  <2> QED
    BY Zenon, <2>1, <2>3, <2>4, <2>5, NormCases
<1>8. Waiting' = Waiting
  BY Zenon, <1>3 DEF Waiting
<1>9. Exhausted => Exhausted'
  BY Zenon, <1>3 DEF Exhausted
<1>10. LineInv' /\ AudioInv' /\ Steady
  BY Zenon, <1>3, <1>8, <1>9, LineKept, AudioKept DEF Core
<1>11. PositionOfCurrent' /\ EndedInv'
  BY Zenon, <1>3 DEF Core, PositionOfCurrent, EndedInv
<1>12. OwnerInv'
  BY Zenon, <1>2, <1>3 DEF Core, OwnerInv
<1> QED
  BY Zenon, <1>4, <1>5, <1>6, <1>7, <1>10, <1>11, <1>12 DEF Core

\* open_from_position returns a source.
LEMMA SourceOpenedCore ==
  ASSUME Core, op # NoOp, op.stage \in {"open", "seek"},
         NEW src, GoodSource(src), src # None,
         src.packets = Kept(1..src.parsed, op.resume),
         src.packets # {} \/ src.stream.pos = ResourceEnd, SourceOpened(src)
  PROVE  Core'
<1>1. /\ op.kind = "prepare" /\ worker.pending = <<>> /\ out = <<>> /\ queue = <<>>
      /\ worker.norm = NewNormalizer /\ position.sent = op.resume /\ source # None
      /\ (op.resume > 0 => worker.current = op.video) /\ op.limit = SourceTarget /\ ~ended
  BY Zenon, OpeningFacts
<1>2. CASE TimestampTicks(src) < op.resume
  <2>1. OpenFailed("detail")
    BY Zenon, <1>2 DEF SourceOpened
  <2> QED
    BY Zenon, <2>1, OpenFailedCore
<1>3. CASE ~(TimestampTicks(src) < op.resume)
  <2>1. /\ source' = src /\ position' = [sent |-> op.resume, of |-> op.video]
        /\ worker' = IF op.via = "reopen" THEN worker
                     ELSE [worker EXCEPT !.lastVideo = op.video, !.lastEncoding = src.encoding]
        /\ op' = [op EXCEPT !.stage = "loop"]
        /\ UNCHANGED <<out, queue, ended>>
    BY Zenon, <1>3 DEF SourceOpened
  <2>2. op \in Ops /\ TypeOK /\ op.video \in Videos /\ src.encoding \in Encodings
    BY Zenon, OpFacts DEF Core, TypeOK, GoodSource, Sources
  <2>3. op' \in Ops /\ op' # NoOp
    <3>1. op' \in Ops
      BY Zenon, <2>1, <2>2 DEF Ops
    <3> QED
      BY Zenon, <3>1, OpIsNotNoOp
  <2>4. /\ op'.kind = "prepare" /\ op'.video = op.video /\ op'.limit = SourceTarget
        /\ op'.resume = op.resume /\ op'.stage = "loop"
    BY Zenon, <1>1, <2>1, <2>2 DEF Ops
  <2>5. /\ worker' \in [current : Videos \cup {None}, pending : Seq(Frames),
                 norm : [pcm : Seq(0..(TrackTicks - 1)), next : Nat \cup {None}],
                 lastVideo : Videos \cup {None}, lastEncoding : Encodings \cup {None}]
        /\ worker'.lastVideo # None => worker'.lastEncoding # None
        /\ worker'.norm = worker.norm /\ worker'.pending = worker.pending
        /\ worker'.current = worker.current
    <3>1. CASE op.via = "reopen"
      BY Zenon, <2>1, <2>2, <3>1 DEF TypeOK
    <3>2. CASE op.via # "reopen"
      <4>1. worker' = [worker EXCEPT !.lastVideo = op.video, !.lastEncoding = src.encoding]
        BY Zenon, <2>1, <3>2
      <4> QED
        BY Zenon, <2>2, <4>1, RememberedFacts
    <3> QED
      BY Zenon, <3>1, <3>2
  <2>6. BytesContiguous' /\ StreamInv' /\ source' \in Sources \cup {None}
    BY Zenon, <2>1, SourceStaysGood
  <2>7. position' \in [sent : 0..(2 * TrackTicks + FrameTicks), of : Videos \cup {None}]
        /\ position'.sent = op.resume /\ position'.of = op.video
    <3>1. position.sent \in 0..(2 * TrackTicks + FrameTicks)
      BY Zenon, <2>2 DEF TypeOK
    <3> QED
      BY Zenon, <1>1, <2>1, <2>2, <3>1
  <2>8. TypeOK'
    BY Zenon, <2>1, <2>2, <2>3, <2>5, <2>6, <2>7 DEF TypeOK
  <2>9. Len(out) = 0 /\ SourceTarget \in Nat
    BY Zenon, <1>1, LayoutAssumption
  <2>10. CallInv'
    BY <1>1, <2>1, <2>3, <2>4, <2>5, <2>9 DEF CallInv
  <2>11. NormInv'
    BY Zenon, <1>1, <2>1, <2>3, <2>4, <2>5, <2>7 DEF NormInv
  <2>12. Waiting' = <<>>
    BY <1>1, <2>1, <2>5 DEF Waiting
  <2>13. worker'.norm.next = None
    BY <1>1, <2>5 DEF NewNormalizer
  <2>14. LineInv' /\ AudioInv'
    BY Zenon, <2>12, <2>13, LineEmpty
  <2>15. PositionOfCurrent' /\ OwnerInv' /\ EndedInv'
    BY Zenon, <1>1, <2>1, <2>3, <2>4, <2>5, <2>7 DEF PositionOfCurrent, OwnerInv, EndedInv
  <2> QED
    BY Zenon, <2>6, <2>8, <2>10, <2>11, <2>14, <2>15 DEF Core
<1> QED
  BY Zenon, <1>2, <1>3

\* Packets that are skipped before a chunk and in it are skipped in all.
LEMMA KeptGrows ==
  ASSUME NEW p \in Nat, NEW q \in Nat, p <= q, NEW resume
  PROVE  Kept(1..p, resume) \cup Kept((p + 1)..q, resume) = Kept(1..q, resume)
<1>1. 1..q = (1..p) \cup ((p + 1)..q)
  OBVIOUS
<1> QED
  BY Zenon, <1>1 DEF Kept

\* One turn of open_from_position.
LEMMA OpenReadCore ==
  ASSUME Core, OpenRead
  PROVE  Core'
<1>1. op # NoOp /\ op.stage \in {"open", "seek"}
  BY Zenon DEF OpenRead
<1>2. /\ op.kind = "prepare" /\ worker.pending = <<>> /\ out = <<>> /\ queue = <<>>
      /\ worker.norm = NewNormalizer /\ position.sent = op.resume /\ source # None
      /\ (op.resume > 0 => worker.current = op.video) /\ op.limit = SourceTarget /\ ~ended
      /\ GoodSource(source) /\ Waiting = <<>> /\ ~source.mixed
      /\ source.packets = Kept(1..source.parsed, op.resume)
  BY Zenon, <1>1, OpeningFacts
<1>3. PICK o \in ReadTurn(source.stream) :
         LET src == [source EXCEPT !.stream = o.s]
             fed == [Fed(source, o) EXCEPT
                     !.packets = @ \cup Kept(Drained(source, o), op.resume)] IN
         \/ /\ o.res = "again" /\ source' = src
            /\ UNCHANGED <<worker, position, op, out, queue, ended>>
         \/ /\ o.res = "chunk"
            /\ IF fed.packets = {} \/ TimestampTicks(fed) < op.resume
                 THEN /\ source' = fed /\ op' = [op EXCEPT !.stage = "seek"]
                      /\ UNCHANGED <<worker, position, out, queue, ended>>
                 ELSE SourceOpened(fed)
         \/ /\ o.res = "end"
            /\ IF op.stage = "open" THEN OpenFailed("detail") ELSE SourceOpened(src)
         \/ o.res = "timeout" /\ OpeningTimeout
         \/ /\ o.res \in {"stale", "http", "detail"}
            /\ OpenFailed(o.res)
  BY Zenon DEF OpenRead
<1> DEFINE src == [source EXCEPT !.stream = o.s]
           fed == [Fed(source, o) EXCEPT
                     !.packets = @ \cup Kept(Drained(source, o), op.resume)]
<1>4. GoodTurn(source.stream, o)
  BY Zenon, <1>2, ReadTurnGood DEF GoodSource
<1>5. o.res # "chunk" =>
        /\ GoodSource(src) /\ src # None /\ src.parsed = source.parsed
        /\ src.packets = source.packets /\ src.stream.pos = source.stream.pos
        /\ src.mixed = source.mixed
  BY <1>2, <1>4, MovedGood
<1>6. o.res = "chunk" =>
        /\ GoodSource(fed) /\ fed # None /\ ~fed.mixed
        /\ fed.packets = Kept(1..fed.parsed, op.resume)
  <2> SUFFICES ASSUME o.res = "chunk"
               PROVE  /\ GoodSource(fed) /\ fed # None /\ ~fed.mixed
                      /\ fed.packets = Kept(1..fed.parsed, op.resume)
    OBVIOUS
  <2>1. Kept(Drained(source, o), op.resume) \subseteq Drained(source, o)
    BY Zenon DEF Kept
  <2>2. /\ GoodSource(fed) /\ fed # None
        /\ fed.packets = source.packets \cup Kept(Drained(source, o), op.resume)
        /\ Drained(source, o) = (source.parsed + 1)..fed.parsed /\ source.parsed <= fed.parsed
        /\ fed.mixed = source.mixed
    <3>1. FedFrom(source, o, Kept(Drained(source, o), op.resume), fed)
      BY Zenon, <1>2, <1>4, <2>1, FedGood
    <3> QED
      BY Zenon, <3>1 DEF FedFrom
  <2> HIDE DEF fed
  <2>3. source.parsed \in Nat /\ fed.parsed \in Nat
    BY SMTT(60), <1>2, <2>2, StartFacts DEF GoodSource, Sources
  <2>4. /\ Kept(1..source.parsed, op.resume) \cup Kept((source.parsed + 1)..fed.parsed, op.resume)
             = Kept(1..fed.parsed, op.resume)
    BY <2>2, <2>3, KeptGrows
  <2> QED
    BY Zenon, <1>2, <2>2, <2>4
<1>7. \/ /\ o.res = "again" /\ source' = src
         /\ UNCHANGED <<worker, position, op, out, queue, ended>>
      \/ /\ o.res = "chunk" /\ source' = fed /\ op' = [op EXCEPT !.stage = "seek"]
         /\ UNCHANGED <<worker, position, out, queue, ended>>
      \/ o.res = "chunk" /\ fed.packets # {} /\ SourceOpened(fed)
      \/ o.res = "end" /\ SourceOpened(src)
      \/ o.res = "timeout" /\ OpeningTimeout
      \/ \E err : OpenFailed(err)
  BY Zenon, <1>3
<1> HIDE DEF src, fed
<1>8. op \in Ops /\ TypeOK
  BY Zenon, <1>1 DEF Core, TypeOK
<1>9. CASE /\ o.res = "again" /\ source' = src
           /\ UNCHANGED <<worker, position, op, out, queue, ended>>
  BY Zenon, <1>1, <1>2, <1>5, <1>8, <1>9, QuietCore
<1>10. CASE /\ o.res = "chunk" /\ source' = fed /\ op' = [op EXCEPT !.stage = "seek"]
            /\ UNCHANGED <<worker, position, out, queue, ended>>
  <2>1. op' \in Ops /\ op' # NoOp
    <3>1. op' \in Ops
      BY Zenon, <1>8, <1>10 DEF Ops
    <3> QED
      BY Zenon, <3>1, OpIsNotNoOp
  <2>2. /\ op'.kind = "prepare" /\ op'.video = op.video /\ op'.limit = SourceTarget
        /\ op'.resume = op.resume /\ op'.stage = "seek"
    BY Zenon, <1>2, <1>8, <1>10 DEF Ops
  <2>3. GoodSource(source') /\ source' # None /\ ~source'.mixed
        /\ source'.packets = Kept(1..source'.parsed, op.resume)
    BY Zenon, <1>6, <1>10
  <2>4. BytesContiguous' /\ StreamInv' /\ source' \in Sources \cup {None}
    BY Zenon, <2>3, SourceStaysGood
  <2>5. TypeOK'
    BY Zenon, <1>8, <1>10, <2>1, <2>4 DEF TypeOK
  <2>6. Len(out) = 0 /\ SourceTarget \in Nat
    BY Zenon, <1>2, LayoutAssumption
  <2>7. CallInv'
    BY <1>2, <1>10, <2>1, <2>2, <2>3, <2>6 DEF CallInv
  <2>8. NormInv'
    BY Zenon, <1>2, <1>10, <2>1, <2>2, <2>3 DEF NormInv
  <2>9. Waiting' = <<>>
    BY Zenon, <1>2, <1>10 DEF Waiting
  <2>10. worker'.norm.next = None
    BY <1>2, <1>10 DEF NewNormalizer
  <2>11. LineInv' /\ AudioInv'
    BY Zenon, <2>9, <2>10, LineEmpty
  <2>12. PositionOfCurrent' /\ OwnerInv' /\ EndedInv'
    BY Zenon, <1>2, <1>10, <2>1, <2>2 DEF Core, PositionOfCurrent, OwnerInv, EndedInv
  <2> QED
    BY Zenon, <2>4, <2>5, <2>7, <2>8, <2>11, <2>12 DEF Core
<1>11. CASE o.res = "chunk" /\ fed.packets # {} /\ SourceOpened(fed)
  BY Zenon, <1>1, <1>6, <1>11, SourceOpenedCore
<1>12. CASE o.res = "end" /\ SourceOpened(src)
  <2>1. src.stream.pos = ResourceEnd
    BY Zenon, <1>4, <1>5, <1>12 DEF GoodTurn
  <2> QED
    BY Zenon, <1>1, <1>2, <1>5, <1>12, <2>1, SourceOpenedCore
<1>13. CASE \E err : OpenFailed(err)
  BY Zenon, <1>1, <1>13, OpenFailedCore
<1>14. CASE o.res = "timeout" /\ OpeningTimeout
  <2>1. CASE /\ op' = [op EXCEPT !.tries = 2]
             /\ UNCHANGED <<worker, position, source, out, queue, ended>>
    <3>1. op' \in Ops
      BY <1>8, <2>1 DEF Ops
    <3>2. /\ op'.kind = op.kind /\ op'.video = op.video /\ op'.limit = op.limit
          /\ op'.target = op.target /\ op'.resume = op.resume /\ op'.stage = op.stage
      BY Zenon, <1>8, <2>1 DEF Ops
    <3> QED
      BY Zenon, <1>1, <1>2, <2>1, <3>1, <3>2, QuietCore
  <2> QED
    BY Zenon, <1>1, <1>14, <2>1, OpenFailedCore DEF OpeningTimeout
<1> QED
  BY Zenon, <1>7, <1>9, <1>10, <1>11, <1>12, <1>13, <1>14

\* A call that returns its frames.
LEMMA FilledCore ==
  ASSUME Core, op # NoOp, Filled,
         \/ op.stage = "return"
         \/ op.stage = "loop" /\ (Len(out) >= op.target \/ Room(out) <= 0)
  PROVE  Core' /\ Steady
<1>1. /\ TypeOK /\ op \in Ops /\ op.kind \in {"prepare", "refill"} /\ op.video \in Videos
      /\ op.limit \in Nat \ {0} /\ op.target \in Nat \ {0} /\ source # None
  BY Zenon, OpFacts DEF Core, TypeOK, CallInv
<1>2. /\ queue \in Seq(Frames) /\ out \in Seq(Frames) /\ worker.pending \in Seq(Frames)
      /\ Len(out) \in Nat /\ Len(queue) \in Nat /\ <<>> \in Seq(Frames)
  BY <1>1, TypeFacts
<1>3. op.stage = "loop" => out # <<>> /\ (op.kind = "refill" => Len(out) >= op.target)
  <2> SUFFICES ASSUME op.stage = "loop"
               PROVE  out # <<>> /\ (op.kind = "refill" => Len(out) >= op.target)
    OBVIOUS
  <2>1. Len(out) >= op.target \/ Len(out) >= op.limit
    BY <1>1, <1>2 DEF Room
  <2>2. op.kind = "refill" => op.target = op.limit
    BY Zenon DEF Core, CallInv
  <2>3. Len(out) # 0
    BY <1>1, <2>1
  <2> QED
    BY <1>2, <2>1, <2>2, <2>3
<1>4. CASE op.kind = "prepare" /\ out = <<>>
  <2>1. worker.pending = <<>>
    BY Zenon, <1>3, <1>4 DEF Core, CallInv
  <2>2. Fail
    BY Zenon, <1>4 DEF Filled
  <2> QED
    BY Zenon, <2>1, <2>2, FailCore
<1>5. CASE ~(op.kind = "prepare" /\ out = <<>>)
  <2>1. /\ queue' = queue \o out /\ out' = <<>> /\ op' = NoOp
        /\ worker' = IF op.kind = "prepare"
                      THEN [worker EXCEPT !.current = op.video] ELSE worker
        /\ ended' = (op.kind = "refill" /\ ReachedEndOfStream)
        /\ UNCHANGED <<position, source>>
    BY Zenon, <1>5 DEF Filled
  <2>2. /\ worker' \in [current : Videos \cup {None}, pending : Seq(Frames),
                 norm : [pcm : Seq(0..(TrackTicks - 1)), next : Nat \cup {None}],
                 lastVideo : Videos \cup {None}, lastEncoding : Encodings \cup {None}]
        /\ worker'.lastVideo = worker.lastVideo /\ worker'.lastEncoding = worker.lastEncoding
        /\ worker'.norm = worker.norm /\ worker'.pending = worker.pending
        /\ worker'.current = IF op.kind = "prepare" THEN op.video ELSE worker.current
    <3>1. worker \in [current : Videos \cup {None}, pending : Seq(Frames),
                 norm : [pcm : Seq(0..(TrackTicks - 1)), next : Nat \cup {None}],
                 lastVideo : Videos \cup {None}, lastEncoding : Encodings \cup {None}]
      BY Zenon, <1>1 DEF TypeOK
    <3> QED
      BY Zenon, <1>1, <2>1, <3>1
  <2>3. queue' \in Seq(Frames)
    BY <1>2, <2>1
  <2>4. ended' \in BOOLEAN
    BY Zenon, <2>1
  <2>5. TypeOK'
    <3>1. worker.lastVideo # None => worker.lastEncoding # None
      BY Zenon, <1>1 DEF TypeOK
    <3> QED
      BY Zenon, <1>1, <1>2, <2>1, <2>2, <2>3, <2>4, <3>1 DEF TypeOK
  <2>6. BytesContiguous' /\ StreamInv'
    BY Zenon, <2>1 DEF Core, BytesContiguous, StreamInv
  <2>7. worker.norm.next # None
    <3>1. op.kind = "refill" => worker.norm.next # None
      BY Zenon DEF Core, CallInv
    <3>2. out # <<>> => worker.norm.next # None
      BY Zenon, <1>1 DEF Core, NormInv
    <3> QED
      BY Zenon, <1>1, <1>5, <3>1, <3>2
  <2>8. CallInv'
    BY Zenon, <1>1, <2>1, <2>2, <2>7 DEF CallInv
  <2>9. NormInv'
    <3>1. NormInv /\ worker.norm # NewNormalizer
      BY <2>7 DEF Core, NewNormalizer
    <3> QED
      BY Zenon, <1>1, <2>1, <2>2, <3>1 DEF NormInv
  <2>10. Waiting' = Waiting
    <3>1. Waiting' = ((queue \o out) \o <<>>) \o worker.pending
      BY Zenon, <2>1, <2>2 DEF Waiting
    <3>2. (queue \o out) \o <<>> = queue \o out
      BY <1>2
    <3> QED
      BY Zenon, <3>1, <3>2 DEF Waiting
  <2>11. Exhausted => Exhausted'
    BY Zenon, <2>1, <2>2 DEF Exhausted
  <2>12. LineInv' /\ AudioInv' /\ Steady
    BY Zenon, <1>1, <2>1, <2>2, <2>10, <2>11, LineKept, AudioKept DEF Core
  <2>13. position.of = worker'.current /\ worker'.current # None
    <3>1. /\ op.stage \notin {"open", "seek"} => position.of = op.video
          /\ op.kind = "refill" => position.of = worker.current /\ worker.current = op.video
      BY Zenon, <1>1 DEF Core, OwnerInv
    <3> QED
      BY Zenon, <1>1, <2>2, <3>1, NoneAssumption
  <2>14. PositionOfCurrent' /\ OwnerInv'
    BY Zenon, <2>1, <2>13 DEF PositionOfCurrent, OwnerInv
  <2>15. EndedInv'
    <3>1. ASSUME ended'
          PROVE  op.stage = "return"
      <4>1. op.kind = "refill" /\ (out = <<>> \/ Len(out) < op.target)
        BY Zenon, <2>1, <3>1 DEF ReachedEndOfStream
      <4> QED
        BY <1>1, <1>2, <1>3, <4>1
    <3>2. op.stage = "return" =>
            /\ source.packets = {} /\ worker.pending = <<>> /\ worker.norm.pcm = <<>>
            /\ source.stream.pos = ResourceEnd
      BY Zenon DEF Core, CallInv
    <3> QED
      BY Zenon, <1>1, <2>1, <2>2, <3>1, <3>2 DEF EndedInv
  <2> QED
    BY Zenon, <2>5, <2>6, <2>8, <2>9, <2>12, <2>14, <2>15 DEF Core
<1> QED
  BY Zenon, <1>4, <1>5

\* The smaller of the room and what there is.
LEMMA SmallerFacts ==
  ASSUME NEW a \in Int, NEW b \in Nat, a >= 0
  PROVE  /\ Smaller(a, b) \in 0..b /\ Smaller(a, b) <= a
         /\ b <= a => Smaller(a, b) = b
  BY DEF Smaller

\* drain_pending_frames moves frames from one part of the line to another.
LEMMA DrainCore ==
  ASSUME Core, op # NoOp, op.stage = "loop",
         NEW n, n = Smaller(Room(out), Len(worker.pending)), n > 0,
         ~(Len(out) >= op.target \/ Room(out) <= 0),
         out' = out \o SubSeq(worker.pending, 1, n),
         worker' = [worker EXCEPT !.pending = SubSeq(worker.pending, n + 1, Len(worker.pending))],
         UNCHANGED <<position, source, op, queue, ended>>
  PROVE  Core' /\ Steady
<1>1. /\ TypeOK /\ op \in Ops /\ op.limit \in Nat \ {0} /\ op.target \in Nat \ {0}
      /\ source # None
  BY Zenon, OpFacts DEF Core, TypeOK, CallInv
<1>2. /\ queue \in Seq(Frames) /\ out \in Seq(Frames) /\ worker.pending \in Seq(Frames)
      /\ Len(out) \in Nat /\ Len(worker.pending) \in Nat
  BY SMTT(60), <1>1, TypeFacts
<1>3. Room(out) \in Int /\ Room(out) >= 0 /\ Room(out) = op.limit - Len(out)
  BY SMTT(60), <1>1, <1>2 DEF Room
<1>4. n \in 0..Len(worker.pending) /\ n <= Room(out)
  BY Zenon, <1>2, <1>3, SmallerFacts
<1>5. worker \in [current : Videos \cup {None}, pending : Seq(Frames),
                 norm : [pcm : Seq(0..(TrackTicks - 1)), next : Nat \cup {None}],
                 lastVideo : Videos \cup {None}, lastEncoding : Encodings \cup {None}]
  BY Zenon, <1>1 DEF TypeOK
<1>6. /\ worker'.pending = SubSeq(worker.pending, n + 1, Len(worker.pending))
      /\ worker'.norm = worker.norm /\ worker'.current = worker.current
      /\ worker'.lastVideo = worker.lastVideo /\ worker'.lastEncoding = worker.lastEncoding
  BY Zenon, <1>5
<1>7. /\ out' \in Seq(Frames) /\ worker'.pending \in Seq(Frames)
      /\ Len(out') = Len(out) + n
      /\ (queue \o out') \o worker'.pending = (queue \o out) \o worker.pending
  <2>1. Rejoined(queue, out, worker.pending, n, out', worker'.pending)
    BY Zenon, <1>2, <1>4, <1>6, SplitJoined
  <2> QED
    BY Zenon, <2>1 DEF Rejoined
<1>8. worker' \in [current : Videos \cup {None}, pending : Seq(Frames),
                 norm : [pcm : Seq(0..(TrackTicks - 1)), next : Nat \cup {None}],
                 lastVideo : Videos \cup {None}, lastEncoding : Encodings \cup {None}]
  BY Zenon, <1>5, <1>6, <1>7
<1>9. TypeOK'
  BY Zenon, <1>1, <1>6, <1>7, <1>8 DEF TypeOK
<1>10. BytesContiguous' /\ StreamInv'
  BY Zenon DEF Core, BytesContiguous, StreamInv
<1>11. Len(out') <= op.limit
  BY <1>1, <1>2, <1>3, <1>4, <1>7
<1>12. CallInv'
  BY Zenon, <1>1, <1>6, <1>11 DEF Core, CallInv
<1>13. worker.pending # <<>>
  BY <1>2, <1>4
<1>14. NormInv'
  BY Zenon, <1>1, <1>6, <1>13 DEF Core, NormInv
<1>15. Waiting' = Waiting
  BY Zenon, <1>7 DEF Waiting
<1>16. Exhausted => Exhausted'
  BY Zenon, <1>6 DEF Exhausted
<1>17. LineInv' /\ AudioInv' /\ Steady
  BY Zenon, <1>1, <1>6, <1>15, <1>16, LineKept, AudioKept DEF Core
<1>18. PositionOfCurrent' /\ OwnerInv' /\ EndedInv'
  BY Zenon, <1>1, <1>6 DEF Core, PositionOfCurrent, OwnerInv, EndedInv, CallInv
<1> QED
  BY Zenon, <1>9, <1>10, <1>12, <1>14, <1>17, <1>18 DEF Core

\* What buffering leaves.
Buffered(r) ==
  /\ worker' \in [current : Videos \cup {None}, pending : Seq(Frames),
                 norm : [pcm : Seq(0..(TrackTicks - 1)), next : Nat \cup {None}],
                 lastVideo : Videos \cup {None}, lastEncoding : Encodings \cup {None}]
  /\ worker'.lastVideo = worker.lastVideo /\ worker'.lastEncoding = worker.lastEncoding
  /\ worker'.norm = r.norm /\ worker'.current = worker.current
  /\ out' \in Seq(Frames) /\ worker'.pending \in Seq(Frames)
  /\ Len(out') \in Nat /\ Len(out') <= op.limit
  /\ (queue \o out') \o worker'.pending = Waiting \o r.frames
  /\ Len(out) + Len(r.frames) <= op.limit => worker'.pending = <<>>

\* enqueue_frames: the frames join the line, none is dropped, and with enough
\* room none has to wait.
LEMMA BufferFacts ==
  ASSUME TypeOK, op # NoOp, worker.pending = <<>>, Len(out) <= op.limit,
         NEW r, r.frames \in Seq(Frames),
         r.norm \in [pcm : Seq(0..(TrackTicks - 1)), next : Nat \cup {None}], Buffer(r)
  PROVE  Buffered(r)
<1> DEFINE n == Smaller(Room(out), Len(r.frames))
           rest == SubSeq(r.frames, n + 1, Len(r.frames))
<1>1. op.limit \in Nat \ {0} /\ op.target \in Nat \ {0}
  BY Zenon, OpFacts
<1>2. /\ queue \in Seq(Frames) /\ out \in Seq(Frames)
      /\ Len(out) \in Nat /\ Len(r.frames) \in Nat
  BY TypeFacts
<1>3. Room(out) \in Int /\ Room(out) >= 0 /\ Room(out) = op.limit - Len(out)
  BY <1>1, <1>2 DEF Room
<1>4. /\ n \in 0..Len(r.frames) /\ n <= Room(out)
      /\ Len(r.frames) <= Room(out) => n = Len(r.frames)
  BY Zenon, <1>2, <1>3, SmallerFacts
<1>5. /\ out' = out \o SubSeq(r.frames, 1, n)
      /\ worker' = [worker EXCEPT !.norm = r.norm, !.pending = worker.pending \o rest]
  BY Zenon DEF Buffer, Enqueued
<1> HIDE DEF n
<1>6. /\ out' \in Seq(Frames) /\ rest \in Seq(Frames)
      /\ Len(out') = Len(out) + n /\ Len(rest) = Len(r.frames) - n
      /\ (queue \o out') \o rest = (queue \o out) \o r.frames
  <2>1. Rejoined(queue, out, r.frames, n, out', rest)
    BY Zenon, <1>2, <1>4, <1>5, SplitJoined
  <2> QED
    BY Zenon, <2>1 DEF Rejoined
<1> HIDE DEF rest
<1>7. worker.pending \o rest = rest
  BY <1>6
<1>8. worker \in [current : Videos \cup {None}, pending : Seq(Frames),
                 norm : [pcm : Seq(0..(TrackTicks - 1)), next : Nat \cup {None}],
                 lastVideo : Videos \cup {None}, lastEncoding : Encodings \cup {None}]
  BY Zenon DEF TypeOK
<1>9. /\ worker'.pending = rest /\ worker'.norm = r.norm /\ worker'.current = worker.current
      /\ worker'.lastVideo = worker.lastVideo /\ worker'.lastEncoding = worker.lastEncoding
  BY Zenon, <1>5, <1>7, <1>8
<1>10. worker' \in [current : Videos \cup {None}, pending : Seq(Frames),
                 norm : [pcm : Seq(0..(TrackTicks - 1)), next : Nat \cup {None}],
                 lastVideo : Videos \cup {None}, lastEncoding : Encodings \cup {None}]
  BY Zenon, <1>5, <1>6, <1>7, <1>8
<1>11. Waiting = queue \o out
  BY <1>2 DEF Waiting
<1>12. Len(out') \in Nat /\ Len(out') <= op.limit
  BY SMTT(60), <1>1, <1>2, <1>3, <1>4, <1>6
<1>13. Len(out) + Len(r.frames) <= op.limit => rest = <<>>
  BY SMTT(60), <1>1, <1>2, <1>3, <1>4, <1>6
<1> QED
  BY Zenon, <1>6, <1>9, <1>10, <1>11, <1>12, <1>13 DEF Buffered

\* Where the line goes on: the frames a packet or the flush adds follow the
\* ones that wait.
LEMMA LineGrows ==
  ASSUME Core, source # None, source' # None, UNCHANGED <<position, queue>>,
         worker.norm.next # None, worker'.norm.next # None,
         NEW fs, NEW padded, GoodFrames(fs, worker.norm.next, padded), ~Exhausted,
         Waiting' = Waiting \o fs, padded => Exhausted',
         worker'.norm.next = worker.norm.next + Len(fs) * FrameTicks
  PROVE  LineInv' /\ AudioInv' /\ Steady
<1>1. /\ Waiting \in Seq(Frames) /\ fs \in Seq(Frames)
      /\ Len(Waiting) \in Nat /\ Len(fs) \in Nat /\ FrameTicks \in Nat
  BY SMTT(60), TypeFacts, LayoutAssumption DEF Core, GoodFrames
<1>2. ASSUME NEW e \in 0..(TrackTicks + FrameTicks), OnLine(e)
      PROVE  OnLine(e)'
  <2>1. e \in Nat
    OBVIOUS
  <2>2. worker.norm.next = e + Len(Waiting) * FrameTicks
    BY Zenon, <1>2 DEF OnLine
  <2>3. InLine(Waiting', e)
    BY Zenon, <1>1, <1>2, <2>1, <2>2, InLineConcat DEF OnLine, GoodFrames
  <2>4. worker'.norm.next = e + Len(Waiting') * FrameTicks
    <3>1. Len(Waiting') = Len(Waiting) + Len(fs)
      BY <1>1
    <3>2. /\ (Len(Waiting) + Len(fs)) * FrameTicks
                = (Len(Waiting) * FrameTicks) + (Len(fs) * FrameTicks)
          /\ Len(Waiting) * FrameTicks \in Nat /\ Len(fs) * FrameTicks \in Nat
      BY <1>1, ProductFacts
    <3> QED
      BY <2>1, <2>2, <3>1, <3>2
  <2>5. e <= position.sent /\ \E k \in Packets : position.sent < e + Duration(k)
    BY Zenon, <1>2 DEF OnLine
  <2> QED
    BY Zenon, <2>3, <2>4, <2>5 DEF OnLine
<1>3. LineInv' /\ Steady
  BY Zenon, <1>2 DEF Core, LineInv, Steady
<1>4. Sound(Waiting, FALSE)
  <2>1. Sound(Waiting, Exhausted)
    BY Zenon DEF Core, AudioInv
  <2>2. Exhausted => FALSE
    OBVIOUS
  <2> QED
    BY Zenon, <2>1, <2>2 DEF Sound
<1>5. Sound(Waiting', padded)
  BY Zenon, <1>1, <1>4, SoundConcat DEF GoodFrames
<1>6. Sound(Waiting', Exhausted')
  BY <1>5, SoundWeaker
<1> QED
  BY Zenon, <1>3, <1>6 DEF AudioInv

\* The packets that wait when the first one has not been pushed: it holds the
\* resume point, and all that were found from it on wait behind it.
LEMMA KeptFirst ==
  ASSUME NEW parsed \in 0..LastPacket, NEW resume \in Nat, NEW k \in Kept(1..parsed, resume),
         First(Kept(1..parsed, resume), k)
  PROVE  /\ Kept(1..parsed, resume) = k..parsed
         /\ Start[k] <= resume /\ resume < Start[k] + Duration(k)
<1>1. /\ k \in 1..parsed /\ k \in Packets /\ Start[k + 1] > resume
      /\ \A l \in 1..parsed : Start[l + 1] > resume => k <= l
  BY StartFacts DEF Kept, Overlaps, First, Packets
<1>2. parsed \in Nat /\ LastPacket \in Nat /\ parsed <= LastPacket /\ k \in Nat /\ k <= parsed
  BY <1>1, StartFacts
<1>3. Start[k + 1] = Start[k] + Duration(k) /\ Start[k] \in Nat /\ Duration(k) \in Nat
  BY Zenon, <1>1, StartFacts
<1>4. ASSUME NEW l \in k..parsed
      PROVE  Start[l + 1] > resume
  <2>1. l + 1 \in 1..(LastPacket + 1) /\ k + 1 \in 1..(LastPacket + 1) /\ l \in Nat
    BY <1>1, <1>2
  <2>2. Start[l + 1] \in Nat /\ Start[k + 1] \in Nat
    BY Zenon, <2>1, StartFacts
  <2>3. CASE l = k
    BY Zenon, <1>1, <2>3
  <2>4. CASE k < l
    <3>1. Start[k + 1] < Start[l + 1]
      BY <1>2, <2>1, <2>4, StartFacts
    <3> QED
      BY <1>1, <2>2, <3>1
  <2> QED
    BY <1>2, <2>1, <2>3, <2>4
<1>5. Kept(1..parsed, resume) = k..parsed
  <2>1. \A l \in 1..parsed : l \in k..parsed <=> Start[l + 1] > resume
    BY <1>1, <1>2, <1>4
  <2>2. k..parsed \subseteq 1..parsed
    BY <1>1, <1>2
  <2> QED
    BY Zenon, <2>1, <2>2 DEF Kept, Overlaps
<1>6. Start[k] <= resume
  <2>1. CASE k = 1
    BY <2>1, StartFacts
  <2>2. CASE k # 1
    <3>1. k - 1 \in 1..parsed /\ ~(k <= k - 1) /\ (k - 1) + 1 = k
      BY <1>1, <1>2, <2>2
    <3>2. ~(Start[(k - 1) + 1] > resume)
      BY Zenon, <1>1, <3>1
    <3> QED
      BY <1>3, <3>1, <3>2
  <2> QED
    BY Zenon, <2>1, <2>2
<1> QED
  BY Zenon, <1>1, <1>3, <1>5, <1>6

\* A packet is pushed through the normalizer.
LEMMA PushCore ==
  ASSUME Core, op # NoOp, op.stage = "loop", worker.pending = <<>>,
         NEW k \in source.packets, First(source.packets, k),
         Buffer(PushPacket(worker.norm, k)),
         source' = [source EXCEPT !.packets = @ \ {k}],
         UNCHANGED <<position, op, queue, ended>>
  PROVE  Core' /\ (worker.norm.next # None => Steady)
<1> DEFINE r == PushPacket(worker.norm, k)
           from == IF worker.norm.next = None THEN Start[k] ELSE worker.norm.next
<1>1. /\ TypeOK /\ op \in Ops /\ op.limit \in Nat \ {0} /\ op.resume \in Nat
      /\ source # None /\ Len(out) <= op.limit /\ ~ended
  BY Zenon, OpFacts DEF Core, TypeOK, CallInv
<1>2. /\ GoodSource(source) /\ source \in Sources /\ source.parsed \in 0..LastPacket
      /\ source.packets \subseteq 1..source.parsed
  BY Zenon, <1>1, SourceGood DEF Core, GoodSource, Sources
<1>3. /\ source'.packets = source.packets \ {k} /\ source'.parsed = source.parsed
      /\ source'.stream = source.stream /\ source'.fed = source.fed
      /\ source'.torn = source.torn /\ source'.mixed = source.mixed
  BY Zenon, <1>2 DEF Sources
<1>4. GoodSource(source') /\ source' # None
  <2>1. source' \in Sources
    BY Zenon, <1>2 DEF Sources
  <2> QED
    BY Zenon, <1>2, <1>3, <2>1, NoneAssumption DEF GoodSource
<1>5. k \in Packets /\ k \in 1..source.parsed /\ source.packets # {}
  BY <1>2, StartFacts DEF Packets
<1>6. worker.norm \in [pcm : Seq(0..(TrackTicks - 1)), next : Nat \cup {None}]
      /\ Waiting \in Seq(Frames) /\ queue \in Seq(Frames) /\ out \in Seq(Frames)
  BY Zenon, <1>1, TypeFacts
<1>7. ~Exhausted
  BY Zenon, <1>1, <1>5 DEF Exhausted
\* Both ways the packet continues what the normalizer holds.
<1>8. /\ source.packets = k..source.parsed
      /\ from + Len(worker.norm.pcm) = Start[k] /\ Len(worker.norm.pcm) < FrameTicks
      /\ \A i \in 1..Len(worker.norm.pcm) : worker.norm.pcm[i] = from + i - 1
      /\ worker.norm.next = None =>
           /\ Waiting = <<>> /\ Start[k] <= position.sent
           /\ position.sent < Start[k] + Duration(k)
  <2>1. CASE worker.norm.next = None
    <3>1. /\ worker.norm = NewNormalizer /\ op.kind = "prepare" /\ out = <<>>
          /\ position.sent = op.resume
          /\ source.packets = Kept(1..source.parsed, op.resume)
      BY Zenon, <1>1, <2>1 DEF Core, NormInv
    <3>2. queue = <<>>
      BY Zenon, <1>1, <3>1 DEF Core, CallInv
    <3>3. Waiting = <<>>
      BY <3>1, <3>2 DEF Waiting
    <3>4. worker.norm.pcm = <<>> /\ Len(<<>>) = 0 /\ from = Start[k]
      BY <2>1, <3>1 DEF NewNormalizer
    <3>5. /\ source.packets = k..source.parsed
          /\ Start[k] <= op.resume /\ op.resume < Start[k] + Duration(k)
      BY Zenon, <1>1, <1>2, <3>1, KeptFirst
    <3>6. Start[k] \in Nat /\ FrameTicks \in Nat \ {0}
      BY Zenon, <1>5, StartFacts, LayoutAssumption
    <3> QED
      BY <3>1, <3>3, <3>4, <3>5, <3>6
  <2>2. CASE worker.norm.next # None
    <3>1. worker.norm # NewNormalizer /\ from = worker.norm.next
      BY <2>2 DEF NewNormalizer
    <3>2. /\ Len(worker.norm.pcm) < FrameTicks
          /\ \A i \in 1..Len(worker.norm.pcm) : worker.norm.pcm[i] = worker.norm.next + i - 1
          /\ \E j \in 1..(source.parsed + 1) :
               /\ Start[j] = worker.norm.next + Len(worker.norm.pcm)
               /\ source.packets = j..source.parsed
      BY Zenon, <1>1, <1>5, <3>1 DEF Core, NormInv
    <3>3. PICK j \in 1..(source.parsed + 1) :
               /\ Start[j] = worker.norm.next + Len(worker.norm.pcm)
               /\ source.packets = j..source.parsed
      BY Zenon, <3>2
    <3>4. j = k
      <4>1. k \in j..source.parsed /\ source.parsed \in Nat
        BY <1>2, <3>3, StartFacts
      <4>2. j \in j..source.parsed
        BY <4>1
      <4>3. k <= j
        BY Zenon, <3>3, <4>2 DEF First
      <4> QED
        BY <4>1, <4>3
    <3> QED
      BY Zenon, <2>2, <3>1, <3>2, <3>3, <3>4
  <2> QED
    BY Zenon, <2>1, <2>2
<1>9. /\ GoodFrames(r.frames, from, FALSE)
      /\ r.norm \in [pcm : Seq(0..(TrackTicks - 1)), next : Nat]
      /\ r.norm.next = from + Len(r.frames) * FrameTicks
      /\ Len(r.norm.pcm) < FrameTicks
      /\ \A i \in 1..Len(r.norm.pcm) : r.norm.pcm[i] = r.norm.next + i - 1
      /\ r.norm.next + Len(r.norm.pcm) = Start[k + 1]
  <2>1. Decoded(worker.norm, from)
    BY Zenon, <1>8 DEF Decoded
  <2>2. /\ from = IF worker.norm.next = None THEN Start[k] ELSE worker.norm.next
        /\ r = PushPacket(worker.norm, k)
    OBVIOUS
  <2>3. from + Len(worker.norm.pcm) = Start[k] /\ Len(worker.norm.pcm) < FrameTicks
    BY Zenon, <1>8
  <2> HIDE DEF r, from
  <2>4. Pushed(r, from, k)
    BY Zenon, <1>5, <1>6, <2>1, <2>2, <2>3, PushGood
  <2> QED
    BY Zenon, <2>4 DEF Pushed, Decoded
<1>10. Buffer(r)
  OBVIOUS
<1> HIDE DEF r, from
<1>11. r.frames \in Seq(Frames) /\ r.norm.next \in Nat /\ r.norm.next # None
       /\ r.norm \in [pcm : Seq(0..(TrackTicks - 1)), next : Nat \cup {None}]
  BY Zenon, <1>9, NoneAssumption DEF GoodFrames
<1>12. /\ worker' \in [current : Videos \cup {None}, pending : Seq(Frames),
                 norm : [pcm : Seq(0..(TrackTicks - 1)), next : Nat \cup {None}],
                 lastVideo : Videos \cup {None}, lastEncoding : Encodings \cup {None}]
       /\ worker'.lastVideo = worker.lastVideo /\ worker'.lastEncoding = worker.lastEncoding
       /\ worker'.norm = r.norm /\ worker'.current = worker.current
       /\ out' \in Seq(Frames) /\ worker'.pending \in Seq(Frames)
       /\ Len(out') \in Nat /\ Len(out') <= op.limit
       /\ (queue \o out') \o worker'.pending = Waiting \o r.frames
  <2>1. Len(out) <= op.limit /\ worker.pending = <<>> /\ op # NoOp /\ TypeOK
    BY Zenon, <1>1, TypeFacts, OpFacts DEF Core, CallInv
  <2>2. Buffered(r)
    BY Zenon, <1>10, <1>11, <2>1, BufferFacts
  <2> QED
    BY Zenon, <2>2 DEF Buffered
<1>13. BytesContiguous' /\ StreamInv' /\ source' \in Sources \cup {None}
  BY Zenon, <1>4, SourceStaysGood
<1>14. TypeOK'
  BY Zenon, <1>1, <1>12, <1>13 DEF TypeOK
<1>15. CallInv'
  BY Zenon, <1>1, <1>4, <1>11, <1>12 DEF Core, CallInv
<1>16. NormInv'
  <2>1. k + 1 \in 1..(source.parsed + 1) /\ source'.packets = (k + 1)..source.parsed
    BY SMTT(60), <1>2, <1>3, <1>5, <1>8, StartFacts
  <2> QED
    BY ZenonT(60), <1>3, <1>9, <1>11, <1>12, <2>1 DEF NormInv
<1>17. Waiting' = Waiting \o r.frames
  BY Zenon, <1>12 DEF Waiting
<1>18. LineInv' /\ AudioInv' /\ (worker.norm.next # None => Steady)
  <2>1. CASE worker.norm.next # None
    <3>1. from = worker.norm.next
      BY Zenon, <2>1 DEF from
    <3> QED
      BY Zenon, <1>1, <1>4, <1>7, <1>9, <1>11, <1>12, <1>17, <2>1, <3>1, LineGrows
  <2>2. CASE worker.norm.next = None
    <3>1. from = Start[k] /\ Waiting = <<>> /\ Start[k] <= position.sent
          /\ position.sent < Start[k] + Duration(k)
      BY Zenon, <1>8, <2>2 DEF from
    <3>2. Waiting' = r.frames
      BY <1>11, <1>17, <3>1
    <3>3. from \in 0..(TrackTicks + FrameTicks)
      <4>1. Start[k] \in Nat /\ Start[k] <= TrackTicks /\ TrackTicks \in Nat /\ FrameTicks \in Nat
        BY Zenon, <1>5, StartFacts, LayoutAssumption
      <4> QED
        BY <3>1, <4>1
    <3>4. PICK e \in 0..(TrackTicks + FrameTicks) : e = from
      BY Zenon, <3>3
    <3>a. OnLine(e)'
      <4>1. InLine(Waiting', e)
        BY Zenon, <1>9, <3>2, <3>4 DEF GoodFrames
      <4>2. e <= position'.sent /\ \E j \in Packets : position'.sent < e + Duration(j)
        BY Zenon, <1>4, <1>5, <3>1, <3>4
      <4>3. worker'.norm.next = e + Len(Waiting') * FrameTicks
        BY Zenon, <1>9, <1>12, <3>2, <3>4
      <4> QED
        BY Zenon, <4>1, <4>2, <4>3 DEF OnLine
    <3>5. Sound(Waiting', Exhausted')
      <4>1. Sound(Waiting', FALSE) /\ (FALSE => Exhausted')
        BY Zenon, <1>9, <3>2 DEF GoodFrames
      <4> QED
        BY Zenon, <4>1, SoundWeaker
    <3>6. LineInv' /\ AudioInv'
      BY Zenon, <3>5, <3>a DEF LineInv, AudioInv
    <3> QED
      BY Zenon, <2>2, <3>6
  <2> QED
    BY Zenon, <2>1, <2>2
<1>19. PositionOfCurrent' /\ OwnerInv' /\ EndedInv'
  BY Zenon, <1>1, <1>4, <1>12 DEF Core, PositionOfCurrent, OwnerInv, EndedInv
<1> QED
  BY Zenon, <1>13, <1>14, <1>15, <1>16, <1>18, <1>19 DEF Core

\* One turn of the fill loop.
LEMMA FillTurnCore ==
  ASSUME Core, FillTurn
  PROVE  Core' /\ (worker.norm.next # None => Steady)
<1> DEFINE n == Smaller(Room(out), Len(worker.pending))
           full == Len(out) >= op.target \/ Room(out) <= 0
<1>1. op # NoOp /\ op.stage = "loop" /\ source # None /\ op \in Ops
  BY Zenon DEF FillTurn, Core, CallInv, TypeOK
<1>2. \/ full /\ Filled
      \/ /\ ~full /\ n > 0
         /\ out' = out \o SubSeq(worker.pending, 1, n)
         /\ worker' = [worker EXCEPT !.pending = SubSeq(worker.pending, n + 1, Len(worker.pending))]
         /\ UNCHANGED <<position, source, op, queue, ended>>
      \/ /\ worker.pending = <<>>
         /\ \E k \in source.packets :
              /\ First(source.packets, k)
              /\ Buffer(PushPacket(worker.norm, k))
              /\ source' = [source EXCEPT !.packets = @ \ {k}]
         /\ UNCHANGED <<position, op, queue, ended>>
      \/ /\ ~full /\ worker.pending = <<>> /\ source.packets = {}
         /\ op' = [op EXCEPT !.stage = "read", !.tries = 0]
         /\ UNCHANGED <<worker, position, source, out, queue, ended>>
  BY Zenon DEF FillTurn
<1>3. CASE full /\ Filled
  BY Zenon, <1>1, <1>3, FilledCore
<1>4. CASE /\ ~full /\ n > 0
           /\ out' = out \o SubSeq(worker.pending, 1, n)
           /\ worker' = [worker EXCEPT !.pending = SubSeq(worker.pending, n + 1, Len(worker.pending))]
           /\ UNCHANGED <<position, source, op, queue, ended>>
  BY Zenon, <1>1, <1>4, DrainCore
<1>5. CASE /\ worker.pending = <<>>
           /\ \E k \in source.packets :
                /\ First(source.packets, k)
                /\ Buffer(PushPacket(worker.norm, k))
                /\ source' = [source EXCEPT !.packets = @ \ {k}]
           /\ UNCHANGED <<position, op, queue, ended>>
  BY Zenon, <1>1, <1>5, PushCore
<1>6. CASE /\ ~full /\ worker.pending = <<>> /\ source.packets = {}
           /\ op' = [op EXCEPT !.stage = "read", !.tries = 0]
           /\ UNCHANGED <<worker, position, source, out, queue, ended>>
  <2>1. op' \in Ops
    <3>1. 0 \in 0..2 /\ "read" \in {"resolve", "open", "seek", "loop", "read", "reresolve", "return"}
      OBVIOUS
    <3>2. op \in Ops /\ op' = [op EXCEPT !.stage = "read", !.tries = 0]
      BY Zenon, <1>1, <1>6
    <3>3. GoesOn(op, op', "read")
      BY Zenon, <3>1, <3>2, OpMoved
    <3> QED
      BY Zenon, <3>3 DEF GoesOn
  <2>2. /\ op'.kind = op.kind /\ op'.video = op.video /\ op'.limit = op.limit
        /\ op'.target = op.target /\ op'.resume = op.resume /\ op'.stage = "read"
    BY Zenon, <1>1, <1>6 DEF Ops
  <2>3. TypeOK /\ op.limit \in Nat /\ op.target \in Nat /\ Len(out) \in Nat
    BY <1>1, TypeFacts, OpFacts DEF Core
  <2>4. Len(out) < op.limit /\ Len(out) < op.target
    BY <1>6, <2>3 DEF Room
  <2>5. GoodSource(source)
    BY Zenon, <1>1, SourceGood DEF Core
  <2> QED
    BY Zenon, <1>1, <1>6, <2>1, <2>2, <2>4, <2>5, QuietCore
<1> QED
  BY Zenon, <1>2, <1>3, <1>4, <1>5, <1>6

\* What a call finds when it reads the stream.
LEMMA ReadingFacts ==
  ASSUME Core, op # NoOp, op.stage \in {"read", "reresolve"}
  PROVE  /\ TypeOK /\ op \in Ops /\ op.limit \in Nat \ {0} /\ op.tries \in 0..2
         /\ op.video \in Videos /\ source # None /\ GoodSource(source) /\ ~ended
         /\ source.packets = {} /\ worker.pending = <<>>
         /\ Len(out) < op.limit /\ Len(out) < op.target /\ Len(out) \in Nat
<1>1. /\ source # None /\ source.packets = {} /\ worker.pending = <<>> /\ ~ended
      /\ Len(out) < op.limit /\ Len(out) < op.target
  BY Zenon DEF Core, CallInv
<1>2. TypeOK /\ op \in Ops /\ Len(out) \in Nat
  BY TypeFacts DEF Core
<1> QED
  BY Zenon, <1>1, <1>2, SourceGood, OpFacts DEF Core

\* A chunk while the call fills its queue.
LEMMA ChunkCore ==
  ASSUME Core, op # NoOp, op.stage = "read", NEW o \in ReadTurn(source.stream),
         o.res = "chunk",
         source' = [Fed(source, o) EXCEPT !.packets = @ \cup Drained(source, o)],
         op' = [op EXCEPT !.stage = "loop"],
         UNCHANGED <<worker, position, out, queue, ended>>
  PROVE  Core' /\ Steady
<1>1. /\ TypeOK /\ op \in Ops /\ source # None /\ GoodSource(source) /\ ~ended
      /\ source.packets = {} /\ worker.pending = <<>>
      /\ Len(out) < op.limit /\ Len(out) \in Nat /\ op.limit \in Nat \ {0}
  BY Zenon, ReadingFacts
<1>2. GoodTurn(source.stream, o)
  BY Zenon, <1>1, ReadTurnGood DEF GoodSource
<1>3. /\ GoodSource(source') /\ source' # None
      /\ source'.packets = source.packets \cup Drained(source, o)
      /\ Drained(source, o) = (source.parsed + 1)..source'.parsed
      /\ source.parsed <= source'.parsed
  <2>1. FedFrom(source, o, Drained(source, o), source')
    BY Zenon, <1>1, <1>2, FedGood
  <2> QED
    BY Zenon, <2>1 DEF FedFrom
<1>4. source.stream.pos # ResourceEnd
  <2>1. source.stream.pos \in 0..ResourceEnd /\ source.stream.pos < ResourceEnd
    BY Zenon, <1>1, <1>2, StreamWithin DEF GoodTurn, GoodSource
  <2> QED
    BY <2>1, ResourceFacts
<1>5. source.parsed \in Nat /\ source'.parsed \in Nat
  BY SMTT(60), <1>1, <1>3, StartFacts DEF GoodSource, Sources
<1>6. op' \in Ops /\ op' # NoOp
  <2>1. op' \in Ops
    BY Zenon, <1>1 DEF Ops
  <2> QED
    BY Zenon, <2>1, OpIsNotNoOp
<1>7. /\ op'.kind = op.kind /\ op'.video = op.video /\ op'.limit = op.limit
      /\ op'.target = op.target /\ op'.resume = op.resume /\ op'.stage = "loop"
  BY Zenon, <1>1 DEF Ops
<1>8. BytesContiguous' /\ StreamInv' /\ source' \in Sources \cup {None}
  BY Zenon, <1>3, SourceStaysGood
<1>9. TypeOK'
  BY Zenon, <1>1, <1>6, <1>8 DEF TypeOK
<1>10. CallInv'
  BY Zenon, <1>1, <1>3, <1>6, <1>7 DEF Core, CallInv
<1>11. NormInv'
  <2>1. /\ worker.norm.next # None /\ Len(worker.norm.pcm) < FrameTicks
        /\ \A i \in 1..Len(worker.norm.pcm) : worker.norm.pcm[i] = worker.norm.next + i - 1
        /\ \E k \in 1..(source.parsed + 1) :
             /\ Start[k] = worker.norm.next + Len(worker.norm.pcm)
             /\ source.packets = k..source.parsed
    BY Zenon, <1>1, <1>4 DEF Core, NormInv
  <2>2. PICK k \in 1..(source.parsed + 1) :
             /\ Start[k] = worker.norm.next + Len(worker.norm.pcm)
             /\ source.packets = k..source.parsed
    BY Zenon, <2>1
  <2>3. k = source.parsed + 1
    <3>1. k \notin k..source.parsed
      BY Zenon, <1>1, <2>2
    <3> QED
      BY <1>5, <3>1
  <2>4. k \in 1..(source'.parsed + 1) /\ source'.packets = k..source'.parsed
    BY <1>1, <1>3, <1>5, <2>3
  <2> QED
    BY Zenon, <2>1, <2>2, <2>4 DEF NormInv
<1>12. Waiting' = Waiting
  BY Zenon DEF Waiting
<1>13. Exhausted => Exhausted'
  BY Zenon, <1>1, <1>4 DEF Exhausted
<1>14. LineInv' /\ AudioInv' /\ Steady
  BY Zenon, <1>1, <1>12, <1>13, LineKept, AudioKept DEF Core
<1>15. PositionOfCurrent' /\ OwnerInv' /\ EndedInv'
  BY Zenon, <1>1, <1>3, <1>6, <1>7 DEF Core, PositionOfCurrent, OwnerInv, EndedInv
<1> QED
  BY Zenon, <1>8, <1>9, <1>10, <1>11, <1>14, <1>15 DEF Core

\* The end of the stream: the normalizer is flushed.
LEMMA EndCore ==
  ASSUME Core, op # NoOp, op.stage = "read", NEW o \in ReadTurn(source.stream),
         o.res = "end", source' = [source EXCEPT !.stream = o.s],
         Buffer(Flush(worker.norm)), op' = [op EXCEPT !.stage = "return"],
         UNCHANGED <<position, queue, ended>>
  PROVE  Core' /\ Steady
<1> DEFINE r == Flush(worker.norm)
<1>1. /\ TypeOK /\ op \in Ops /\ source # None /\ GoodSource(source) /\ ~ended
      /\ source.packets = {} /\ worker.pending = <<>>
      /\ Len(out) < op.limit /\ Len(out) \in Nat /\ op.limit \in Nat \ {0}
  BY Zenon, ReadingFacts
<1>2. GoodTurn(source.stream, o)
  BY Zenon, <1>1, ReadTurnGood DEF GoodSource
<1>3. /\ GoodSource(source') /\ source' # None /\ source'.parsed = source.parsed
      /\ source'.packets = {} /\ source'.stream.pos = ResourceEnd
      /\ source.stream.pos = ResourceEnd
  BY <1>1, <1>2, MovedGood DEF GoodTurn
<1>4. op' \in Ops /\ op' # NoOp
  <2>1. op' \in Ops
    BY Zenon, <1>1 DEF Ops
  <2> QED
    BY Zenon, <2>1, OpIsNotNoOp
<1>5. /\ op'.kind = op.kind /\ op'.video = op.video /\ op'.limit = op.limit
      /\ op'.target = op.target /\ op'.resume = op.resume /\ op'.stage = "return"
  BY Zenon, <1>1 DEF Ops
<1>6. /\ worker.norm \in [pcm : Seq(0..(TrackTicks - 1)), next : Nat \cup {None}]
      /\ Waiting \in Seq(Frames)
  BY Zenon, <1>1, TypeFacts
<1>7. BytesContiguous' /\ StreamInv' /\ source' \in Sources \cup {None}
  BY Zenon, <1>3, SourceStaysGood
<1>8. Buffer(r)
  OBVIOUS
\* What follows from the frames and the normalizer the flush leaves.
<1>9. ASSUME r.frames \in Seq(Frames), Len(r.frames) <= 1, r.norm.pcm = <<>>,
             r.norm \in [pcm : Seq(0..(TrackTicks - 1)), next : Nat \cup {None}],
             worker.norm.next # None => r.norm.next # None
      PROVE  /\ TypeOK' /\ CallInv' /\ worker'.norm = r.norm /\ worker'.pending = <<>>
             /\ Waiting' = Waiting \o r.frames /\ Exhausted'
             /\ PositionOfCurrent' /\ OwnerInv' /\ EndedInv'
             /\ r.frames = <<>> => out' = out
  <2> HIDE DEF r
  <2>1. /\ worker' \in [current : Videos \cup {None}, pending : Seq(Frames),
                 norm : [pcm : Seq(0..(TrackTicks - 1)), next : Nat \cup {None}],
                 lastVideo : Videos \cup {None}, lastEncoding : Encodings \cup {None}]
        /\ worker'.lastVideo = worker.lastVideo /\ worker'.lastEncoding = worker.lastEncoding
        /\ worker'.norm = r.norm /\ worker'.current = worker.current
        /\ out' \in Seq(Frames) /\ worker'.pending \in Seq(Frames)
        /\ Len(out') \in Nat /\ Len(out') <= op.limit
        /\ (queue \o out') \o worker'.pending = Waiting \o r.frames
        /\ Len(out) + Len(r.frames) <= op.limit => worker'.pending = <<>>
    <3>1. Len(out) <= op.limit
      BY <1>1
    <3>2. Buffered(r)
      BY Zenon, <1>1, <1>8, <1>9, <3>1, BufferFacts
    <3> QED
      BY Zenon, <3>2 DEF Buffered
  <2>2. worker'.pending = <<>>
    <3> DEFINE l == Len(out)
               m == Len(r.frames)
    <3>1. l \in Nat /\ l < op.limit /\ op.limit \in Nat /\ m \in Nat /\ m <= 1
      BY <1>1, <1>9
    <3> HIDE DEF l, m
    <3>2. l + m <= op.limit
      BY <3>1
    <3> QED
      BY Zenon, <2>1, <3>2 DEF l, m
  <2>3. TypeOK'
    BY Zenon, <1>1, <1>4, <1>7, <2>1 DEF TypeOK
  <2>4. CallInv'
    BY Zenon, <1>1, <1>3, <1>4, <1>5, <1>9, <2>1, <2>2 DEF Core, CallInv
  <2>5. Waiting' = Waiting \o r.frames
    BY Zenon, <2>1 DEF Waiting
  <2>6. Exhausted'
    BY Zenon, <1>3, <1>9, <2>1 DEF Exhausted
  <2>7. PositionOfCurrent' /\ OwnerInv' /\ EndedInv'
    BY Zenon, <1>1, <1>3, <1>4, <1>5, <2>1 DEF Core, PositionOfCurrent, OwnerInv, EndedInv
  <2>8. r.frames = <<>> => out' = out
    <3> SUFFICES ASSUME r.frames = <<>>
                 PROVE  out' = out
      OBVIOUS
    <3>1. out \in Seq(Frames)
      BY Zenon, <1>1, TypeFacts
    <3>2. out' = out \o SubSeq(<<>>, 1, Smaller(Room(out), Len(<<>>)))
      BY Zenon, <1>8 DEF Buffer, Enqueued
    <3>3. Smaller(Room(out), Len(<<>>)) = 0
      BY <1>1 DEF Smaller, Room
    <3>4. SubSeq(<<>>, 1, 0) = <<>>
      OBVIOUS
    <3> QED
      BY SMTT(60), <3>1, <3>2, <3>3, <3>4
  <2> QED
    BY Zenon, <1>9, <2>1, <2>2, <2>3, <2>4, <2>5, <2>6, <2>7, <2>8
<1>10. CASE worker.norm.pcm = <<>>
  <2>1. r.frames = <<>> /\ r.norm = worker.norm
    BY Zenon, <1>10 DEF Flush
  <2>2. <<>> \in Seq(Frames) /\ Len(<<>>) = 0
    OBVIOUS
  <2>3. /\ TypeOK' /\ CallInv' /\ worker'.norm = worker.norm /\ worker'.pending = <<>>
        /\ Waiting' = Waiting \o <<>> /\ Exhausted' /\ out' = out
        /\ PositionOfCurrent' /\ OwnerInv' /\ EndedInv'
    BY SMTT(60), <1>6, <1>9, <1>10, <2>1, <2>2
  <2>4. Waiting' = Waiting
    BY <1>6, <2>3
  <2>5. LineInv' /\ AudioInv' /\ Steady
    BY Zenon, <1>1, <2>3, <2>4, LineKept, AudioKept DEF Core
  <2>6. NormInv'
    BY ZenonT(60), <1>1, <1>3, <1>4, <1>5, <2>3 DEF Core, NormInv
  <2> QED
    BY Zenon, <1>7, <2>3, <2>5, <2>6 DEF Core
<1>11. CASE worker.norm.pcm # <<>>
  <2>1. /\ worker.norm.next # None /\ Len(worker.norm.pcm) < FrameTicks
        /\ \A i \in 1..Len(worker.norm.pcm) : worker.norm.pcm[i] = worker.norm.next + i - 1
        /\ \E k \in 1..(source.parsed + 1) :
             /\ Start[k] = worker.norm.next + Len(worker.norm.pcm)
             /\ source.packets = k..source.parsed
    BY <1>1, <1>11 DEF Core, NormInv, NewNormalizer
  <2>2. PICK k \in 1..(source.parsed + 1) :
             /\ Start[k] = worker.norm.next + Len(worker.norm.pcm)
             /\ source.packets = k..source.parsed
    BY Zenon, <2>1
  <2>3. source.parsed \in 0..LastPacket /\ LastPacket \in Nat /\ source.parsed \in Nat
    BY <1>1, StartFacts DEF GoodSource, Sources
  <2>4. k = source.parsed + 1
    <3>1. k \notin k..source.parsed
      BY Zenon, <1>1, <2>2
    <3> QED
      BY <2>3, <3>1
  <2>5. worker.norm.next \in Nat /\ Len(worker.norm.pcm) \in Nat \ {0} /\ FrameTicks \in Nat \ {0}
        /\ Start[k] <= TrackTicks /\ Start[k] \in Nat /\ TrackTicks \in Nat
    <3>1. worker.norm.next \in Nat
      BY Zenon, <1>6, <2>1
    <3>2. Len(worker.norm.pcm) \in Nat \ {0}
      BY <1>6, <1>11
    <3>3. FrameTicks \in Nat \ {0} /\ TrackTicks \in Nat
      BY Zenon, StartFacts, LayoutAssumption
    <3>4. Start[k] <= TrackTicks /\ Start[k] \in Nat
      BY <2>2, <2>3, StartFacts
    <3> QED
      BY Zenon, <3>1, <3>2, <3>3, <3>4
  <2>6. /\ GoodFrames(r.frames, worker.norm.next, TRUE) /\ Len(r.frames) = 1
        /\ r.norm = [pcm |-> <<>>, next |-> worker.norm.next + FrameTicks]
    BY Zenon, <1>6, <1>11, <2>1, <2>2, <2>5, FlushGood DEF Decoded
  <2> HIDE DEF r
  <2>7. /\ r.norm.pcm = <<>> /\ r.norm.next = worker.norm.next + FrameTicks
        /\ r.norm.next \in Nat /\ r.norm.next # None /\ r.frames \in Seq(Frames)
        /\ r.norm \in [pcm : Seq(0..(TrackTicks - 1)), next : Nat \cup {None}]
    <3>1. <<>> \in Seq(0..(TrackTicks - 1))
      OBVIOUS
    <3> QED
      BY SMTT(60), <2>5, <2>6, <3>1, NoneAssumption DEF GoodFrames
  <2>8. /\ TypeOK' /\ CallInv' /\ worker'.norm = r.norm /\ worker'.pending = <<>>
        /\ Waiting' = Waiting \o r.frames /\ Exhausted'
        /\ PositionOfCurrent' /\ OwnerInv' /\ EndedInv'
    BY <1>9, <2>6, <2>7
  <2>9. ~Exhausted
    BY Zenon, <1>1, <1>11 DEF Exhausted
  <2>10. worker'.norm.next = worker.norm.next + Len(r.frames) * FrameTicks
    <3>1. 1 * FrameTicks = FrameTicks
      BY <2>5
    <3> QED
      BY Zenon, <2>6, <2>7, <2>8, <3>1
  <2>11. LineInv' /\ AudioInv' /\ Steady
    BY Zenon, <1>1, <1>3, <2>1, <2>6, <2>7, <2>8, <2>9, <2>10, LineGrows
  <2>12. NormInv'
    <3>1. /\ Start[source.parsed + 1] <= worker.norm.next + FrameTicks
          /\ worker.norm.next + FrameTicks < TrackTicks + FrameTicks
      <4> DEFINE l == Len(worker.norm.pcm)
                 next == worker.norm.next
      <4>1. /\ l \in Nat \ {0} /\ next \in Nat /\ l < FrameTicks
            /\ Start[source.parsed + 1] = next + l /\ Start[source.parsed + 1] <= TrackTicks
        BY Zenon, <2>1, <2>2, <2>4, <2>5
      <4> HIDE DEF l, next
      <4>2. Start[source.parsed + 1] <= next + FrameTicks /\ next + FrameTicks < TrackTicks + FrameTicks
        BY SMTT(60), <2>5, <4>1
      <4> QED
        BY Zenon, <4>2 DEF next
    <3> QED
      BY Zenon, <1>3, <2>7, <2>8, <3>1 DEF NormInv
  <2> QED
    BY Zenon, <1>7, <2>8, <2>11, <2>12 DEF Core
<1> QED
  BY Zenon, <1>10, <1>11

\* One read of read_stream_chunk.
LEMMA FillReadCore ==
  ASSUME Core, FillRead
  PROVE  Core' /\ Steady
<1>1. op # NoOp /\ op.stage = "read"
  BY Zenon DEF FillRead
<1>2. /\ TypeOK /\ op \in Ops /\ op.tries \in 0..2 /\ source # None /\ GoodSource(source)
      /\ worker.pending = <<>>
  BY Zenon, <1>1, ReadingFacts
<1>3. PICK o \in ReadTurn(source.stream) :
         LET src == [source EXCEPT !.stream = o.s] IN
         \/ /\ o.res = "again" /\ source' = src
            /\ UNCHANGED <<worker, position, op, out, queue, ended>>
         \/ /\ o.res = "chunk"
            /\ source' = [Fed(source, o) EXCEPT !.packets = @ \cup Drained(source, o)]
            /\ op' = [op EXCEPT !.stage = "loop"]
            /\ UNCHANGED <<worker, position, out, queue, ended>>
         \/ /\ o.res = "chunk" /\ source.mixed
            /\ Fail
         \/ /\ o.res = "end" /\ source' = src
            /\ Buffer(Flush(worker.norm))
            /\ op' = [op EXCEPT !.stage = "return"]
            /\ UNCHANGED <<position, queue, ended>>
         \/ /\ o.res = "timeout" /\ op.tries = 0
            /\ source' = ResetStream(src)
            /\ op' = [op EXCEPT !.tries = 1]
            /\ UNCHANGED <<worker, position, out, queue, ended>>
         \/ /\ \/ o.res = "timeout" /\ op.tries = 1
               \/ o.res = "stale" /\ op.tries < 2
            /\ source' = src /\ op' = [op EXCEPT !.stage = "reresolve"]
            /\ UNCHANGED <<worker, position, out, queue, ended>>
         \/ /\ \/ o.res \in {"timeout", "stale"} /\ op.tries = 2
               \/ o.res \in {"http", "detail"}
            /\ Fail
  BY Zenon DEF FillRead
<1> DEFINE src == [source EXCEPT !.stream = o.s]
<1>4. GoodTurn(source.stream, o)
  BY Zenon, <1>2, ReadTurnGood DEF GoodSource
<1>5. o.res # "chunk" =>
        /\ GoodSource(src) /\ src # None /\ src.parsed = source.parsed
        /\ src.packets = source.packets /\ src.stream.pos = source.stream.pos
  BY <1>2, <1>4, MovedGood
<1>6. \/ /\ o.res = "again" /\ source' = src
         /\ UNCHANGED <<worker, position, op, out, queue, ended>>
      \/ /\ o.res = "chunk"
         /\ source' = [Fed(source, o) EXCEPT !.packets = @ \cup Drained(source, o)]
         /\ op' = [op EXCEPT !.stage = "loop"]
         /\ UNCHANGED <<worker, position, out, queue, ended>>
      \/ Fail
      \/ /\ o.res = "end" /\ source' = [source EXCEPT !.stream = o.s]
         /\ Buffer(Flush(worker.norm))
         /\ op' = [op EXCEPT !.stage = "return"]
         /\ UNCHANGED <<position, queue, ended>>
      \/ /\ o.res = "timeout" /\ source' = ResetStream(src)
         /\ op' = [op EXCEPT !.tries = 1]
         /\ UNCHANGED <<worker, position, out, queue, ended>>
      \/ /\ o.res \in {"timeout", "stale"}
         /\ source' = src /\ op' = [op EXCEPT !.stage = "reresolve"]
         /\ UNCHANGED <<worker, position, out, queue, ended>>
  BY Zenon, <1>3
<1> HIDE DEF src
<1>7. CASE /\ o.res = "again" /\ source' = src
           /\ UNCHANGED <<worker, position, op, out, queue, ended>>
  BY Zenon, <1>1, <1>2, <1>5, <1>7, QuietCore
<1>8. CASE /\ o.res = "chunk"
           /\ source' = [Fed(source, o) EXCEPT !.packets = @ \cup Drained(source, o)]
           /\ op' = [op EXCEPT !.stage = "loop"]
           /\ UNCHANGED <<worker, position, out, queue, ended>>
  BY Zenon, <1>1, <1>8, ChunkCore
<1>9. CASE Fail
  BY Zenon, <1>1, <1>2, <1>9, FailCore
<1>10. CASE /\ o.res = "end" /\ source' = [source EXCEPT !.stream = o.s]
            /\ Buffer(Flush(worker.norm))
            /\ op' = [op EXCEPT !.stage = "return"]
            /\ UNCHANGED <<position, queue, ended>>
  BY Zenon, <1>1, <1>10, EndCore
<1>11. CASE /\ o.res = "timeout" /\ source' = ResetStream(src)
            /\ op' = [op EXCEPT !.tries = 1]
            /\ UNCHANGED <<worker, position, out, queue, ended>>
  <2>1. /\ op' \in Ops /\ op'.kind = op.kind /\ op'.video = op.video /\ op'.limit = op.limit
        /\ op'.target = op.target /\ op'.resume = op.resume /\ op'.stage = op.stage
    BY <1>2, <1>11 DEF Ops
  <2>2. GoodSource(src) /\ o.res # "chunk"
    BY Zenon, <1>5, <1>11
  <2>3. /\ GoodSource(source') /\ source' # None /\ source'.parsed = src.parsed
        /\ source'.packets = src.packets /\ source'.stream.pos = src.stream.pos
    BY Zenon, <1>11, <2>2, ResetGood
  <2> QED
    BY ZenonT(60), <1>1, <1>2, <1>5, <1>11, <2>1, <2>2, <2>3, QuietCore
<1>12. CASE /\ o.res \in {"timeout", "stale"}
            /\ source' = src /\ op' = [op EXCEPT !.stage = "reresolve"]
            /\ UNCHANGED <<worker, position, out, queue, ended>>
  <2>1. /\ op' \in Ops /\ op'.kind = op.kind /\ op'.video = op.video /\ op'.limit = op.limit
        /\ op'.target = op.target /\ op'.resume = op.resume /\ op'.stage = "reresolve"
    BY Zenon, <1>2, <1>12 DEF Ops
  <2> QED
    BY Zenon, <1>1, <1>2, <1>5, <1>12, <2>1, QuietCore
<1> QED
  BY Zenon, <1>6, <1>7, <1>8, <1>9, <1>10, <1>11, <1>12

\* reresolve_steady_source.
LEMMA ReresolveCore ==
  ASSUME Core, Reresolve
  PROVE  Core' /\ Steady
<1>1. op # NoOp /\ op.stage = "reresolve"
  BY Zenon DEF Reresolve
<1>2. /\ TypeOK /\ op \in Ops /\ source # None /\ GoodSource(source) /\ worker.pending = <<>>
  BY Zenon, <1>1, ReadingFacts
<1>3. CASE Fail
  BY Zenon, <1>1, <1>2, <1>3, FailCore
<1>4. ASSUME NEW e \in Selectable, source' = ReplaceResolvedStream(source, e),
             worker' = [worker EXCEPT !.lastVideo = op.video, !.lastEncoding = e],
             op' = [op EXCEPT !.stage = "read", !.tries = 2],
             UNCHANGED <<position, out, queue, ended>>
      PROVE  Core' /\ Steady
  <2>1. e \in Encodings
    BY Zenon DEF Selectable
  <2>2. /\ GoodSource(source') /\ source' # None /\ source'.parsed = source.parsed
        /\ source'.packets = source.packets /\ source'.stream.pos = source.stream.pos
    BY ZenonT(60), <1>2, <1>4, <2>1, ReplacedGood
  <2>3. /\ op' \in Ops /\ op'.kind = op.kind /\ op'.video = op.video /\ op'.limit = op.limit
        /\ op'.target = op.target /\ op'.resume = op.resume /\ op'.stage = "read"
    <3>1. 2 \in 0..2 /\ "read" \in {"resolve", "open", "seek", "loop", "read", "reresolve", "return"}
      OBVIOUS
    <3>2. op \in Ops /\ op' = [op EXCEPT !.stage = "read", !.tries = 2]
      BY Zenon, <1>2, <1>4
    <3>3. GoesOn(op, op', "read")
      BY Zenon, <3>1, <3>2, OpMoved
    <3> QED
      BY Zenon, <3>3 DEF GoesOn
  <2> QED
    BY Zenon, <1>1, <1>2, <1>4, <2>1, <2>2, <2>3, QuietCore
<1> QED
  BY Zenon, <1>3, <1>4 DEF Reresolve

\* The producer starts a refill.
LEMMA RefillCore ==
  ASSUME Core, Refill
  PROVE  Core' /\ Steady
<1> DEFINE room == SourceTarget - Len(queue)
<1>1. /\ op = NoOp /\ source # None /\ ~ended /\ Len(queue) < SourceTarget
      /\ op' = [kind |-> "refill", video |-> worker.current, limit |-> room, target |-> room,
                resume |-> 0, via |-> "first", tries |-> 0, stage |-> "loop"]
      /\ UNCHANGED <<worker, position, source, out, queue, ended>>
  BY Zenon DEF Refill
<1>2. TypeOK /\ Len(queue) \in Nat /\ SourceTarget \in Nat
  BY SMTT(60), TypeFacts, LayoutAssumption DEF Core
<1>3. room \in 1..SourceTarget /\ room + Len(queue) <= SourceTarget
  BY <1>1, <1>2
<1> HIDE DEF room
<1>4. worker.current \in Videos /\ position.of = worker.current
  BY Zenon, <1>1, <1>2, TypeFacts DEF Core, OwnerInv
<1>5. op' \in Ops /\ op' # NoOp
  <2>1. op' \in Ops
    BY <1>1, <1>3, <1>4 DEF Ops
  <2> QED
    BY Zenon, <2>1, OpIsNotNoOp
<1>6. /\ op'.kind = "refill" /\ op'.video = worker.current /\ op'.limit = room
      /\ op'.target = room /\ op'.stage = "loop"
  BY Zenon, <1>1
<1>7. out = <<>> /\ worker.norm.next # None /\ Len(<<>>) = 0
  BY Zenon, <1>1 DEF Core, CallInv
<1>8. TypeOK' /\ BytesContiguous' /\ StreamInv'
  BY Zenon, <1>1, <1>2, <1>5 DEF Core, TypeOK, BytesContiguous, StreamInv
<1>9. Len(out') <= op'.limit
  BY SMTT(60), <1>1, <1>2, <1>3, <1>6, <1>7
<1>10. CallInv'
  BY Zenon, <1>1, <1>3, <1>5, <1>6, <1>7, <1>9 DEF CallInv
<1>11. NormInv'
  BY Zenon, <1>1 DEF Core, NormInv
<1>12. Waiting' = Waiting /\ (Exhausted => Exhausted')
  BY Zenon, <1>1 DEF Waiting, Exhausted
<1>13. LineInv' /\ AudioInv' /\ Steady
  BY Zenon, <1>1, <1>12, LineKept, AudioKept DEF Core
<1>14. PositionOfCurrent' /\ OwnerInv' /\ EndedInv'
  BY Zenon, <1>1, <1>4, <1>5, <1>6 DEF Core, PositionOfCurrent, OwnerInv, EndedInv
<1> QED
  BY Zenon, <1>8, <1>10, <1>11, <1>13, <1>14 DEF Core

\* The rest of a row after its first element.
TailOf(S, q, o, p) ==
  /\ Tail(q) \in Seq(S) /\ Len(Tail(q)) = Len(q) - 1 /\ Len(q) \in Nat \ {0}
  /\ (q \o o) \o p \in Seq(S) /\ (q \o o) \o p # <<>>
  /\ (Tail(q) \o o) \o p = Tail((q \o o) \o p)

\* Taking the first of the frames handed over takes the first of those that wait.
LEMMA TailJoined ==
  ASSUME NEW S, NEW q \in Seq(S), q # <<>>, NEW o \in Seq(S), NEW p \in Seq(S)
  PROVE  TailOf(S, q, o, p)
<1> DEFINE w == (q \o o) \o p
           v == (Tail(q) \o o) \o p
<1>1. /\ Tail(q) \in Seq(S) /\ Len(Tail(q)) = Len(q) - 1 /\ Len(q) \in Nat \ {0}
      /\ \A i \in 1..(Len(q) - 1) : Tail(q)[i] = q[i + 1]
      /\ Len(o) \in Nat /\ Len(p) \in Nat
  OBVIOUS
<1>2. /\ w \in Seq(S) /\ Len(w) = (Len(q) + Len(o)) + Len(p)
      /\ \A i \in 1..Len(w) : w[i] = IF i <= Len(q) THEN q[i]
                                     ELSE IF i <= Len(q) + Len(o) THEN o[i - Len(q)]
                                     ELSE p[i - (Len(q) + Len(o))]
  BY <1>1
<1>3. /\ v \in Seq(S) /\ Len(v) = ((Len(q) - 1) + Len(o)) + Len(p)
      /\ \A i \in 1..Len(v) : v[i] = IF i <= Len(q) - 1 THEN Tail(q)[i]
                                     ELSE IF i <= (Len(q) - 1) + Len(o) THEN o[i - (Len(q) - 1)]
                                     ELSE p[i - ((Len(q) - 1) + Len(o))]
  BY <1>1
<1> HIDE DEF w, v
<1>4. Len(w) \in Nat \ {0} /\ w # <<>>
  BY <1>1, <1>2
<1>5. /\ Tail(w) \in Seq(S) /\ Len(Tail(w)) = Len(w) - 1
      /\ \A i \in 1..(Len(w) - 1) : Tail(w)[i] = w[i + 1]
  BY <1>2, <1>4
<1>6. Len(v) = Len(Tail(w))
  BY SMTT(60), <1>1, <1>2, <1>3, <1>5
<1>7. ASSUME NEW i \in 1..Len(v)
      PROVE  v[i] = Tail(w)[i]
  <2>1. /\ i \in Nat /\ i + 1 \in 1..Len(w) /\ i \in 1..(Len(w) - 1)
        /\ i - (Len(q) - 1) = (i + 1) - Len(q)
        /\ i - ((Len(q) - 1) + Len(o)) = (i + 1) - (Len(q) + Len(o))
    BY SMTT(60), <1>1, <1>2, <1>3
  <2>2. CASE i <= Len(q) - 1
    BY SMTT(60), <1>1, <1>2, <1>3, <1>5, <2>1, <2>2
  <2>3. CASE i > Len(q) - 1 /\ i <= (Len(q) - 1) + Len(o)
    <3>1. ~(i <= Len(q) - 1) /\ ~(i + 1 <= Len(q)) /\ i + 1 <= Len(q) + Len(o)
      BY <1>1, <2>1, <2>3
    <3> QED
      BY Zenon, <1>2, <1>3, <1>5, <2>1, <2>3, <3>1
  <2>4. CASE i > (Len(q) - 1) + Len(o)
    <3>1. /\ ~(i <= Len(q) - 1) /\ ~(i + 1 <= Len(q))
          /\ ~(i <= (Len(q) - 1) + Len(o)) /\ ~(i + 1 <= Len(q) + Len(o))
      BY SMTT(60), <1>1, <2>1, <2>4
    <3> QED
      BY Zenon, <1>2, <1>3, <1>5, <2>1, <3>1
  <2> QED
    BY SMTT(60), <1>1, <2>1, <2>2, <2>3, <2>4
<1>8. v = Tail(w)
  BY <1>3, <1>5, <1>6, <1>7
<1> QED
  BY Zenon, <1>1, <1>2, <1>4, <1>8 DEF v, w, TailOf

\* A frame is sent: the line starts one frame later.
LEMMA SendLine ==
  ASSUME Core, Send, NEW e \in 0..(TrackTicks + FrameTicks), OnLine(e)
  PROVE  /\ OnLine(e + FrameTicks)' /\ e + FrameTicks \in 0..(TrackTicks + FrameTicks)
         /\ position.sent + FrameTicks \in 0..(2 * TrackTicks + FrameTicks)
         /\ Waiting # <<>> /\ Waiting' = Tail(Waiting)
         /\ queue' \in Seq(Frames) /\ Len(queue') = Len(queue) - 1 /\ Len(queue) \in Nat \ {0}
         /\ position'.sent = position.sent + FrameTicks /\ position'.of = position.of
<1>1. /\ queue # <<>> /\ queue' = Tail(queue)
      /\ position' = [position EXCEPT !.sent = @ + FrameTicks]
      /\ UNCHANGED <<worker, source, op, out, ended>>
  BY Zenon DEF Send
<1>2. TypeOK /\ queue \in Seq(Frames) /\ out \in Seq(Frames) /\ worker.pending \in Seq(Frames)
      /\ position.sent \in Nat /\ Waiting \in Seq(Frames)
  BY Zenon, TypeFacts DEF Core
<1>3. FrameTicks \in Nat \ {0} /\ TrackTicks \in Nat \ {0}
  BY Zenon, LayoutAssumption, StartFacts
<1>4. /\ queue' \in Seq(Frames) /\ Len(queue') = Len(queue) - 1 /\ Len(queue) \in Nat \ {0}
      /\ Waiting # <<>> /\ Waiting' = Tail(Waiting)
  <2>1. TailOf(Frames, queue, out, worker.pending)
    BY Zenon, <1>1, <1>2, TailJoined
  <2>2. Waiting = (queue \o out) \o worker.pending
        /\ Waiting' = (Tail(queue) \o out) \o worker.pending
    BY Zenon, <1>1 DEF Waiting
  <2> QED
    BY Zenon, <1>1, <2>1, <2>2 DEF TailOf
<1>5. position'.sent = position.sent + FrameTicks /\ position'.of = position.of
  BY Zenon, <1>1, <1>2 DEF TypeOK
<1>6. /\ e \in Nat /\ InLine(Waiting, e) /\ e <= position.sent
      /\ \E k \in Packets : position.sent < e + Duration(k)
  BY <1>3, <1>4 DEF OnLine
<1>7. PICK k \in Packets : position.sent < e + Duration(k)
  BY Zenon, <1>6
<1>8. InLine(Waiting', e + FrameTicks) /\ e < TrackTicks
  BY Zenon, <1>2, <1>4, <1>6, InLineTail
<1>9. Duration(k) \in Nat /\ Duration(k) <= TrackTicks
  BY Zenon, StartFacts
<1>10. /\ position.sent + FrameTicks \in 0..(2 * TrackTicks + FrameTicks)
       /\ e + FrameTicks \in 0..(TrackTicks + FrameTicks)
  BY SMTT(60), <1>2, <1>3, <1>6, <1>7, <1>8, <1>9
<1>11. e + FrameTicks <= position'.sent /\ position'.sent < (e + FrameTicks) + Duration(k)
  BY SMTT(60), <1>2, <1>3, <1>5, <1>6, <1>7, <1>9
<1>12. source # None /\ worker.norm.next # None =>
         worker.norm.next = (e + FrameTicks) + Len(Waiting') * FrameTicks
  <2>1. source # None /\ worker.norm.next # None =>
          worker.norm.next = e + Len(Waiting) * FrameTicks
    BY Zenon DEF OnLine
  <2>2. Len(Waiting') \in Nat /\ Len(Waiting) = 1 + Len(Waiting')
    BY <1>2, <1>4
  <2>3. (1 + Len(Waiting')) * FrameTicks = (1 * FrameTicks) + (Len(Waiting') * FrameTicks)
    BY <1>3, <2>2, ProductFacts
  <2>4. Len(Waiting') * FrameTicks \in Nat /\ 1 * FrameTicks = FrameTicks
    BY SMTT(60), <1>3, <2>2, ProductFacts
  <2>5. e + Len(Waiting) * FrameTicks = (e + FrameTicks) + Len(Waiting') * FrameTicks
    BY SMTT(60), <1>3, <1>6, <2>2, <2>3, <2>4
  <2> QED
    BY Zenon, <2>1, <2>5
<1>13. OnLine(e + FrameTicks)'
  BY Zenon, <1>1, <1>8, <1>11, <1>12 DEF OnLine
<1> QED
  BY Zenon, <1>4, <1>5, <1>10, <1>13

\* Sending keeps the invariant.
LEMMA SendCore ==
  ASSUME Core, Send
  PROVE  Core'
<1>1. /\ queue # <<>> /\ queue' = Tail(queue)
      /\ position' = [position EXCEPT !.sent = @ + FrameTicks]
      /\ UNCHANGED <<worker, source, op, out, ended>>
  BY Zenon DEF Send
<1>2. PICK e \in 0..(TrackTicks + FrameTicks) : OnLine(e)
  BY Zenon DEF Core, LineInv
<1>3. /\ OnLine(e + FrameTicks)' /\ e + FrameTicks \in 0..(TrackTicks + FrameTicks)
      /\ position.sent + FrameTicks \in 0..(2 * TrackTicks + FrameTicks)
      /\ Waiting # <<>> /\ Waiting' = Tail(Waiting)
      /\ queue' \in Seq(Frames) /\ Len(queue') = Len(queue) - 1 /\ Len(queue) \in Nat \ {0}
      /\ position'.sent = position.sent + FrameTicks /\ position'.of = position.of
  BY Zenon, <1>2, SendLine
<1>4. TypeOK /\ Waiting \in Seq(Frames)
  BY Zenon, TypeFacts DEF Core
<1>5. TypeOK'
  BY Zenon, <1>1, <1>3, <1>4 DEF TypeOK
<1>6. BytesContiguous' /\ StreamInv'
  BY Zenon, <1>1 DEF Core, BytesContiguous, StreamInv
<1>7. op # NoOp => op.kind = "refill"
  BY Zenon, <1>1, <1>4, OpFacts DEF Core, CallInv
<1>8. CallInv'
  <2>1. op # NoOp => op.limit + Len(queue') <= SourceTarget
    <3>1. op # NoOp => op.limit + Len(queue) <= SourceTarget /\ op.limit \in Nat
      BY Zenon, <1>4, <1>7, OpFacts DEF Core, CallInv
    <3> DEFINE l == Len(queue)
               m == Len(queue')
    <3>2. l \in Nat \ {0} /\ m = l - 1 /\ SourceTarget \in Nat
      BY Zenon, <1>3, LayoutAssumption
    <3>3. op # NoOp => op.limit + l <= SourceTarget /\ op.limit \in Nat
      BY Zenon, <3>1
    <3> HIDE DEF l, m
    <3>4. op # NoOp => op.limit + m <= SourceTarget
      BY <3>2, <3>3
    <3> QED
      BY Zenon, <3>4 DEF m
  <2>2. op # NoOp => op.stage \in {"loop", "read", "reresolve", "return"}
    BY Zenon, <1>7 DEF Core, CallInv
  <2> QED
    BY Zenon, <1>1, <1>7, <2>1, <2>2 DEF Core, CallInv
<1>9. NormInv'
  BY Zenon, <1>1, <1>7 DEF Core, NormInv
<1>10. LineInv'
  BY Zenon, <1>3 DEF LineInv
<1>11. AudioInv'
  <2>1. Sound(Waiting', Exhausted)
    BY Zenon, <1>3, <1>4, SoundTail DEF Core, AudioInv
  <2>2. Exhausted' = Exhausted
    BY Zenon, <1>1 DEF Exhausted
  <2> QED
    BY Zenon, <2>1, <2>2, SoundWeaker DEF AudioInv
<1>12. PositionOfCurrent' /\ OwnerInv' /\ EndedInv'
  BY Zenon, <1>1, <1>3 DEF Core, PositionOfCurrent, OwnerInv, EndedInv
<1> QED
  BY Zenon, <1>5, <1>6, <1>8, <1>9, <1>10, <1>11, <1>12 DEF Core

\* A call is dropped at an await.
LEMMA CancelCore ==
  ASSUME Core, Cancel
  PROVE  Core' /\ Steady
<1>1. op # NoOp /\ Fail /\ op.stage \in {"resolve", "open", "seek", "read", "reresolve"}
  BY Zenon DEF Cancel
<1>2. worker.pending = <<>>
  BY Zenon, <1>1 DEF Core, CallInv
<1> QED
  BY Zenon, <1>1, <1>2, FailCore

\* No step breaks what the invariant says.
LEMMA NextCore ==
  ASSUME Core, [Next]_vars
  PROVE  Core'
<1>1. CASE \E v \in Videos, reset \in BOOLEAN : Prepare(v, reset)
  BY Zenon, <1>1, PrepareCore
<1>2. CASE Refill
  BY Zenon, <1>2, RefillCore
<1>3. CASE Send
  BY Zenon, <1>3, SendCore
<1>4. CASE Cancel
  BY Zenon, <1>4, CancelCore
<1>5. CASE Resolve
  BY Zenon, <1>5, ResolveCore
<1>6. CASE OpenRead
  BY Zenon, <1>6, OpenReadCore
<1>7. CASE FillTurn
  BY Zenon, <1>7, FillTurnCore
<1>8. CASE FillRead
  BY Zenon, <1>8, FillReadCore
<1>9. CASE FillReturn
  <2>1. op # NoOp /\ op.stage = "return" /\ Filled
    BY Zenon, <1>9 DEF FillReturn
  <2> QED
    BY Zenon, <2>1, FilledCore
<1>10. CASE Reresolve
  BY Zenon, <1>10, ReresolveCore
<1>11. CASE UNCHANGED vars
  <2>1. /\ TypeOK' /\ BytesContiguous' /\ StreamInv' /\ CallInv' /\ NormInv'
        /\ PositionOfCurrent' /\ OwnerInv' /\ EndedInv'
    <3>1. UNCHANGED <<worker, position, source, op, out, queue, ended>>
      BY Zenon, <1>11 DEF vars
    <3>2. TypeOK' /\ BytesContiguous' /\ StreamInv'
      BY ZenonT(60), <3>1 DEF Core, TypeOK, BytesContiguous, StreamInv
    <3>3. CallInv'
      BY Zenon, <3>1 DEF Core, CallInv
    <3>4. NormInv'
      BY Zenon, <3>1 DEF Core, NormInv
    <3>5. PositionOfCurrent' /\ OwnerInv' /\ EndedInv'
      BY Zenon, <3>1 DEF Core, PositionOfCurrent, OwnerInv, EndedInv
    <3> QED
      BY Zenon, <3>2, <3>3, <3>4, <3>5
  <2>2. /\ worker' = worker /\ position' = position /\ source' = source
        /\ Waiting' = Waiting /\ Exhausted' = Exhausted
    BY Zenon, <1>11 DEF vars, Waiting, Exhausted
  <2>3. LineInv' /\ AudioInv'
    BY Zenon, <2>2, LineKept, AudioKept DEF Core
  <2> QED
    BY Zenon, <2>1, <2>3 DEF Core
<1> QED
  BY ZenonT(60), <1>1, <1>2, <1>3, <1>4, <1>5, <1>6, <1>7, <1>8, <1>9, <1>10, <1>11 DEF Next, Step

-----------------------------------------------------------------------------
(* The theorems.                                                           *)

\* In every state of every execution.
LEMMA CoreAlways == Spec => []Core
<1>1. Init => Core
  BY Zenon, InitCore
<1>2. Core /\ [Next]_vars => Core'
  BY Zenon, NextCore
<1> QED
  BY <1>1, <1>2, PTL DEF Spec

\* The bytes of the resource are read one after the other, the frames lie on
\* one line with what the normalizer and the demuxer hold, every call finds at
\* each of its awaits what it left there, and the position belongs to the
\* current video and lies in the packet played next, whatever the server, the
\* resolver and the clients do.
THEOREM SourceInvariant == Spec => []SourceInv
<1>1. Core => SourceInv
  BY Zenon, CoreIsInv
<1> QED
  BY <1>1, CoreAlways, PTL

\* The frames the worker has queued follow each other without gap or overlap
\* and hold the audio their positions claim: push_packet, flush, enqueue_frames
\* and drain_pending_frames lose, repeat and move nothing.
THEOREM FramesAlwaysInOrder == Spec => []FramesInOrder
<1>1. Core => FramesInOrder
  <2> SUFFICES ASSUME Core
               PROVE  FramesInOrder
    OBVIOUS
  <2>1. Sound(Waiting, TRUE)
    BY Zenon, SoundWeaker DEF Core, AudioInv
  <2>2. PICK e \in 0..(TrackTicks + FrameTicks) : OnLine(e)
    BY Zenon DEF Core, LineInv
  <2>3. /\ e \in Nat /\ FrameTicks \in Nat \ {0} /\ InLine(Waiting, e)
        /\ Waiting \in Seq(Frames) /\ Len(Waiting) \in Nat
    BY SMTT(60), <2>2, TypeFacts, StartFacts, LayoutAssumption DEF Core, OnLine
  <2>4. ASSUME NEW i \in 2..Len(Waiting)
        PROVE  Waiting[i].at = Waiting[i - 1].at + FrameTicks
    <3>1. i - 1 \in 1..Len(Waiting) /\ i \in 1..Len(Waiting) /\ i - 1 = 1 + ((i - 1) - 1)
          /\ (i - 1) - 1 \in Nat
      BY <2>3
    <3>2. /\ Waiting[i].at = e + (i - 1) * FrameTicks
          /\ Waiting[i - 1].at = e + ((i - 1) - 1) * FrameTicks
      BY Zenon, <2>3, <3>1 DEF InLine
    <3>3. /\ (1 + ((i - 1) - 1)) * FrameTicks
               = (1 * FrameTicks) + (((i - 1) - 1) * FrameTicks)
          /\ ((i - 1) - 1) * FrameTicks \in Nat /\ 1 * FrameTicks = FrameTicks
      BY SMTT(60), <2>3, <3>1, ProductFacts
    <3> QED
      BY SMTT(60), <2>3, <3>1, <3>2, <3>3
  <2> QED
    BY Zenon, <2>1, <2>4 DEF FramesInOrder
<1> QED
  BY <1>1, CoreAlways, PTL

\* With the whole resource read and every packet pushed and flushed, the
\* normalizer has reached the end of the track.
LEMMA AllFramed ==
  ASSUME Core, source # None, worker.norm.next # None, source.packets = {},
         worker.norm.pcm = <<>>, source.stream.pos = ResourceEnd, ~source.mixed
  PROVE  worker.norm.next >= TrackTicks
<1>1. GoodSource(source) /\ worker.norm.next \in Nat
  BY Zenon, SourceGood, TypeFacts DEF Core
<1>2. source.parsed = LastPacket
  BY Zenon, <1>1, ResourceFacts DEF GoodSource
<1>3. LastPacket \in Nat /\ Start[LastPacket + 1] = TrackTicks /\ TrackTicks \in Nat
  BY Zenon, StartFacts
<1>4. \/ \E k \in 1..(source.parsed + 1) :
           Start[k] = worker.norm.next + Len(worker.norm.pcm) /\ source.packets = k..source.parsed
      \/ Start[source.parsed + 1] <= worker.norm.next
  <2>1. worker.norm # NewNormalizer
    BY DEF NewNormalizer
  <2> QED
    BY Zenon, <2>1 DEF Core, NormInv
<1>5. ASSUME NEW k \in 1..(source.parsed + 1),
             Start[k] = worker.norm.next + Len(worker.norm.pcm),
             source.packets = k..source.parsed
      PROVE  worker.norm.next = TrackTicks
  <2>1. k \notin k..source.parsed
    BY Zenon, <1>5
  <2>2. k = LastPacket + 1
    BY SMTT(60), <1>2, <1>3, <2>1
  <2>3. Len(<<>>) = 0
    OBVIOUS
  <2> QED
    BY SMTT(60), <1>1, <1>3, <1>5, <2>2, <2>3
<1> QED
  BY SMTT(60), <1>1, <1>2, <1>3, <1>4, <1>5

\* end_of_stream is announced only when the whole track has become frames that
\* have been handed over, unless the stream has switched encodings: a short
\* response, a timeout or a reopened stream is never taken for the end.
THEOREM EndAlwaysComplete == Spec => []EndIsComplete
<1>1. Core => EndIsComplete
  <2> SUFFICES ASSUME Core, ended, ~source.mixed
               PROVE  /\ worker.norm.next >= TrackTicks /\ worker.pending = <<>>
                      /\ source.packets = {} /\ worker.norm.pcm = <<>>
    BY Zenon DEF EndIsComplete
  <2>1. /\ op = NoOp /\ source # None /\ worker.pending = <<>>
        /\ source.packets = {} /\ worker.norm.pcm = <<>> /\ source.stream.pos = ResourceEnd
    BY Zenon DEF Core, EndedInv
  <2>2. worker.norm.next # None
    BY Zenon, <2>1 DEF Core, CallInv
  <2> QED
    BY Zenon, <2>1, <2>2, AllFramed
<1> QED
  BY <1>1, CoreAlways, PTL

\* An open that ends in a source or in an error leaves the position where it is.
LEMMA OpenKeepsPosition ==
  ASSUME Core, OpenRead
  PROVE  position'.sent = position.sent
<1>1. op.stage \in {"open", "seek"} /\ op # NoOp
  BY Zenon DEF OpenRead
<1>2. position.sent = op.resume
  BY Zenon, <1>1, OpeningFacts
<1>3. ASSUME NEW err, OpenFailed(err)
      PROVE  position' = position
  BY Zenon, <1>3 DEF OpenFailed, Fail
<1>4. ASSUME NEW src, SourceOpened(src)
      PROVE  position'.sent = position.sent
  <2>1. CASE TimestampTicks(src) < op.resume
    <3>1. OpenFailed("detail")
      BY Zenon, <1>4, <2>1 DEF SourceOpened
    <3> QED
      BY Zenon, <1>3, <3>1
  <2>2. CASE ~(TimestampTicks(src) < op.resume)
    <3>1. position' = [sent |-> op.resume, of |-> op.video]
      BY Zenon, <1>4, <2>2 DEF SourceOpened
    <3> QED
      BY Zenon, <1>2, <3>1
  <2> QED
    BY Zenon, <2>1, <2>2
<1>5. OpeningTimeout => position' = position
  BY Zenon, <1>3 DEF OpeningTimeout
<1>6. \/ position' = position
      \/ \E src : SourceOpened(src)
      \/ \E err : OpenFailed(err)
      \/ OpeningTimeout
  BY Zenon DEF OpenRead
<1> QED
  BY Zenon, <1>3, <1>4, <1>5, <1>6

\* A fill call never moves the position.
LEMMA FillKeepsPosition ==
  ASSUME Resolve \/ FillTurn \/ FillRead \/ FillReturn \/ Reresolve \/ Refill \/ Cancel
  PROVE  position' = position
<1>1. Fail \/ Filled => position' = position
  BY Zenon DEF Fail, Filled
<1>2. CASE FillTurn
  BY Zenon, <1>1, <1>2 DEF FillTurn
<1>3. CASE FillRead
  BY Zenon, <1>1, <1>3 DEF FillRead
<1>4. CASE Resolve \/ FillReturn \/ Reresolve \/ Refill \/ Cancel
  BY Zenon, <1>1, <1>4 DEF Resolve, FillReturn, Reresolve, Refill, Cancel
<1> QED
  BY Zenon, <1>2, <1>3, <1>4

\* Only a Play of another video, or one after a reset, moves the position back;
\* a Play of the same video that fails, times out or is dropped leaves it for
\* the next attempt.
THEOREM PositionNeverLost == Spec => PositionKept
<1> DEFINE Excused == \E v \in Videos, reset \in BOOLEAN :
                        Prepare(v, reset) /\ (reset \/ v # worker.current)
<1>1. ASSUME Core, [Next]_vars
      PROVE  [position'.sent < position.sent => Excused]_vars
  <2>1. position.sent \in Nat /\ FrameTicks \in Nat
    BY Zenon, <1>1, TypeFacts, LayoutAssumption DEF Core
  <2>2. CASE UNCHANGED vars
    BY Zenon, <2>2
  <2>3. ASSUME NEW v \in Videos, NEW reset \in BOOLEAN, Prepare(v, reset)
        PROVE  position'.sent < position.sent => Excused
    <3>1. position' = IF ~reset /\ worker.current = v THEN position ELSE NewPosition
      BY Zenon, <2>3 DEF Prepare
    <3>2. CASE ~reset /\ worker.current = v
      BY <2>1, <3>1, <3>2
    <3>3. CASE ~(~reset /\ worker.current = v)
      BY Zenon, <2>3, <3>3
    <3> QED
      BY Zenon, <3>2, <3>3
  <2>4. CASE Send
    <3>1. position'.sent = position.sent + FrameTicks
      BY Zenon, <1>1, <2>4 DEF Core, TypeOK, Send
    <3> QED
      BY <2>1, <3>1
  <2>5. CASE OpenRead
    BY SMTT(60), <1>1, <2>1, <2>5, OpenKeepsPosition
  <2>6. CASE Resolve \/ FillTurn \/ FillRead \/ FillReturn \/ Reresolve \/ Refill \/ Cancel
    BY <2>1, <2>6, FillKeepsPosition
  <2> QED
    BY Zenon, <1>1, <2>2, <2>3, <2>4, <2>5, <2>6 DEF Next, Step
<1>2. Core /\ [Next]_vars => [position'.sent < position.sent => Excused]_vars
  BY Zenon, <1>1
<1> QED
  BY <1>2, CoreAlways, PTL DEF Spec, PositionKept

-----------------------------------------------------------------------------
(* TrackSource implements FrameFeed, step by step.                         *)

\* The next frame to leave is where the line starts.
LEMMA NextToLeave ==
  ASSUME NEW w \in Seq(Frames), NEW e \in Nat, InLine(w, e),
         NEW next, next = e + Len(w) * FrameTicks
  PROVE  (w # <<>> => Head(w).at = e) /\ (w = <<>> => next = e)
<1>1. ASSUME w # <<>>
      PROVE  Head(w).at = e
  <2>1. w[1].at = e
    BY Zenon, <1>1, InLineTail
  <2>2. Head(w) = w[1]
    BY <1>1
  <2> QED
    BY Zenon, <2>1, <2>2
<1>2. ASSUME w = <<>>
      PROVE  next = e
  <2>1. Len(w) = 0 /\ 0 * FrameTicks = 0
    BY <1>2, LayoutAssumption
  <2> QED
    BY <2>1
<1> QED
  BY Zenon, <1>1, <1>2

\* The two phases of a call.
LEMMA PhaseFacts ==
  ASSUME TypeOK, CallInv
  PROVE  /\ FeedPhase = "preparing" <=> op # NoOp /\ op.kind = "prepare"
         /\ FeedPhase = "feeding" <=> source # None /\ ~(op # NoOp /\ op.kind = "prepare")
         /\ FeedPhase = "idle" <=> source = None /\ ~(op # NoOp /\ op.kind = "prepare")
         /\ op # NoOp => FeedPhase # "idle"
         /\ FeedPhase = "preparing" => FeedAt = None /\ Len(queue) = 0
<1>1. /\ FeedPhase = "preparing" <=> op # NoOp /\ op.kind = "prepare"
      /\ FeedPhase = "feeding" <=> source # None /\ ~(op # NoOp /\ op.kind = "prepare")
      /\ FeedPhase = "idle" <=> source = None /\ ~(op # NoOp /\ op.kind = "prepare")
  BY Zenon DEF FeedPhase
<1>2. op # NoOp => FeedPhase # "idle"
  BY Zenon, <1>1, OpFacts DEF CallInv
<1>3. FeedPhase = "preparing" => FeedAt = None
  BY Zenon DEF FeedAt
<1>4. FeedPhase = "preparing" => Len(queue) = 0
  <2>1. FeedPhase = "preparing" => queue = <<>>
    BY Zenon, <1>1 DEF CallInv
  <2>2. Len(<<>>) = 0
    OBVIOUS
  <2> QED
    BY Zenon, <2>1, <2>2
<1> QED
  BY Zenon, <1>1, <1>2, <1>3, <1>4

\* Where the feed is, before a step.
LEMMA FeedAtLine ==
  ASSUME Core, NEW e \in 0..(TrackTicks + FrameTicks), OnLine(e), FeedPhase # "preparing"
  PROVE  FeedAt = IF source # None \/ queue # <<>> THEN e ELSE None
<1>1. queue \in Seq(Frames) /\ out \in Seq(Frames) /\ worker.pending \in Seq(Frames)
      /\ e \in Nat
  <2>1. TypeOK
    BY Zenon DEF Core
  <2>2. e \in Nat
    OBVIOUS
  <2> QED
    BY Zenon, <2>1, <2>2, TypeFacts
<1>2. InLine((queue \o out) \o worker.pending, e)
  BY Zenon DEF OnLine, Waiting
<1>3. source # None => worker.norm.next # None
  BY Zenon, OpFacts DEF Core, CallInv, FeedPhase
<1>4. source # None =>
        worker.norm.next = e + Len((queue \o out) \o worker.pending) * FrameTicks
  BY Zenon, <1>3 DEF OnLine, Waiting
<1>5. CASE source # None
  <2>1. Waiting \in Seq(Frames) /\ InLine(Waiting, e)
        /\ worker.norm.next = e + Len(Waiting) * FrameTicks
    <3>1. Waiting \in Seq(Frames)
      BY Zenon, TypeFacts DEF Core
    <3> QED
      BY Zenon, <1>2, <1>4, <1>5, <3>1 DEF Waiting
  <2>2. (Waiting # <<>> => Head(Waiting).at = e) /\ (Waiting = <<>> => worker.norm.next = e)
    BY Zenon, <1>1, <2>1, NextToLeave
  <2>3. FeedAt = IF Waiting # <<>> THEN Head(Waiting).at ELSE worker.norm.next
    BY Zenon, <1>5 DEF FeedAt
  <2> QED
    BY Zenon, <1>5, <2>2, <2>3
<1>6. CASE source = None
  <2>1. queue # <<>> => Head(queue).at = e
    BY Zenon, <1>1, <1>2, FirstInLine
  <2>2. FeedAt = IF queue # <<>> THEN Head(queue).at ELSE None
    BY Zenon, <1>6 DEF FeedAt
  <2> QED
    BY Zenon, <1>6, <2>1, <2>2
<1> QED
  BY Zenon, <1>5, <1>6

\* And after it.
LEMMA FeedAtLineNext ==
  ASSUME Core', NEW e \in 0..(TrackTicks + FrameTicks), OnLine(e)', FeedPhase' # "preparing"
  PROVE  FeedAt' = IF source' # None \/ queue' # <<>> THEN e ELSE None
<1>1. queue' \in Seq(Frames) /\ out' \in Seq(Frames) /\ worker'.pending \in Seq(Frames)
      /\ e \in Nat
  BY StartFacts, LayoutAssumption DEF Core, TypeOK
<1>2. InLine((queue' \o out') \o worker'.pending, e)
  BY Zenon DEF OnLine, Waiting
<1>3. source' # None => worker'.norm.next # None
  <2>1. op' # NoOp => op'.kind \in {"prepare", "refill"}
    BY Zenon DEF Core, TypeOK, Ops
  <2> QED
    BY Zenon, <2>1 DEF Core, CallInv, FeedPhase
<1>4. source' # None =>
        worker'.norm.next = e + Len((queue' \o out') \o worker'.pending) * FrameTicks
  BY Zenon, <1>3 DEF OnLine, Waiting
<1>5. CASE source' # None
  <2>1. Waiting' \in Seq(Frames) /\ InLine(Waiting', e)
        /\ worker'.norm.next = e + Len(Waiting') * FrameTicks
    <3>1. (queue' \o out') \o worker'.pending \in Seq(Frames)
      BY <1>1
    <3> QED
      BY Zenon, <1>2, <1>4, <1>5, <3>1 DEF Waiting
  <2>2. (Waiting' # <<>> => Head(Waiting').at = e) /\ (Waiting' = <<>> => worker'.norm.next = e)
    BY Zenon, <1>1, <2>1, NextToLeave
  <2>3. FeedAt' = IF Waiting' # <<>> THEN Head(Waiting').at ELSE worker'.norm.next
    BY Zenon, <1>5 DEF FeedAt
  <2> QED
    BY Zenon, <1>5, <2>2, <2>3
<1>6. CASE source' = None
  <2>1. queue' # <<>> => Head(queue').at = e
    BY Zenon, <1>1, <1>2, FirstInLine
  <2>2. FeedAt' = IF queue' # <<>> THEN Head(queue').at ELSE None
    BY Zenon, <1>6 DEF FeedAt
  <2> QED
    BY Zenon, <1>6, <2>1, <2>2
<1> QED
  BY Zenon, <1>5, <1>6

\* A source that has switched encodings.
Mixed == source # None /\ source.mixed

\* A step of a call that hands nothing over and does not end it.
GoingOn ==
  /\ op' # NoOp /\ op'.kind = op.kind /\ (Mixed => Mixed')
  /\ position'.sent = position.sent /\ UNCHANGED <<queue, ended>>

\* Having switched is a matter of yes or no.
LEMMA MixedFacts ==
  /\ Core => Mixed \in BOOLEAN
  /\ Core' => Mixed' \in BOOLEAN
<1>1. ASSUME Core
      PROVE  Mixed \in BOOLEAN
  BY Zenon, <1>1 DEF Core, TypeOK, Sources, Mixed
<1>2. ASSUME Core'
      PROVE  Mixed' \in BOOLEAN
  BY Zenon, <1>2 DEF Core, TypeOK, Sources, Mixed
<1> QED
  BY Zenon, <1>1, <1>2

\* A refill has a source.
LEMMA RefillHasSource ==
  /\ Core /\ op # NoOp /\ op.kind = "refill" => source # None /\ worker.norm.next # None
  /\ Core' /\ op' # NoOp /\ op'.kind = "refill" => source' # None
<1>1. ASSUME Core, op # NoOp, op.kind = "refill"
      PROVE  source # None /\ worker.norm.next # None
  BY Zenon, <1>1 DEF Core, CallInv
<1>2. ASSUME Core', op' # NoOp, op'.kind = "refill"
      PROVE  source' # None
  BY Zenon, <1>2 DEF Core, CallInv
<1> QED
  BY Zenon, <1>1, <1>2

\* The next frame stays where it is when the line does and the source and what
\* was handed over are still there.
LEMMA FeedAtKept ==
  ASSUME Core, Core', Steady, FeedPhase # "preparing", FeedPhase' # "preparing",
         source # None, source' # None
  PROVE  FeedAt' = FeedAt /\ FeedAt \in Nat
<1>1. PICK e \in 0..(TrackTicks + FrameTicks) : OnLine(e)
  BY Zenon DEF Core, LineInv
<1>2. OnLine(e)'
  BY Zenon, <1>1 DEF Steady
<1>3. FeedAt = e
  BY Zenon, <1>1, FeedAtLine
<1>4. FeedAt' = e
  BY Zenon, <1>2, FeedAtLineNext
<1>5. e \in Nat
  BY StartFacts, LayoutAssumption
<1> QED
  BY Zenon, <1>3, <1>4, <1>5

\* A step of a call that goes on: the feed stutters, or switches encodings.
LEMMA CallFeeds ==
  ASSUME Core, Core', op # NoOp, worker.norm.next # None => Steady, GoingOn
  PROVE  Feed!Next \/ UNCHANGED Feed!vars
<1>1. FeedPhase' = FeedPhase /\ FeedPhase # "idle"
  <2>1. CASE op.kind = "prepare"
    BY Zenon, <2>1 DEF FeedPhase, GoingOn
  <2>2. CASE op.kind = "refill"
    <3>1. source # None /\ source' # None /\ op'.kind = "refill"
      BY Zenon, <2>2, RefillHasSource DEF GoingOn
    <3> QED
      BY Zenon, <2>2, <3>1 DEF FeedPhase
  <2>3. op.kind \in {"prepare", "refill"}
    BY Zenon, OpFacts DEF Core
  <2> QED
    BY Zenon, <2>1, <2>2, <2>3
<1>2. FeedAt' = FeedAt
  <2>1. CASE FeedPhase = "preparing"
    BY Zenon, <1>1, <2>1 DEF FeedAt
  <2>2. CASE FeedPhase # "preparing"
    <3>1. op.kind = "refill"
      BY Zenon, <2>2, PhaseFacts, OpFacts DEF Core
    <3>2. source # None /\ source' # None /\ worker.norm.next # None
      BY Zenon, <3>1, RefillHasSource DEF GoingOn
    <3> QED
      BY Zenon, <1>1, <2>2, <3>2, FeedAtKept
  <2> QED
    BY Zenon, <2>1, <2>2
<1>3. Len(queue') = Len(queue) /\ ended' = ended /\ position'.sent = position.sent
  BY Zenon DEF GoingOn
<1>4. CASE Mixed' = Mixed
  BY Zenon, <1>1, <1>2, <1>3, <1>4 DEF Feed!vars, Mixed
<1>5. CASE Mixed' = TRUE
  <2>1. Feed!Switch
    BY Zenon, <1>1, <1>2, <1>3, <1>5 DEF Feed!Switch, Mixed
  <2> QED
    BY Zenon, <2>1 DEF Feed!Next
<1>6. Mixed' = Mixed \/ Mixed' = TRUE
  BY Zenon, MixedFacts DEF GoingOn
<1> QED
  BY Zenon, <1>4, <1>5, <1>6

\* A call that fails or is dropped breaks the feed.
LEMMA FailFeeds ==
  ASSUME Core, Core', Steady, op # NoOp, Fail
  PROVE  Feed!Next
<1>1. op' = NoOp /\ source' = None /\ UNCHANGED <<position, queue, ended>>
  BY Zenon DEF Fail
<1>2. FeedPhase # "idle" /\ FeedPhase' = "idle"
  BY Zenon, <1>1, PhaseFacts DEF FeedPhase, Core
<1>3. queue \in Seq(Frames)
  BY Zenon, TypeFacts DEF Core
<1>4. Len(queue) > 0 <=> queue # <<>>
  BY <1>3
<1>5. FeedAt' = IF Len(queue) > 0 THEN FeedAt ELSE None
  <2>1. CASE queue = <<>>
    <3>1. FeedAt' = None
      BY Zenon, <1>1, <1>2, <2>1 DEF FeedAt
    <3> QED
      BY Zenon, <1>4, <2>1, <3>1
  <2>2. CASE queue # <<>>
    <3>1. FeedPhase # "preparing"
      BY Zenon, <2>2, PhaseFacts DEF Core, CallInv
    <3>2. PICK e \in 0..(TrackTicks + FrameTicks) : OnLine(e)
      BY Zenon DEF Core, LineInv
    <3>3. OnLine(e)'
      BY Zenon, <3>2 DEF Steady
    <3>4. FeedAt = e
      BY Zenon, <2>2, <3>1, <3>2, FeedAtLine
    <3>5. FeedAt' = e
      BY Zenon, <1>1, <1>2, <2>2, <3>3, FeedAtLineNext
    <3> QED
      BY Zenon, <1>4, <2>2, <3>4, <3>5
  <2> QED
    BY Zenon, <2>1, <2>2
<1>6. Feed!Break
  BY Zenon, <1>1, <1>2, <1>5 DEF Feed!Break
<1> QED
  BY Zenon, <1>6 DEF Feed!Next

\* Before anything is played the feed is idle.
LEMMA InitFeeds ==
  ASSUME Init
  PROVE  Feed!Init
<1>1. /\ op = NoOp /\ source = None /\ queue = <<>> /\ ended = FALSE /\ position.sent = 0
  BY Zenon DEF Init, NewPosition
<1>2. FeedPhase = "idle" /\ Len(queue) = 0
  BY Zenon, <1>1 DEF FeedPhase
<1>3. FeedAt = None
  BY Zenon, <1>1, <1>2 DEF FeedAt
<1> QED
  BY Zenon, <1>1, <1>2, <1>3 DEF Feed!Init

\* Play prepares the feed.
LEMMA PrepareFeeds ==
  ASSUME NEW v \in Videos, NEW reset \in BOOLEAN, Prepare(v, reset)
  PROVE  Feed!Next
<1>1. /\ op = NoOp /\ op'.kind = "prepare" /\ queue' = <<>> /\ ended' = FALSE
      /\ position' = IF ~reset /\ worker.current = v THEN position ELSE NewPosition
      /\ source' = None \/ source' = NewSource(v, worker.lastEncoding)
  BY Zenon DEF Prepare
<1>2. FeedPhase # "preparing"
  BY Zenon, <1>1 DEF FeedPhase
<1>3. op' # NoOp
  BY <1>1 DEF NoOp
<1>4. FeedPhase' = "preparing"
  BY Zenon, <1>1, <1>3 DEF FeedPhase
<1>5. FeedAt' = None
  BY Zenon, <1>4 DEF FeedAt
<1>6. (source' # None /\ source'.mixed) = FALSE
  <2>1. NewSource(v, worker.lastEncoding).mixed = FALSE
    BY Zenon DEF NewSource
  <2> QED
    BY Zenon, <1>1, <2>1
<1>7. position'.sent \in {0, position.sent}
  BY Zenon, <1>1 DEF NewPosition
<1>8. Len(queue') = 0
  BY Zenon, <1>1
<1>9. Feed!Prepare
  BY ZenonT(60), <1>1, <1>2, <1>4, <1>5, <1>6, <1>7, <1>8 DEF Feed!Prepare
<1> QED
  BY Zenon, <1>9 DEF Feed!Next

\* A refill starts without moving the feed.
LEMMA RefillFeeds ==
  ASSUME Core, Refill
  PROVE  UNCHANGED Feed!vars
<1>1. /\ op = NoOp /\ source # None /\ op'.kind = "refill"
      /\ UNCHANGED <<position, source, queue, ended>>
  BY Zenon DEF Refill
<1>2. FeedPhase = "feeding" /\ FeedPhase' = "feeding"
  BY Zenon, <1>1 DEF FeedPhase
<1>3. Core' /\ Steady
  BY Zenon, RefillCore
<1>4. FeedAt' = FeedAt
  BY Zenon, <1>1, <1>2, <1>3, FeedAtKept
<1> QED
  BY Zenon, <1>1, <1>2, <1>4 DEF Feed!vars

\* A frame that leaves is the next one, and the next one follows it.
LEMMA SendFeeds ==
  ASSUME Core, Send
  PROVE  Feed!Next
<1>1. queue # <<>> /\ UNCHANGED <<source, op, ended>>
  BY Zenon DEF Send
<1>2. Core'
  BY Zenon, SendCore
<1>3. PICK e \in 0..(TrackTicks + FrameTicks) : OnLine(e)
  BY Zenon DEF Core, LineInv
<1>4. /\ OnLine(e + FrameTicks)' /\ e + FrameTicks \in 0..(TrackTicks + FrameTicks)
      /\ queue' \in Seq(Frames) /\ Len(queue') = Len(queue) - 1 /\ Len(queue) \in Nat \ {0}
      /\ position'.sent = position.sent + FrameTicks
  BY Zenon, <1>3, SendLine
<1>5. PICK d \in 0..(TrackTicks + FrameTicks) : d = e + FrameTicks
  BY Zenon, <1>4
<1>6. OnLine(d)'
  BY Zenon, <1>4, <1>5
<1>7. FeedPhase # "preparing" /\ FeedPhase' = FeedPhase
      /\ (FeedPhase = "feeding" <=> source # None)
  <2>1. ~(op # NoOp /\ op.kind = "prepare")
    BY Zenon, <1>1 DEF Core, CallInv
  <2> QED
    BY Zenon, <1>1, <2>1 DEF FeedPhase
<1>8. FeedAt = e
  BY Zenon, <1>1, <1>3, <1>7, FeedAtLine
<1>9. FeedAt' = IF source' # None \/ queue' # <<>> THEN d ELSE None
  BY Zenon, <1>2, <1>6, <1>7, FeedAtLineNext
<1>10. queue' # <<>> <=> Len(queue) > 1
  <2>1. queue' # <<>> <=> Len(queue') > 0
    BY <1>4
  <2> DEFINE l == Len(queue)
             m == Len(queue')
  <2>2. l \in Nat \ {0} /\ m = l - 1
    BY Zenon, <1>4
  <2> HIDE DEF l, m
  <2>3. m > 0 <=> l > 1
    BY <2>2
  <2> QED
    BY Zenon, <2>1, <2>3 DEF l, m
<1>11. FeedAt' = IF FeedPhase = "feeding" \/ Len(queue) > 1 THEN FeedAt + FrameTicks ELSE None
  BY ZenonT(60), <1>1, <1>5, <1>7, <1>8, <1>9, <1>10
<1>12. Len(queue) > 0
  BY <1>4
<1>13. Feed!Emit
  BY Zenon, <1>1, <1>4, <1>7, <1>11, <1>12 DEF Feed!Emit
<1> QED
  BY Zenon, <1>13 DEF Feed!Next

\* What a call that returns hands over fits the source buffer.
LEMMA HandedOver ==
  ASSUME Core, op # NoOp, queue' = queue \o out
  PROVE  /\ Len(queue') \in Len(queue)..SourceTarget /\ Len(queue) \in Nat
         /\ out # <<>> => Len(queue') \in 1..SourceTarget /\ queue' # <<>>
<1>1. TypeOK /\ queue \in Seq(Frames) /\ out \in Seq(Frames)
  BY Zenon, TypeFacts DEF Core
<1>2. op.limit \in Nat /\ op.kind \in {"prepare", "refill"} /\ SourceTarget \in Nat
  BY Zenon, <1>1, OpFacts, LayoutAssumption
<1>3. Len(out) <= op.limit /\ op.limit + Len(queue) <= SourceTarget
  <2>1. Len(out) <= op.limit
    BY Zenon DEF Core, CallInv
  <2>2. CASE op.kind = "refill"
    BY Zenon, <2>1, <2>2 DEF Core, CallInv
  <2>3. CASE op.kind = "prepare"
    <3>1. queue = <<>> /\ op.limit = SourceTarget
      BY Zenon, <2>3 DEF Core, CallInv
    <3>2. Len(queue) = 0
      BY Zenon, <3>1
    <3> QED
      BY SMTT(60), <1>2, <2>1, <3>1, <3>2
  <2> QED
    BY Zenon, <1>2, <2>2, <2>3
<1>4. /\ Len(queue') = Len(queue) + Len(out) /\ Len(queue) \in Nat /\ Len(out) \in Nat
      /\ out # <<>> => Len(out) > 0
  BY <1>1
<1>5. out # <<>> => queue' # <<>>
  BY <1>1
<1> DEFINE l == Len(queue)
           m == Len(out)
           n == Len(queue')
<1>6. n = l + m /\ l \in Nat /\ m \in Nat /\ m <= op.limit /\ op.limit + l <= SourceTarget
  BY Zenon, <1>3, <1>4
<1> HIDE DEF l, m, n
<1>7. n \in l..SourceTarget /\ (m > 0 => n \in 1..SourceTarget)
  BY <1>2, <1>6
<1> QED
  BY Zenon, <1>4, <1>5, <1>7 DEF l, m, n

\* The end a refill announces is the end of the track.
LEMMA EndReached ==
  ASSUME Core, Core', Steady, op # NoOp, op.kind = "refill", ended', ~Mixed,
         queue' = queue \o out, out' = <<>>, op' = NoOp, UNCHANGED <<worker, source>>
  PROVE  FeedAt + Len(queue') * FrameTicks >= TrackTicks
<1>1. /\ source # None /\ worker.pending = <<>> /\ source.packets = {}
      /\ worker.norm.pcm = <<>> /\ source.stream.pos = ResourceEnd
  BY Zenon DEF Core, EndedInv
<1>2. worker.norm.next # None /\ ~source.mixed
  BY Zenon, <1>1, RefillHasSource DEF Mixed
<1>3. worker.norm.next >= TrackTicks
  BY Zenon, <1>1, <1>2, AllFramed
<1>4. FeedPhase # "preparing"
  BY Zenon, PhaseFacts DEF Core
<1>5. PICK e \in 0..(TrackTicks + FrameTicks) : OnLine(e)
  BY Zenon DEF Core, LineInv
<1>6. FeedAt = e
  BY Zenon, <1>1, <1>4, <1>5, FeedAtLine
<1>7. OnLine(e)'
  BY Zenon, <1>5 DEF Steady
<1>8. Waiting' = queue'
  <2>1. queue' \in Seq(Frames)
    BY Zenon DEF Core, TypeOK
  <2> QED
    BY <1>1, <2>1 DEF Waiting
<1>9. worker'.norm.next = e + Len(Waiting') * FrameTicks
  BY Zenon, <1>1, <1>2, <1>7 DEF OnLine
<1> QED
  BY Zenon, <1>3, <1>6, <1>8, <1>9

\* A call that returns begins or extends the feed.
LEMMA FilledFeeds ==
  ASSUME Core, Core', Steady, op # NoOp, Filled
  PROVE  Feed!Next
<1>1. CASE op.kind = "prepare" /\ out = <<>>
  <2>1. Fail
    BY Zenon, <1>1 DEF Filled
  <2> QED
    BY Zenon, <2>1, FailFeeds
<1>2. CASE ~(op.kind = "prepare" /\ out = <<>>)
  <2>1. /\ queue' = queue \o out /\ out' = <<>> /\ op' = NoOp /\ UNCHANGED <<position, source>>
        /\ worker' = IF op.kind = "prepare" THEN [worker EXCEPT !.current = op.video] ELSE worker
        /\ ended' = (op.kind = "refill" /\ ReachedEndOfStream)
    BY Zenon, <1>2 DEF Filled
  <2>2. /\ Len(queue') \in Len(queue)..SourceTarget /\ Len(queue) \in Nat
        /\ out # <<>> => Len(queue') \in 1..SourceTarget /\ queue' # <<>>
    BY Zenon, <2>1, HandedOver
  <2>3. ended = FALSE /\ ended' \in BOOLEAN
    BY Zenon DEF Core, TypeOK, CallInv
  <2>4. CASE op.kind = "prepare"
    <3>1. out # <<>> /\ source # None
      BY Zenon, <1>2, <2>4 DEF Core, CallInv
    <3>2. FeedPhase = "preparing" /\ FeedPhase' = "feeding"
      BY Zenon, <2>1, <2>4, <3>1 DEF FeedPhase
    <3>3. PICK e \in 0..(TrackTicks + FrameTicks) : OnLine(e)
      BY Zenon DEF Core, LineInv
    <3>4. OnLine(e)'
      BY Zenon, <3>3 DEF Steady
    <3>5. FeedAt' = e
      BY ZenonT(60), <2>1, <3>1, <3>2, <3>4, FeedAtLineNext
    <3>6. worker'.norm.next # None
      BY Zenon, <2>1, <3>1 DEF Core, CallInv
    <3>7. e <= position.sent /\ \E k \in Packets : position.sent < e + Duration(k)
      BY Zenon, <2>1, <3>1, <3>4, <3>6 DEF OnLine
    <3>8. PICK k \in Packets : position.sent < e + Duration(k)
      BY Zenon, <3>7
    <3>9. position.sent \in Nat /\ e \in Nat /\ Duration(k) \in Nat
      BY SMTT(60), TypeFacts, StartFacts, LayoutAssumption DEF Core
    <3>10. e \in (position.sent - Duration(k) + 1)..position.sent
      BY <3>7, <3>8, <3>9
    <3>11. \E r \in {Duration(j) : j \in Packets} :
             FeedAt' \in (position.sent - r + 1)..position.sent
      BY Zenon, <3>5, <3>10
    <3>12. ended' = ended
      BY Zenon, <2>1, <2>3, <2>4
    <3>13. Feed!Begin
      BY Zenon, <2>1, <2>2, <3>1, <3>2, <3>11, <3>12 DEF Feed!Begin
    <3> QED
      BY Zenon, <3>13 DEF Feed!Next
  <2>5. CASE op.kind = "refill"
    <3>1. source # None /\ worker' = worker
      BY Zenon, <2>1, <2>5, RefillHasSource
    <3>2. FeedPhase = "feeding" /\ FeedPhase' = "feeding"
      BY Zenon, <2>1, <2>5, <3>1 DEF FeedPhase
    <3>3. FeedAt' = FeedAt
      BY Zenon, <2>1, <3>1, <3>2, FeedAtKept
    <3>4. ended' => Mixed \/ FeedAt + Len(queue') * FrameTicks >= TrackTicks
      BY Zenon, <2>1, <2>5, <3>1, EndReached
    <3>5. ended' \in {b \in BOOLEAN : b => (source # None /\ source.mixed)
                                           \/ FeedAt + Len(queue') * FrameTicks >= TrackTicks}
      BY Zenon, <2>3, <3>4 DEF Mixed
    <3>6. Feed!Extend
      BY Zenon, <2>1, <2>2, <2>3, <3>2, <3>3, <3>5 DEF Feed!Extend
    <3> QED
      BY Zenon, <3>6 DEF Feed!Next
  <2>6. op.kind \in {"prepare", "refill"}
    BY Zenon, OpFacts DEF Core
  <2> QED
    BY Zenon, <2>4, <2>5, <2>6
<1> QED
  BY Zenon, <1>1, <1>2

\* A step of open_from_position goes on with the prepare or fails it.
LEMMA OpenReadShape ==
  ASSUME Core, OpenRead
  PROVE  Fail \/ GoingOn
<1>1. op # NoOp /\ op \in Ops /\ op.stage \in {"open", "seek"}
  BY Zenon DEF OpenRead, Core, TypeOK
<1>2. ~Mixed /\ position'.sent = position.sent
  BY Zenon, <1>1, OpeningFacts, OpenKeepsPosition DEF Mixed
<1> DEFINE On == op' \in Ops /\ op'.kind = op.kind /\ UNCHANGED <<queue, ended>>
<1>3. ASSUME NEW err, OpenFailed(err)
      PROVE  Fail \/ On
  BY ZenonT(60), <1>1, <1>3 DEF OpenFailed, Ops
<1>4. ASSUME NEW src, SourceOpened(src)
      PROVE  Fail \/ On
  <2>1. CASE TimestampTicks(src) < op.resume
    <3>1. OpenFailed("detail")
      BY Zenon, <1>4, <2>1 DEF SourceOpened
    <3> QED
      BY Zenon, <1>3, <3>1
  <2>2. CASE ~(TimestampTicks(src) < op.resume)
    <3>1. op' = [op EXCEPT !.stage = "loop"] /\ UNCHANGED <<queue, ended>>
      BY Zenon, <1>4, <2>2 DEF SourceOpened
    <3> QED
      BY Zenon, <1>1, <3>1 DEF Ops
  <2> QED
    BY Zenon, <2>1, <2>2
<1>5. ASSUME OpeningTimeout
      PROVE  Fail \/ On
  <2>1. CASE op' = [op EXCEPT !.tries = 2] /\ UNCHANGED <<queue, ended>>
    BY <1>1, <2>1 DEF Ops
  <2>2. CASE OpenFailed("openTimeout") \/ OpenFailed("detail")
    BY Zenon, <1>3, <2>2
  <2> QED
    BY Zenon, <1>5, <2>1, <2>2 DEF OpeningTimeout
<1>6. \/ op' = op /\ UNCHANGED <<queue, ended>>
      \/ op' = [op EXCEPT !.stage = "seek"] /\ UNCHANGED <<queue, ended>>
      \/ \E src : SourceOpened(src)
      \/ \E err : OpenFailed(err)
      \/ OpeningTimeout
  BY Zenon DEF OpenRead
<1>7. ASSUME op' = op /\ UNCHANGED <<queue, ended>>
      PROVE  On
  BY Zenon, <1>1, <1>7
<1>8. ASSUME op' = [op EXCEPT !.stage = "seek"] /\ UNCHANGED <<queue, ended>>
      PROVE  On
  BY Zenon, <1>1, <1>8 DEF Ops
<1>9. Fail \/ On
  <2> HIDE DEF On
  <2> QED
    BY ZenonT(60), <1>3, <1>4, <1>5, <1>6, <1>7, <1>8
<1>10. op' \in Ops => op' # NoOp
  BY Zenon, OpIsNotNoOp
<1> QED
  BY Zenon, <1>2, <1>9, <1>10 DEF GoingOn

\* A turn of the fill loop returns or goes on.
LEMMA FillTurnShape ==
  ASSUME Core, FillTurn
  PROVE  (Filled /\ Steady) \/ GoingOn
<1>1. op # NoOp /\ op.stage = "loop" /\ source # None /\ op \in Ops /\ source \in Sources
  BY Zenon DEF FillTurn, Core, CallInv, TypeOK
<1>2. position' = position
  BY Zenon, FillKeepsPosition
<1>3. \/ (Len(out) >= op.target \/ Room(out) <= 0) /\ Filled
      \/ UNCHANGED <<source, op, queue, ended>>
      \/ /\ UNCHANGED <<op, queue, ended>>
         /\ \E k \in source.packets : source' = [source EXCEPT !.packets = @ \ {k}]
      \/ op' = [op EXCEPT !.stage = "read", !.tries = 0] /\ UNCHANGED <<source, queue, ended>>
  BY Zenon DEF FillTurn
<1>4. CASE (Len(out) >= op.target \/ Room(out) <= 0) /\ Filled
  BY Zenon, <1>1, <1>4, FilledCore
<1>5. CASE UNCHANGED <<source, op, queue, ended>>
  BY Zenon, <1>1, <1>2, <1>5 DEF GoingOn, Mixed
<1>6. CASE /\ UNCHANGED <<op, queue, ended>>
           /\ \E k \in source.packets : source' = [source EXCEPT !.packets = @ \ {k}]
  <2>1. PICK k \in source.packets : source' = [source EXCEPT !.packets = @ \ {k}]
    BY Zenon, <1>6
  <2>2. source' \in Sources /\ source'.mixed = source.mixed
    BY Zenon, <1>1, <2>1 DEF Sources
  <2>3. source' # None
    BY Zenon, <2>2, NoneAssumption DEF Sources
  <2> QED
    BY Zenon, <1>1, <1>2, <1>6, <2>2, <2>3 DEF GoingOn, Mixed
<1>7. CASE op' = [op EXCEPT !.stage = "read", !.tries = 0] /\ UNCHANGED <<source, queue, ended>>
  <2>1. op'.kind = op.kind /\ op.kind \in {"prepare", "refill"}
    BY Zenon, <1>1, <1>7 DEF Ops
  <2>2. op' # NoOp
    BY <2>1 DEF NoOp
  <2> QED
    BY Zenon, <1>2, <1>7, <2>1, <2>2 DEF GoingOn, Mixed
<1> QED
  BY ZenonT(60), <1>3, <1>4, <1>5, <1>6, <1>7

\* A read goes on or fails.
LEMMA FillReadShape ==
  ASSUME Core, FillRead
  PROVE  Fail \/ GoingOn
<1>1. op # NoOp /\ op.stage = "read"
  BY Zenon DEF FillRead
<1>2. TypeOK /\ op \in Ops /\ source # None /\ GoodSource(source)
  BY Zenon, <1>1, ReadingFacts
<1>3. position' = position
  BY Zenon, FillKeepsPosition
<1>4. PICK o \in ReadTurn(source.stream) :
        \/ Fail
        \/ /\ UNCHANGED <<queue, ended>>
           /\ \/ op' = op \/ op' = [op EXCEPT !.tries = 1]
              \/ \E stage \in {"loop", "return", "reresolve"} : op' = [op EXCEPT !.stage = stage]
           /\ \/ o.res # "chunk" /\ source' = [source EXCEPT !.stream = o.s]
              \/ o.res # "chunk" /\ source' = ResetStream([source EXCEPT !.stream = o.s])
              \/ /\ o.res = "chunk"
                 /\ source' = [Fed(source, o) EXCEPT !.packets = @ \cup Drained(source, o)]
  BY Zenon DEF FillRead
<1>5. GoodTurn(source.stream, o)
  BY Zenon, <1>2, ReadTurnGood DEF GoodSource
<1> DEFINE src == [source EXCEPT !.stream = o.s]
<1>6. o.res # "chunk" => GoodSource(src) /\ src # None /\ src.mixed = source.mixed
  BY <1>2, <1>5, MovedGood
<1>7. ASSUME ~Fail
      PROVE  GoingOn
  <2>1. op'.kind = op.kind /\ op.kind \in {"prepare", "refill"} /\ UNCHANGED <<queue, ended>>
    BY Zenon, <1>2, <1>4, <1>7 DEF Ops
  <2>2. op' # NoOp
    BY <2>1 DEF NoOp
  <2>3. source' # None /\ source'.mixed = source.mixed
    <3>1. CASE o.res # "chunk" /\ source' = src
      BY Zenon, <1>6, <3>1
    <3>2. CASE o.res # "chunk" /\ source' = ResetStream(src)
      <4> HIDE DEF src
      <4> QED
        BY Zenon, <1>6, <3>2, ResetGood
    <3>3. CASE /\ o.res = "chunk"
               /\ source' = [Fed(source, o) EXCEPT !.packets = @ \cup Drained(source, o)]
      <4>1. FedFrom(source, o, Drained(source, o), source')
        BY Zenon, <1>2, <1>5, <3>3, FedGood
      <4> QED
        BY Zenon, <4>1 DEF FedFrom
    <3> QED
      BY Zenon, <1>4, <1>7, <3>1, <3>2, <3>3
  <2> QED
    BY Zenon, <1>3, <2>1, <2>2, <2>3 DEF GoingOn, Mixed
<1> QED
  BY Zenon, <1>7

\* A resolution goes on or fails.
LEMMA ResolveShape ==
  ASSUME Core, Resolve \/ Reresolve
  PROVE  Fail \/ GoingOn
<1>1. op # NoOp /\ op \in Ops /\ op.kind \in {"prepare", "refill"}
  BY Zenon, OpFacts DEF Resolve, Reresolve, Core, TypeOK
<1>2. position' = position
  BY Zenon, FillKeepsPosition
<1>3. CASE Resolve /\ ~Fail
  <2>1. op' = [op EXCEPT !.stage = "open", !.tries = 1] /\ UNCHANGED <<queue, ended>>
    BY Zenon, <1>3 DEF Resolve
  <2>2. op'.kind = op.kind
    BY Zenon, <1>1, <2>1 DEF Ops
  <2>3. op' # NoOp
    BY SMTT(60), <1>1, <2>2 DEF NoOp
  <2>4. ~Mixed
    BY Zenon, <1>1, <1>3 DEF Resolve, Core, CallInv, Mixed
  <2> QED
    BY Zenon, <1>2, <2>1, <2>2, <2>3, <2>4 DEF GoingOn
<1>4. CASE Reresolve /\ ~Fail
  <2>1. PICK e \in Selectable :
          /\ source' = ReplaceResolvedStream(source, e)
          /\ op' = [op EXCEPT !.stage = "read", !.tries = 2] /\ UNCHANGED <<queue, ended>>
    BY Zenon, <1>4 DEF Reresolve
  <2>2. op'.kind = op.kind
    BY Zenon, <1>1, <2>1 DEF Ops
  <2>3. op' # NoOp
    BY <1>1, <2>2 DEF NoOp
  <2>4. source # None /\ GoodSource(source)
    BY Zenon, <1>1, <1>4, ReadingFacts DEF Reresolve
  <2>5. source' # None /\ (source.mixed => source'.mixed)
    <3>1. e \in Encodings
      BY Zenon DEF Selectable
    <3> QED
      BY Zenon, <2>1, <2>4, <3>1, ReplacedGood
  <2> QED
    BY ZenonT(60), <1>2, <2>1, <2>2, <2>3, <2>4, <2>5 DEF GoingOn, Mixed
<1> QED
  BY Zenon, <1>3, <1>4

\* Every step of the playback worker is a step of the feed, or invisible to it.
LEMMA NextFeeds ==
  ASSUME Core, [Next]_vars
  PROVE  Feed!Next \/ UNCHANGED Feed!vars
<1>1. Core'
  BY Zenon, NextCore
<1>2. CASE UNCHANGED vars
  BY Zenon, <1>2 DEF vars, Feed!vars, FeedPhase, FeedAt, Waiting
<1>3. CASE \E v \in Videos, reset \in BOOLEAN : Prepare(v, reset)
  BY Zenon, <1>3, PrepareFeeds
<1>4. CASE Refill
  BY Zenon, <1>4, RefillFeeds
<1>5. CASE Send
  BY Zenon, <1>5, SendFeeds
<1>6. CASE Cancel
  <2>1. op # NoOp /\ Fail /\ Steady
    BY Zenon, <1>6, CancelCore DEF Cancel
  <2> QED
    BY Zenon, <1>1, <2>1, FailFeeds
<1>7. ASSUME op # NoOp, worker.norm.next # None => Steady, GoingOn
      PROVE  Feed!Next \/ UNCHANGED Feed!vars
  BY Zenon, <1>1, <1>7, CallFeeds
<1>8. ASSUME op # NoOp, worker.pending = <<>>, Fail
      PROVE  Feed!Next
  <2>1. Steady
    BY Zenon, <1>8, FailCore
  <2> QED
    BY Zenon, <1>1, <1>8, <2>1, FailFeeds
<1>9. CASE Resolve
  <2>1. op # NoOp /\ op.stage = "resolve"
    BY Zenon, <1>9 DEF Resolve
  <2>2. worker.pending = <<>> /\ worker.norm.next = None
    BY <2>1 DEF Core, CallInv, NewNormalizer
  <2>3. Fail \/ GoingOn
    BY Zenon, <1>9, ResolveShape
  <2> QED
    BY Zenon, <1>7, <1>8, <2>1, <2>2, <2>3
<1>10. CASE OpenRead
  <2>1. op # NoOp /\ op.stage \in {"open", "seek"}
    BY Zenon, <1>10 DEF OpenRead
  <2>2. worker.pending = <<>> /\ worker.norm.next = None
    BY <2>1 DEF Core, CallInv, NewNormalizer
  <2>3. Fail \/ GoingOn
    BY Zenon, <1>10, OpenReadShape
  <2> QED
    BY Zenon, <1>7, <1>8, <2>1, <2>2, <2>3
<1>11. CASE FillTurn
  <2>1. op # NoOp /\ (worker.norm.next # None => Steady)
    BY Zenon, <1>11, FillTurnCore DEF FillTurn
  <2>2. (Filled /\ Steady) \/ GoingOn
    BY Zenon, <1>11, FillTurnShape
  <2>3. CASE Filled /\ Steady
    BY Zenon, <1>1, <2>1, <2>3, FilledFeeds
  <2> QED
    BY Zenon, <1>7, <2>1, <2>2, <2>3
<1>12. CASE FillRead \/ Reresolve
  <2>1. op # NoOp /\ op.stage \in {"read", "reresolve"}
    BY Zenon, <1>12 DEF FillRead, Reresolve
  <2>2. Steady /\ worker.pending = <<>>
    BY Zenon, <1>12, <2>1, FillReadCore, ReresolveCore, ReadingFacts
  <2>3. Fail \/ GoingOn
    BY Zenon, <1>12, FillReadShape, ResolveShape
  <2> QED
    BY Zenon, <1>7, <1>8, <2>1, <2>2, <2>3
<1>13. CASE FillReturn
  <2>1. op # NoOp /\ Filled /\ op.stage = "return"
    BY Zenon, <1>13 DEF FillReturn
  <2>2. Steady
    BY Zenon, <2>1, FilledCore
  <2> QED
    BY Zenon, <1>1, <2>1, <2>2, FilledFeeds
<1> QED
  BY ZenonT(60), <1>2, <1>3, <1>4, <1>5, <1>6, <1>9, <1>10, <1>11, <1>12, <1>13 DEF Next, Step

\* The playback worker implements the frame feed: with the network, the
\* container, the codec and every retry hidden, each of its steps prepares the
\* feed, begins it where the track was left, extends it without a gap, sends the
\* next frame, breaks it, switches its encoding, or does nothing to it.
THEOREM FeedRefinement == Spec => Feed!Init /\ [][Feed!Next]_Feed!vars
<1>1. Init => Feed!Init
  BY Zenon, InitFeeds
<1>2. Core /\ [Next]_vars => [Feed!Next]_Feed!vars
  BY Zenon, NextFeeds
<1> QED
  BY <1>1, <1>2, CoreAlways, PTL DEF Spec

=============================================================================
