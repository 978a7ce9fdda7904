------------------------ MODULE MediaPlayoutDelivery ------------------------
(***************************************************************************)
(* Proofs about MediaPlayout: DeliveryInv, which says that no frame is     *)
(* lost, reordered or counted before it was sent and that no buffer        *)
(* overflows, is preserved by the sender threads, the producer, the pump and*)
(* the callers, and by the driver when it moves on, ends or takes an outcome.*)
(***************************************************************************)
EXTENDS MediaPlayoutMirrorProofs

-----------------------------------------------------------------------------
(* Frames that follow one another.                                         *)

\* Taking the first frame of a run.
LEMMA FollowsTail ==
  ASSUME NEW s \in Seq(Frames), NEW a \in Int, s # <<>>, Follows(s, a)
  PROVE  Head(s) = a + 1 /\ Follows(Tail(s), a + 1) /\ Len(Tail(s)) = Len(s) - 1
<1>1. /\ Len(s) \in Nat /\ Len(s) > 0 /\ DOMAIN s = 1..Len(s) /\ Head(s) = s[1]
      /\ DOMAIN Tail(s) = 1..(Len(s) - 1) /\ Len(Tail(s)) = Len(s) - 1
      /\ \A i \in 1..(Len(s) - 1) : Tail(s)[i] = s[i + 1]
  BY SMTT(60)
<1>2. QED
  BY SMTT(60), <1>1 DEF Follows

\* One run after another.
LEMMA FollowsConcat ==
  ASSUME NEW s \in Seq(Frames), NEW t \in Seq(Frames), NEW a \in Int,
         Follows(s, a), Follows(t, a + Len(s))
  PROVE  Follows(s \o t, a) /\ s \o t \in Seq(Frames) /\ Len(s \o t) = Len(s) + Len(t)
<1>1. /\ Len(s) \in Nat /\ Len(t) \in Nat /\ DOMAIN s = 1..Len(s) /\ DOMAIN t = 1..Len(t)
      /\ s \o t \in Seq(Frames) /\ Len(s \o t) = Len(s) + Len(t)
      /\ DOMAIN (s \o t) = 1..(Len(s) + Len(t))
      /\ \A i \in 1..(Len(s) + Len(t)) : (s \o t)[i] = IF i <= Len(s) THEN s[i] ELSE t[i - Len(s)]
  BY SMTT(60), ConcatShape
<1>2. QED
  BY SMTT(60), <1>1 DEF Follows

\* What AfterN and FirstN leave of a sequence.
LEMMA AfterNAt ==
  ASSUME NEW S, NEW s \in Seq(S), NEW n \in 0..Len(s)
  PROVE  /\ DOMAIN AfterN(s, n) = 1..(Len(s) - n)
         /\ \A i \in 1..(Len(s) - n) : AfterN(s, n)[i] = s[n + i]
<1>1. AfterN(s, n) \in Seq(S) /\ Len(AfterN(s, n)) = Len(s) - n
  BY Zenon, AfterNType
<1>2. /\ Len(s) \in Nat /\ n \in Int /\ n + 1 \in Int
      /\ \A i \in (n + 1)..Len(s) : s[i] \in S
  BY SMTT(60)
<1>3. \A i \in 1..(Len(s) - (n + 1) + 1) : SubSeq(s, n + 1, Len(s))[i] = s[(n + 1) + i - 1]
  BY SMTT(60), <1>2, SubSeqShape
<1>4. ASSUME NEW i \in 1..(Len(s) - n) PROVE AfterN(s, n)[i] = s[n + i]
  <2>1. i \in 1..(Len(s) - (n + 1) + 1) /\ (n + 1) + i - 1 = n + i
    BY <1>2
  <2>2. QED
    BY Zenon, <2>1, <1>3 DEF AfterN
<1>5. DOMAIN AfterN(s, n) = 1..(Len(s) - n)
  BY Zenon, <1>1, SeqShape
<1>6. QED
  BY Zenon, <1>4, <1>5

\* FirstN keeps the first n in their places.
LEMMA FirstNAt ==
  ASSUME NEW S, NEW s \in Seq(S), NEW n \in 0..Len(s)
  PROVE  DOMAIN FirstN(s, n) = 1..n /\ \A i \in 1..n : FirstN(s, n)[i] = s[i]
<1>1. FirstN(s, n) \in Seq(S) /\ Len(FirstN(s, n)) = n
  BY Zenon, FirstNType
<1>2. Len(s) \in Nat /\ n \in Int /\ 1 \in Int /\ \A i \in 1..n : s[i] \in S
  BY SMTT(60)
<1>3. \A i \in 1..(n - 1 + 1) : SubSeq(s, 1, n)[i] = s[1 + i - 1]
  BY SMTT(60), <1>2, SubSeqShape
<1>4. ASSUME NEW i \in 1..n PROVE FirstN(s, n)[i] = s[i]
  <2>1. i \in 1..(n - 1 + 1) /\ 1 + i - 1 = i
    BY <1>2
  <2>2. QED
    BY Zenon, <2>1, <1>3 DEF FirstN
<1>5. DOMAIN FirstN(s, n) = 1..n
  BY Zenon, <1>1, SeqShape
<1>6. QED
  BY Zenon, <1>4, <1>5

\* The rest of a run after its first n frames.
LEMMA FollowsAfter ==
  ASSUME NEW s \in Seq(Frames), NEW a \in Int, NEW n \in 0..Len(s), Follows(s, a)
  PROVE  Follows(AfterN(s, n), a + n)
<1>1. Len(s) \in Nat /\ n \in Nat /\ n <= Len(s) /\ DOMAIN s = 1..Len(s)
  BY SeqShape
<1>2. /\ DOMAIN AfterN(s, n) = 1..(Len(s) - n)
      /\ \A i \in 1..(Len(s) - n) : AfterN(s, n)[i] = s[n + i]
  BY Zenon, AfterNAt
<1>3. QED
  BY SMTT(60), <1>1, <1>2 DEF Follows

\* The frames of a sequence of packets without its first one.
LEMMA FramesOfTail ==
  ASSUME FramesFacts, NEW p \in Seq(Packet), p # <<>>
  PROVE  /\ Head(p).frame = NoFrame => FramesOf(Tail(p)) = FramesOf(p)
         /\ Head(p).frame # NoFrame =>
              /\ FramesOf(p) # <<>> /\ Head(FramesOf(p)) = Head(p).frame
              /\ FramesOf(Tail(p)) = Tail(FramesOf(p))
<1> DEFINE h == <<Head(p)>>
           t == Tail(p)
<1>1. h \in Seq(Packet) /\ t \in Seq(Packet) /\ h \o t = p /\ Len(h) = 1 /\ h[1] = Head(p)
      /\ DOMAIN h = {1} /\ 1 \in DOMAIN h /\ Head(p) \in Packet
  BY SMTT(60), TailShape
<1> HIDE DEF h, t
<1>2. FramesOf(h) \in Seq(Frames) /\ FramesOf(t) \in Seq(Frames)
  BY Zenon, <1>1 DEF FramesFacts, FramesTyped
<1>3. FramesOf(p) = FramesOf(h) \o FramesOf(t)
  BY Zenon, <1>1 DEF FramesFacts, FramesConcat
<1>4. CASE Head(p).frame = NoFrame
  <2>1. \A i \in DOMAIN h : h[i].frame = NoFrame
    BY Zenon, <1>1, <1>4
  <2>2. FramesOf(h) = <<>>
    BY Zenon, <2>1, <1>1 DEF FramesFacts, FramesSilent
  <2>3. FramesOf(p) = FramesOf(t)
    BY Zenon, <2>2, <1>2, <1>3, ConcatNothing
  <2>4. QED
    BY Zenon, <2>3, <1>4 DEF t
<1>5. CASE Head(p).frame # NoFrame
  <2>1. \A i \in DOMAIN h : h[i].frame # NoFrame
    BY Zenon, <1>1, <1>5
  <2>2. Len(FramesOf(h)) = Len(h) /\ \A i \in DOMAIN h : FramesOf(h)[i] = h[i].frame
    BY Zenon, <2>1, <1>1 DEF FramesFacts, FramesTracks
  <2>3. Len(FramesOf(h)) = 1 /\ FramesOf(h)[1] = Head(p).frame
    BY Zenon, <2>2, <1>1
  <2> DEFINE u == FramesOf(h)
             v == FramesOf(t)
  <2>4. u \in Seq(Frames) /\ v \in Seq(Frames) /\ Len(u) = 1 /\ u[1] = Head(p).frame
    BY Zenon, <2>3, <1>2
  <2> HIDE DEF u, v
  <2>5. /\ u \o v \in Seq(Frames) /\ Len(u \o v) = 1 + Len(v) /\ Len(v) \in Nat
        /\ \A i \in 1..(1 + Len(v)) : (u \o v)[i] = IF i <= 1 THEN u[1] ELSE v[i - 1]
    <3>1. /\ u \o v \in Seq(Frames) /\ Len(u \o v) = Len(u) + Len(v)
          /\ \A i \in 1..Len(u) + Len(v) :
                (u \o v)[i] = IF i <= Len(u) THEN u[i] ELSE v[i - Len(u)]
      BY Zenon, <2>4, ConcatShape
    <3>2. Len(v) \in Nat
      BY <2>4
    <3>3. QED
      BY SMTT(60), <2>4, <3>1, <3>2
  <2>6. u \o v # <<>> /\ Head(u \o v) = u[1] /\ Tail(u \o v) = v
    <3> DEFINE w == u \o v
    <3>1. w \in Seq(Frames) /\ w # <<>> /\ w[1] = u[1] /\ Len(w) = 1 + Len(v)
      BY SMTT(60), <2>5
    <3>2. \A i \in 1..Len(v) : w[i + 1] = v[i]
      BY SMTT(60), <2>5
    <3> HIDE DEF w
    <3>3. Tail(w) \in Seq(Frames) /\ Len(Tail(w)) = Len(v) /\ Head(w) = w[1]
          /\ \A i \in 1..Len(v) : Tail(w)[i] = w[i + 1]
      BY SMTT(60), <3>1, <2>5, TailShape
    <3>4. Tail(w) = v
      BY SMTT(60), <3>2, <3>3, <2>4, SeqAgree
    <3>5. QED
      BY Zenon, <3>1, <3>3, <3>4 DEF w
  <2>7. QED
    BY Zenon, <2>4, <2>6, <1>3, <1>5 DEF u, v, t
<1>6. QED
  BY Zenon, <1>4, <1>5

-----------------------------------------------------------------------------
(* The senders' turns.                                                     *)

\* What is on the wire stays there.
LEMMA TurnGrows ==
  ASSUME NEW sender, NEW gen, NEW a, NEW b, a \subseteq b, InTurn(sender, gen, a)
  PROVE  InTurn(sender, gen, b)
<1>1. \A S : S \subseteq a => S \subseteq b
  OBVIOUS
<1>2. QED
  BY ZenonT(60), <1>1 DEF InTurn

\* After an invalidation nothing in a queue of the driver's is current.
LEMMA TurnInvalidated ==
  ASSUME NEW sender \in Sender, NEW gen \in Nat, NEW a, InTurn(sender, gen, a)
  PROVE  InTurn(sender, gen + 1, a)
<1>1. sender.queue \in Seq(Packet)
  BY Zenon DEF Sender
<1>2. \A i \in DOMAIN sender.queue : sender.queue[i].gen \in Nat
  <2>1. \A i \in DOMAIN sender.queue : sender.queue[i] \in Packet
    BY SMTT(60), <1>1
  <2>2. QED
    BY Zenon, <2>1 DEF Packet
<1>3. sender.queue # <<>> => 1 \in DOMAIN sender.queue /\ Head(sender.queue) = sender.queue[1]
  BY SMTT(60), <1>1
<1>4. ~sender.own => \A i \in DOMAIN sender.queue : /\ sender.queue[i].gen <= gen + 1
                                                    /\ sender.queue[i].gen # gen + 1
  BY SMTT(60), <1>2 DEF InTurn
<1>5. CASE sender.own
  BY Zenon, <1>5 DEF InTurn
<1>6. CASE ~sender.own
  BY Zenon, <1>3, <1>4, <1>6 DEF InTurn
<1>7. QED
  BY Zenon, <1>5, <1>6

\* Giving up a sender that would take the next command for the wire.
LEMMA TurnRetired ==
  ASSUME NEW sender \in Sender, NEW gen, NEW a, InTurn(sender, gen, a),
         /\ sender.pc = "tick" /\ sender.queue # <<>>
         /\ Head(sender.queue).gen = IF sender.own THEN 0 ELSE gen
         => 1..(Head(sender.queue).frame - 1) \subseteq a
  PROVE  InTurn(Retired(sender), gen, a)
<1> DEFINE r == Retired(sender)
<1>1. /\ r.pc = sender.pc /\ r.cmd = sender.cmd /\ r.queue = sender.queue
      /\ r.own = sender.own /\ r.sent = <<>>
  BY Zenon DEF Retired, Sender
<1> HIDE DEF r
<1>2. DOMAIN r.sent = {}
  BY SMTT(60), <1>1
<1>3. InTurn(r, gen, a)
  BY ZenonT(60), <1>1, <1>2 DEF InTurn
<1>4. QED
  BY Zenon, <1>3 DEF r

\* The senders stay, and the wire grows.
LEMMA SendersStay ==
  ASSUME SendersInTurn, UNCHANGED <<senders, generation>>, wire \subseteq wire'
  PROVE  SendersInTurn'
<1>1. \A s \in 1..live : InTurn(senders[s], generation, wire')
  BY Zenon, TurnGrows DEF SendersInTurn
<1>2. QED
  BY Zenon, <1>1 DEF SendersInTurn, live

\* One sender changes.
LEMMA SenderChanges ==
  ASSUME TypeOK, SendersInTurn, NEW s \in 1..live, NEW r \in Sender,
         senders' = [senders EXCEPT ![s] = r], InTurn(r, generation, wire'),
         s < live => r.retired, generation' = generation, wire \subseteq wire'
  PROVE  SendersInTurn'
<1>1. /\ live' = live /\ senders'[s] = r
      /\ \A j \in 1..live : j # s => senders'[j] = senders[j]
  BY Zenon, SenderUpdate DEF TypeOK
<1>2. ASSUME NEW j \in 1..live
      PROVE  InTurn(senders'[j], generation, wire') /\ (j < live => senders'[j].retired)
  <2>1. CASE j = s
    BY Zenon, <2>1, <1>1
  <2>2. CASE j # s
    <3>1. InTurn(senders[j], generation, wire') /\ (j < live => senders[j].retired)
      BY Zenon, TurnGrows DEF SendersInTurn
    <3>2. senders'[j] = senders[j]
      BY Zenon, <2>2, <1>1
    <3>3. QED
      BY Zenon, <3>1, <3>2
  <2>3. QED
    BY Zenon, <2>1, <2>2
<1>3. QED
  BY Zenon, <1>1, <1>2 DEF SendersInTurn

-----------------------------------------------------------------------------
(* Shapes of steps.                                                        *)

\* The lengths and counters of the pipeline are numbers.
LEMMA PipelineTypes ==
  ASSUME TypeOK, FramesFacts
  PROVE  /\ source \in Seq(Frames) /\ egress \in Seq(Frames) /\ FramesOf(pending) \in Seq(Frames)
         /\ prepared \in Seq(Packet) /\ pending \in Seq(Packet)
         /\ Len(source) \in Nat /\ Len(egress) \in Nat /\ Len(prepared) \in Nat
         /\ Len(pending) \in Nat /\ Len(FramesOf(pending)) \in Nat
         /\ produced \in Nat /\ position \in Nat /\ mq \in Nat
         /\ BeforeSource \in Int /\ BeforeEgress \in Int
         /\ BeforePrepared \in Int /\ BeforePending \in Int
<1>1. /\ source \in Seq(Frames) /\ egress \in Seq(Frames) /\ prepared \in Seq(Packet)
      /\ pending \in Seq(Packet) /\ produced \in Nat /\ position \in Nat /\ mq \in Nat
  BY SMTT(60), ConstantTypes DEF TypeOK
<1>2. FramesOf(pending) \in Seq(Frames)
  BY Zenon, <1>1 DEF FramesFacts, FramesTyped
<1>3. /\ Len(source) \in Nat /\ Len(egress) \in Nat /\ Len(prepared) \in Nat
      /\ Len(pending) \in Nat /\ Len(FramesOf(pending)) \in Nat
  BY Zenon, <1>1, <1>2, SeqShape
<1>4. QED
  BY SMTT(60), <1>1, <1>2, <1>3 DEF BeforeSource, BeforeEgress, BeforePrepared, BeforePending

\* The frame at the head of an attached sender's queue is the next one for the
\* wire: all before it have been accounted or are among the sender's records.
LEMMA HeadIsNext ==
  ASSUME DeliveryInv, FramesFacts, Attached, Live.cmd = <<>>, Live.queue # <<>>
  PROVE  1..(Head(Live.queue).frame - 1) \subseteq wire
<1>1. MirrorInv /\ TypeOK /\ ControlPoints
  BY Zenon DEF DeliveryInv, MirrorInv
<1>2. Live \in Sender /\ live \in 1..live
  BY Zenon, <1>1, LiveIsSender DEF TypeOK
<1> DEFINE a == Live.sent
           q == Live.queue
           pend == IF ret = "cleanup" THEN <<>> ELSE pending
<1>3. a \in Seq(Packet) /\ q \in Seq(Packet) /\ Live.cmd \in Seq(Packet)
  BY Zenon, <1>2 DEF Sender
<1>4. a \o q = pend \o boundary
  <2>1. InSender(Live) = pend \o boundary
    BY Zenon, <1>1 DEF MirrorInv, Mirrored
  <2>2. a \o <<>> = a
    BY Zenon, <1>3, ConcatNothing
  <2>3. QED
    BY Zenon, <2>1, <2>2 DEF InSender
<1>5. pend \in Seq(Packet) /\ pending \in Seq(Packet) /\ boundary \in Seq(Packet)
  <2>1. pending \in Seq(Packet) /\ boundary \in Seq(Packet) /\ <<>> \in Seq(Packet)
    BY <1>1 DEF TypeOK
  <2>2. QED
    BY Zenon, <2>1
<1>6. q # <<>> /\ 1 \in DOMAIN q /\ Head(q) = q[1] /\ Head(q) \in Packet
  BY SMTT(60), <1>3
<1>7. CASE pend = <<>>
  <2>1. a \o q = boundary
    BY Zenon, <1>4, <1>5, <1>7, ConcatNothing
  <2>2. \E i \in DOMAIN boundary : Head(q) = boundary[i]
    <3> HIDE DEF a, q
    <3>1. /\ Len(a) \in Nat /\ Len(q) \in Nat /\ Len(q) > 0
          /\ Len(boundary) = Len(a) + Len(q) /\ DOMAIN boundary = 1..Len(boundary)
          /\ boundary[Len(a) + 1] = q[1]
      BY SMTT(60), <2>1, <1>3, <1>5, <1>6, ConcatShape
    <3>2. Len(a) + 1 \in DOMAIN boundary
      BY <3>1
    <3>3. QED
      BY Zenon, <3>1, <3>2, <1>6
  <2>3. Head(q).frame = NoFrame
    BY Zenon, <2>2 DEF DeliveryInv
  <2>4. QED
    BY SMTT(60), <2>3 DEF NoFrame
<1>8. CASE pend # <<>>
  <2>1. ret # "cleanup" /\ pending # <<>> /\ pend = pending
    BY Zenon, <1>8
  <2>2. boundary = <<>> /\ Running
    <3>1. ~Flushed
      BY Zenon, <2>1, <1>1 DEF MirrorInv, FlushedIsEmpty
    <3>2. dpc # "boundWait"
      BY Zenon, <3>1, <2>1 DEF Flushed
    <3>3. QED
      BY Zenon, <3>2, <2>1, <1>1 DEF ControlPoints, Running, Attached
  <2>3. a \o q = pending
    BY Zenon, <2>1, <2>2, <1>4, <1>5, ConcatNothing
  <2>4. CASE Head(q).frame = NoFrame
    BY SMTT(60), <2>4 DEF NoFrame
  <2>5. CASE Head(q).frame # NoFrame
    <3> HIDE DEF a, q
    <3> DEFINE u == FramesOf(a)
               v == FramesOf(q)
               b == BeforePending
    <3>1. FramesOf(pending) = u \o v
      BY Zenon, <2>3, <1>3 DEF FramesFacts, FramesConcat
    <3>2. u \in Seq(Frames) /\ v \in Seq(Frames)
      BY Zenon, <1>3 DEF FramesFacts, FramesTyped
    <3>3. v # <<>> /\ Head(v) = Head(q).frame
      BY Zenon, <2>5, <1>3, <1>6, FramesOfTail
    <3>4. /\ Follows(u \o v, b) /\ 1..b \subseteq wire /\ b \in Int
      BY Zenon, <3>1, <2>2, <1>1, PipelineTypes DEF DeliveryInv, PipelineInOrder
    <3>5. \A j \in DOMAIN u : \E i \in DOMAIN a : a[i].frame = u[j]
      BY Zenon, <1>3 DEF FramesFacts, FramesFrom
    <3>6. \A i \in DOMAIN a : 1..a[i].frame \subseteq wire
      BY Zenon, <1>2 DEF DeliveryInv, SendersInTurn, InTurn, Live, a
    <3>7. \A j \in DOMAIN u : 1..u[j] \subseteq wire
      BY Zenon, <3>5, <3>6
    <3> HIDE DEF u, v, b
    <3>8. /\ Len(u) \in Nat /\ Len(v) \in Nat /\ Len(v) > 0 /\ DOMAIN u = 1..Len(u)
          /\ DOMAIN (u \o v) = 1..(Len(u) + Len(v)) /\ Head(v) = v[1]
          /\ \A j \in 1..Len(u) : (u \o v)[j] = u[j]
          /\ (u \o v)[Len(u) + 1] = v[1]
      BY SMTT(60), <3>2, <3>3, ConcatShape
    <3>9. /\ \A j \in 1..Len(u) : u[j] = b + j
          /\ Head(q).frame = b + Len(u) + 1
      BY SMTT(60), <3>3, <3>4, <3>8 DEF Follows
    <3>10. ASSUME NEW g \in 1..(b + Len(u)) PROVE g \in wire
      <4>1. CASE g <= b
        BY SMTT(60), <4>1, <3>4, <3>8
      <4>2. CASE g > b
        <5>1. g - b \in 1..Len(u) /\ g \in 1..g /\ b + (g - b) = g
          BY SMTT(60), <4>2, <3>4, <3>8
        <5>2. u[g - b] = g /\ 1..u[g - b] \subseteq wire
          BY Zenon, <5>1, <3>7, <3>8, <3>9
        <5>3. QED
          BY Zenon, <5>1, <5>2
      <4>3. QED
        BY SMTT(60), <4>1, <4>2, <3>4, <3>8
    <3>11. Head(q).frame - 1 = b + Len(u)
      BY SMTT(60), <3>4, <3>8, <3>9
    <3>12. QED
      BY Zenon, <3>10, <3>11 DEF q
  <2>6. QED
    BY Zenon, <2>4, <2>5
<1>9. QED
  BY Zenon, <1>7, <1>8

\* The driver moves on, or something else happens, and the pipeline and the
\* senders stay.
LEMMA MovesDeliver ==
  ASSUME DeliveryInv, MirrorInv', FramesFacts,
         UNCHANGED <<senders, generation, wire, source, produced, egress, prepared,
                     pending, discarded>>,
         position' + mq' = position + mq,
         ppc' = "fill" => Len(source) + refill' <= SourceTarget,
         srcError' => faults' > 0,
         Running' => Running, Running' /\ ~Attached' => ~Attached,
         dpc' \in {"exited", "cleanup", "returned"} <=> dpc \in {"exited", "cleanup", "returned"},
         \A i \in DOMAIN boundary' : boundary'[i].frame = NoFrame
  PROVE  DeliveryInv'
<1>1. PipelineInOrder'
  BY Zenon DEF DeliveryInv, PipelineInOrder, BeforeSource, BeforeEgress, BeforePrepared, BeforePending
<1>2. EgressBounded' /\ RefillFits'
  BY Zenon DEF DeliveryInv, EgressBounded, RefillFits
<1>3. SendersInTurn'
  <2>1. wire \subseteq wire' /\ SendersInTurn
    BY Zenon DEF DeliveryInv
  <2>2. QED
    BY Zenon, <2>1, SendersStay
<1>4. Live' = Live
  BY Zenon DEF Live, live
<1>5. StaleWhileRebasing'
  <2>1. StaleWhileRebasing
    BY Zenon DEF DeliveryInv
  <2>2. QED
    BY ZenonT(60), <2>1, <1>4 DEF StaleWhileRebasing, InSender
<1>6. GivenUpOnExit'
  <2>1. GivenUpOnExit
    BY Zenon DEF DeliveryInv
  <2>2. QED
    BY Zenon, <2>1, <1>4 DEF GivenUpOnExit
<1>7. QED
  BY Zenon, <1>1, <1>2, <1>3, <1>5, <1>6 DEF DeliveryInv

\* The driver gives its sender up: nothing is promised of the pipeline any more,
\* and what the sender may still take from its queue is next in line.
LEMMA GivingUpDelivers ==
  ASSUME DeliveryInv, MirrorInv', FramesFacts, Attached,
         senders' = [senders EXCEPT ![live] = Retired(@)],
         dpc' \in {"exited", "returned"},
         UNCHANGED <<generation, wire, discarded, position, mq>>,
         Len(egress') <= EgressTarget,
         ppc' = "fill" => Len(source') + refill' <= SourceTarget,
         srcError' => faults' > 0,
         \A i \in DOMAIN boundary' : boundary'[i].frame = NoFrame
  PROVE  DeliveryInv'
<1>1. TypeOK /\ HoldsItsCommand /\ SendersInTurn
  BY Zenon DEF DeliveryInv, MirrorInv
<1>2. Live \in Sender /\ live \in 1..live /\ live \in Nat
  BY Zenon, <1>1, LiveIsSender DEF TypeOK
<1>3. ~Running'
  BY Zenon DEF Running
<1> DEFINE r == Retired(Live)
<1>4. r \in Sender /\ r.retired = TRUE
  <2>1. <<>> \in Seq(Packet)
    OBVIOUS
  <2>2. QED
    BY Zenon, <2>1, <1>2 DEF Retired, Sender
<1>5. senders' = [senders EXCEPT ![live] = r]
  BY Zenon DEF Live
<1>6. InTurn(r, generation, wire)
  <2>1. InTurn(Live, generation, wire)
    BY Zenon, <1>1, <1>2 DEF SendersInTurn, Live
  <2>2. Live.pc = "tick" => Live.cmd = <<>>
    BY Zenon, <1>1, <1>2 DEF HoldsItsCommand, Live
  <2>3. Live.pc = "tick" /\ Live.queue # <<>> => 1..(Head(Live.queue).frame - 1) \subseteq wire
    BY Zenon, <2>2, HeadIsNext
  <2>4. QED
    BY Zenon, <2>1, <2>3, <1>2, TurnRetired
<1> HIDE DEF r
<1>7. SendersInTurn'
  <2>1. InTurn(r, generation, wire') /\ wire \subseteq wire' /\ ~(live < live)
    BY SMTT(60), <1>2, <1>6
  <2>2. QED
    BY Zenon, <2>1, <1>1, <1>2, <1>4, <1>5, SenderChanges
<1>8. Live' = r
  BY Zenon, <1>1, <1>4, <1>5, LiveUpdate
<1>9. GivenUpOnExit'
  BY Zenon, <1>4, <1>8 DEF GivenUpOnExit
<1>10. PipelineInOrder' /\ EgressBounded' /\ RefillFits' /\ StaleWhileRebasing'
  BY Zenon, <1>3 DEF DeliveryInv, PipelineInOrder, EgressBounded, RefillFits, StaleWhileRebasing
<1>11. QED
  BY Zenon, <1>7, <1>9, <1>10 DEF DeliveryInv

-----------------------------------------------------------------------------
(* The steps of the deadline sender threads.                               *)

\* How much is in a sender.
LEMMA InSenderLen ==
  ASSUME NEW r \in Sender
  PROVE  /\ Len(InSender(r)) = Len(r.sent) + Len(r.cmd) + Len(r.queue)
         /\ Len(r.sent) \in Nat /\ Len(r.cmd) \in Nat /\ Len(r.queue) \in Nat
<1>1. r.sent \in Seq(Packet) /\ r.cmd \in Seq(Packet) /\ r.queue \in Seq(Packet)
  BY Zenon DEF Sender
<1> DEFINE a == r.sent
           b == r.cmd
           c == r.queue
<1>2. a \in Seq(Packet) /\ b \in Seq(Packet) /\ c \in Seq(Packet)
  BY Zenon, <1>1
<1>3. InSender(r) = (a \o b) \o c
  BY Zenon DEF InSender
<1> HIDE DEF a, b, c
<1>4. a \o b \in Seq(Packet) /\ Len(a \o b) = Len(a) + Len(b)
  BY Zenon, <1>2, ConcatShape
<1>5. Len((a \o b) \o c) = Len(a \o b) + Len(c)
  BY Zenon, <1>2, <1>4, ConcatShape
<1>6. Len(a) \in Nat /\ Len(b) \in Nat /\ Len(c) \in Nat
  BY <1>2
<1>7. QED
  BY Zenon, <1>3, <1>4, <1>5, <1>6 DEF a, b, c

\* A sender with no more records, held commands and queued commands.
LEMMA LeavesTheSender ==
  ASSUME NEW r \in Sender, NEW w \in Sender,
         \/ Len(r.sent) = Len(w.sent) /\ Len(r.cmd) = Len(w.cmd) /\ Len(r.queue) <= Len(w.queue)
         \/ Len(r.sent) = Len(w.sent) /\ Len(r.cmd) + Len(r.queue) <= Len(w.cmd) + Len(w.queue)
         \/ Len(r.sent) + Len(r.cmd) <= Len(w.sent) + Len(w.cmd) /\ r.queue = w.queue
  PROVE  Len(InSender(r)) <= Len(InSender(w))
<1> DEFINE a == Len(r.sent)  b == Len(r.cmd)  c == Len(r.queue)
           d == Len(w.sent)  e == Len(w.cmd)  f == Len(w.queue)
<1>1. Len(InSender(r)) = a + b + c /\ a \in Nat /\ b \in Nat /\ c \in Nat
  BY Zenon, InSenderLen
<1>2. Len(InSender(w)) = d + e + f /\ d \in Nat /\ e \in Nat /\ f \in Nat
  BY Zenon, InSenderLen
<1>3. (a = d /\ b = e /\ c <= f) \/ (a = d /\ b + c <= e + f) \/ (a + b <= d + e /\ c = f)
  BY Zenon
<1> HIDE DEF a, b, c, d, e, f
<1>4. a + b + c <= d + e + f
  BY SMTT(60), <1>1, <1>2, <1>3
<1>5. QED
  BY Zenon, <1>1, <1>2, <1>4

\* A thread does its part in turn, and what is with it only leaves it.
LEMMA SenderStepDelivers ==
  ASSUME DeliveryInv, MirrorInv', NEW s \in 1..live, NEW r \in Sender,
         senders' = [senders EXCEPT ![s] = r], InTurn(r, generation, wire'),
         r.retired = senders[s].retired, r.own = senders[s].own,
         Len(InSender(r)) <= Len(InSender(senders[s])),
         \A i \in DOMAIN r.queue : \E j \in DOMAIN senders[s].queue :
             r.queue[i] = senders[s].queue[j],
         wire \subseteq wire', \A f \in wire' : 1..f \subseteq wire', faults' \in {faults, faults + 1},
         UNCHANGED <<srcVars, queueVars, boundVars, pumpVars, generation, pcVars>>
  PROVE  DeliveryInv'
<1> USE DEF srcVars, queueVars, boundVars, pumpVars, pcVars
<1>1. TypeOK /\ SendersInTurn
  BY Zenon DEF DeliveryInv, MirrorInv
<1>2. Live \in Sender /\ live \in 1..live /\ live \in Nat /\ senders[s] \in Sender
  BY SMTT(60), <1>1, LiveIsSender DEF TypeOK, live
<1>3. /\ live' = live /\ senders'[s] = r
      /\ \A j \in 1..live : j # s => senders'[j] = senders[j]
  BY Zenon, <1>1, SenderUpdate DEF TypeOK
<1>4. SendersInTurn'
  <2>1. s < live => r.retired
    BY Zenon, <1>1 DEF SendersInTurn
  <2>2. generation' = generation
    BY Zenon
  <2>3. QED
    BY Zenon, <2>1, <2>2, <1>1, SenderChanges
<1>5. Live' = IF s = live THEN r ELSE Live
  BY Zenon, <1>2, <1>3 DEF Live
<1>6. PipelineInOrder'
  BY Zenon DEF DeliveryInv, PipelineInOrder, BeforeSource, BeforeEgress, BeforePrepared,
                  BeforePending, Running
<1>7. EgressBounded'
  BY Zenon DEF DeliveryInv, EgressBounded, Running
<1>8. RefillFits'
  <2>1. faults \in Nat
    BY SMTT(60), <1>1, ConstantTypes DEF TypeOK
  <2>2. QED
    BY SMTT(60), <2>1 DEF DeliveryInv, RefillFits
<1>9. GivenUpOnExit'
  <2>1. GivenUpOnExit
    BY Zenon DEF DeliveryInv
  <2>2. Live'.retired = Live.retired
    BY Zenon, <1>5 DEF Live
  <2>3. QED
    BY ZenonT(60), <2>1, <2>2 DEF GivenUpOnExit
<1>10. StaleWhileRebasing'
  <2>1. SUFFICES ASSUME Running', ~Attached'
                 PROVE  /\ ~Live'.own
                        /\ \A i \in DOMAIN Live'.queue : Live'.queue[i].gen < generation
                        /\ Len(InSender(Live')) <= Len(pending)
    <3>1. generation' = generation /\ pending' = pending
      OBVIOUS
    <3>2. QED
      BY ZenonT(60), <3>1 DEF StaleWhileRebasing, InSender
  <2>2. Running /\ ~Attached
    BY Zenon, <2>1 DEF Running, Attached
  <2>3. /\ ~Live.own
        /\ \A i \in DOMAIN Live.queue : Live.queue[i].gen < generation
        /\ Len(InSender(Live)) <= Len(pending)
    BY Zenon, <2>2 DEF DeliveryInv, StaleWhileRebasing
  <2>4. CASE s # live
    BY Zenon, <2>3, <2>4, <1>5
  <2>5. CASE s = live
    <3>1. Live' = r /\ senders[s] = Live
      BY Zenon, <2>5, <1>5 DEF Live
    <3>2. ~r.own /\ \A i \in DOMAIN r.queue : r.queue[i].gen < generation
      BY Zenon, <3>1, <2>3
    <3>3. Len(InSender(r)) <= Len(pending)
      <4>1. Len(InSender(r)) \in Nat /\ Len(InSender(Live)) \in Nat
        BY SMTT(60), <1>2, InSenderLen
      <4>2. Len(pending) \in Nat
        BY SMTT(60), <1>1 DEF TypeOK
      <4>3. Len(InSender(r)) <= Len(InSender(Live))
        BY Zenon, <3>1
      <4>4. QED
        BY SMTT(60), <4>1, <4>2, <4>3, <2>3
    <3>4. QED
      BY Zenon, <3>1, <3>2, <3>3
  <2>6. QED
    BY Zenon, <2>4, <2>5
<1>11. 1..(position' + mq') \subseteq wire'
  BY Zenon DEF DeliveryInv
<1>12. \A i \in DOMAIN boundary' : boundary'[i].frame = NoFrame
  BY Zenon DEF DeliveryInv
<1>13. QED
  BY Zenon, <1>4, <1>6, <1>7, <1>8, <1>9, <1>10, <1>11, <1>12 DEF DeliveryInv

\* Every step of every sender thread.
LEMMA SenderDelivers ==
  ASSUME DeliveryInv, MirrorInv', FramesFacts, NEW s \in 1..live, SenderNext(s)
  PROVE  DeliveryInv'
<1> DEFINE w == senders[s]
<1>1. TypeOK /\ HoldsItsCommand /\ SendersInTurn /\ ControlPoints
  BY Zenon DEF DeliveryInv, MirrorInv
<1>2. w \in Sender
  BY SMTT(60), <1>1 DEF TypeOK, live
<1>3. /\ w.queue \in Seq(Packet) /\ w.cmd \in Seq(Packet) /\ w.sent \in Seq(Packet)
      /\ w.drops \in Seq(Packet) /\ w.retired \in BOOLEAN /\ w.own \in BOOLEAN
  BY Zenon, <1>2 DEF Sender
<1>4. /\ w.pc \in {"loop", "tick"} => w.cmd = <<>>
      /\ w.pc \in {"holding", "sending", "transmitted"} => Len(w.cmd) = 1
  BY Zenon, <1>1 DEF HoldsItsCommand
<1>5. InTurn(w, generation, wire)
  BY Zenon, <1>1 DEF SendersInTurn
<1>6. \A f \in wire : 1..f \subseteq wire
  BY Zenon DEF DeliveryInv
<1> HIDE DEF w
<1>7. ASSUME NEW pc \in {"loop", "tick", "holding", "sending", "transmitted", "exited"},
             senders' = [senders EXCEPT ![s].pc = pc],
             pc = "sending" => w.pc = "holding",
             pc = "transmitted" => 1..w.cmd[1].frame \subseteq wire',
             pc # "holding", pc = "tick" => ~w.retired,
             wire \subseteq wire', \A f \in wire' : 1..f \subseteq wire',
             faults' \in {faults, faults + 1},
             UNCHANGED <<srcVars, queueVars, boundVars, pumpVars, generation, pcVars>>
      PROVE  DeliveryInv'
  <2> DEFINE r == [w EXCEPT !.pc = pc]
  <2>1. r \in Sender
    BY Zenon, <1>2, <1>7 DEF Sender
  <2>2. senders' = [senders EXCEPT ![s] = r]
    BY Zenon, <1>7 DEF w
  <2>3. /\ r.pc = pc /\ r.queue = w.queue /\ r.cmd = w.cmd /\ r.sent = w.sent
        /\ r.own = w.own /\ r.retired = w.retired
    BY Zenon, <1>2 DEF Sender
  <2> HIDE DEF r
  <2>4. InTurn(r, generation, wire')
    <3>1. InTurn(w, generation, wire')
      BY Zenon, <1>5, <1>7, TurnGrows
    <3>2. QED
      BY Zenon, <3>1, <2>3, <1>7 DEF InTurn
  <2>5. Len(r.sent) + Len(r.cmd) <= Len(w.sent) + Len(w.cmd)
    <3>1. Len(w.sent) \in Nat /\ Len(w.cmd) \in Nat
      BY Zenon, <1>2, InSenderLen
    <3>2. Len(r.sent) = Len(w.sent) /\ Len(r.cmd) = Len(w.cmd)
      BY Zenon, <2>3
    <3>3. QED
      BY SMTT(60), <3>1, <3>2
  <2>6. Len(InSender(r)) <= Len(InSender(w))
    BY Zenon, <2>1, <2>3, <2>5, <1>2, LeavesTheSender
  <2>7. \A i \in DOMAIN r.queue : \E j \in DOMAIN w.queue : r.queue[i] = w.queue[j]
    BY Zenon, <2>3
  <2>8. QED
    BY Zenon, <2>1, <2>2, <2>3, <2>4, <2>6, <2>7, <1>7, SenderStepDelivers DEF w
<1> USE DEF srcVars, loopVars, queueVars, boundVars, cmdVars, pumpVars, envVars,
            pcVars, rtpVars, histVars, SenderOnly
<1>8. CASE SenderLoop(s) \/ SenderEmptyTick(s) \/ SenderCheckCursor(s) \/ SenderSocketError(s)
  <2>1. wire \subseteq wire' /\ \A f \in wire' : 1..f \subseteq wire'
    BY Zenon, <1>6, <1>8 DEF SenderLoop, SenderEmptyTick, SenderCheckCursor, SenderSocketError
  <2>2. /\ faults' \in {faults, faults + 1}
        /\ UNCHANGED <<srcVars, queueVars, boundVars, pumpVars, generation, pcVars>>
    BY Zenon, <1>8 DEF SenderLoop, SenderEmptyTick, SenderCheckCursor, SenderSocketError
  <2>3. CASE SenderLoop(s)
    BY Zenon, <2>1, <2>2, <2>3, <1>7 DEF SenderLoop, w
  <2>4. CASE SenderEmptyTick(s)
    BY Zenon, <2>1, <2>2, <2>4, <1>7 DEF SenderEmptyTick, w
  <2>5. CASE SenderCheckCursor(s)
    BY Zenon, <2>1, <2>2, <2>5, <1>7 DEF SenderCheckCursor, w
  <2>6. CASE SenderSocketError(s)
    BY Zenon, <2>1, <2>2, <2>6, <1>7 DEF SenderSocketError, w
  <2>7. QED
    BY Zenon, <2>3, <2>4, <2>5, <2>6, <1>8
<1>9. CASE SenderTransmit(s)
  <2> DEFINE f == w.cmd[1].frame
  <2>1. w.pc = "sending" /\ wire' = wire \cup ({f} \ {NoFrame})
        /\ senders' = [senders EXCEPT ![s].pc = "transmitted"]
    BY Zenon, <1>9 DEF SenderTransmit, w
  <2>2. w.cmd[1] \in Packet
    BY SMTT(60), <2>1, <1>3, <1>4, SeqElement
  <2>3. f \in Nat
    BY SMTT(60), <2>2, ConstantTypes DEF Packet, Frames, NoFrame
  <2>4. 1..(f - 1) \subseteq wire
    BY Zenon, <2>1, <1>5 DEF InTurn
  <2>5. wire \subseteq Nat
    BY SMTT(60), <1>1 DEF TypeOK, Frames
  <2> HIDE DEF f
  <2>6. 1..f \subseteq wire'
    BY SMTT(60), <2>1, <2>3, <2>4 DEF NoFrame
  <2>7. wire \subseteq wire' /\ \A g \in wire' : 1..g \subseteq wire'
    BY Zenon, <2>1, <2>6, <1>6
  <2>8. faults' = faults /\ UNCHANGED <<srcVars, queueVars, boundVars, pumpVars, generation, pcVars>>
    BY Zenon, <1>9 DEF SenderTransmit
  <2>9. QED
    BY ZenonT(60), <2>1, <2>6, <2>7, <2>8, <1>7 DEF f
<1>10. CASE SenderTake(s)
  <2> DEFINE h == Head(w.queue)
             r == [w EXCEPT !.pc = "holding", !.cmd = <<h>>, !.queue = Tail(w.queue)]
  <2>1. /\ w.pc = "tick" /\ w.queue # <<>> /\ h.gen = ActiveGeneration(w)
        /\ senders' = [senders EXCEPT ![s] = r]
    BY Zenon, <1>10 DEF SenderTake, w
  <2>2. h \in Packet /\ Tail(w.queue) \in Seq(Packet) /\ Len(Tail(w.queue)) = Len(w.queue) - 1
        /\ Len(w.queue) \in Nat
        /\ \A i \in DOMAIN Tail(w.queue) : i + 1 \in DOMAIN w.queue /\ Tail(w.queue)[i] = w.queue[i + 1]
    BY SMTT(60), <2>1, <1>3, TailShape
  <2>3. <<h>> \in Seq(Packet) /\ Len(<<h>>) = 1 /\ <<h>>[1] = h
    BY <2>2
  <2>4. 1..(h.frame - 1) \subseteq wire
    <3>1. CASE w.retired
      BY Zenon, <3>1, <2>1, <1>5 DEF InTurn, ActiveGeneration
    <3>2. CASE ~w.retired
      <4>1. s = live /\ w = Live
        <5>1. ~(s < live) /\ live \in Nat
          BY SMTT(60), <3>2, <1>1 DEF SendersInTurn, w, TypeOK, live
        <5>2. s = live
          BY SMTT(60), <5>1
        <5>3. QED
          BY Zenon, <5>2 DEF w, Live
      <4>2. dpc \notin {"exited", "cleanup", "returned"}
        BY Zenon, <3>2, <4>1 DEF DeliveryInv, GivenUpOnExit
      <4>3. Attached
        <5>1. SUFFICES ASSUME ~Attached PROVE FALSE
          BY Zenon
        <5>2. Running
          BY Zenon, <5>1, <4>2, <1>1 DEF Running, Attached, ControlPoints
        <5>3. ~w.own /\ \A i \in DOMAIN w.queue : w.queue[i].gen < generation
          BY Zenon, <5>1, <5>2, <4>1 DEF DeliveryInv, StaleWhileRebasing
        <5>4. h = w.queue[1] /\ 1 \in DOMAIN w.queue /\ generation \in Nat
          BY SMTT(60), <2>1, <1>1, <1>3 DEF TypeOK
        <5>5. generation < generation
          BY Zenon, <5>3, <5>4, <2>1 DEF ActiveGeneration
        <5>6. ~(generation < generation)
          <6>1. generation \in Nat
            BY Zenon, <5>4
          <6>2. QED
            BY SMTT(60), <6>1
        <5>7. QED
          BY Zenon, <5>5, <5>6
      <4>4. QED
        BY Zenon, <4>1, <4>3, <2>1, <1>4, HeadIsNext
    <3>3. QED
      BY Zenon, <3>1, <3>2
  <2> HIDE DEF h
  <2>5. r \in Sender
    BY Zenon, <2>2, <2>3, <1>2, <1>3 DEF Sender
  <2>6. /\ r.pc = "holding" /\ r.queue = Tail(w.queue) /\ r.cmd = <<h>>
        /\ r.sent = w.sent /\ r.own = w.own /\ r.retired = w.retired
    BY Zenon, <1>2 DEF Sender
  <2> HIDE DEF r
  <2>7. /\ wire' = wire /\ faults' = faults
        /\ UNCHANGED <<srcVars, queueVars, boundVars, pumpVars, generation, pcVars>>
    BY Zenon, <1>10 DEF SenderTake
  <2>8. \A i \in DOMAIN r.queue : \E j \in DOMAIN w.queue : r.queue[i] = w.queue[j]
    BY Zenon, <2>2, <2>6
  <2>9. InTurn(r, generation, wire')
    <3>1. ~r.own => \A i \in DOMAIN r.queue : r.queue[i].gen <= generation
      BY Zenon, <2>6, <2>8, <1>5 DEF InTurn
    <3>2. r.cmd[1] = h
      BY Zenon, <2>3, <2>6
    <3>3. QED
      BY Zenon, <3>1, <3>2, <2>4, <2>6, <2>7, <1>5 DEF InTurn
  <2>10. Len(InSender(r)) <= Len(InSender(w))
    <3>1. w.cmd = <<>> /\ Len(w.cmd) = 0
      BY Zenon, <2>1, <1>4
    <3>2. Len(r.sent) = Len(w.sent) /\ Len(r.cmd) + Len(r.queue) <= Len(w.cmd) + Len(w.queue)
      BY SMTT(60), <3>1, <2>2, <2>3, <2>6
    <3>3. QED
      BY Zenon, <3>2, <2>5, <1>2, LeavesTheSender
  <2>11. QED
    BY ZenonT(60), <2>1, <2>5, <2>6, <2>7, <2>8, <2>9, <2>10, <1>6, SenderStepDelivers DEF w
<1>11. CASE SenderDrop(s)
  <2> DEFINE full == w.retired \/ Len(w.drops) >= RecordCap
             r == [w EXCEPT !.pc = IF full THEN "exited" ELSE "loop",
                            !.queue = Tail(w.queue),
                            !.drops = IF full THEN w.drops ELSE Append(w.drops, Head(w.queue))]
  <2>1. w.queue # <<>> /\ senders' = [senders EXCEPT ![s] = r]
    BY Zenon, <1>11 DEF SenderDrop, w
  <2>2. Head(w.queue) \in Packet /\ Tail(w.queue) \in Seq(Packet)
        /\ Len(Tail(w.queue)) = Len(w.queue) - 1 /\ Len(w.queue) \in Nat
        /\ \A i \in DOMAIN Tail(w.queue) : i + 1 \in DOMAIN w.queue /\ Tail(w.queue)[i] = w.queue[i + 1]
    BY SMTT(60), <2>1, <1>3, TailShape
  <2>3. Append(w.drops, Head(w.queue)) \in Seq(Packet)
    BY SMTT(60), <2>2, <1>3
  <2> HIDE DEF full
  <2>4. r \in Sender
    BY Zenon, <2>2, <2>3, <1>2, <1>3 DEF Sender
  <2>5. /\ r.pc \in {"exited", "loop"} /\ r.queue = Tail(w.queue) /\ r.cmd = w.cmd
        /\ r.sent = w.sent /\ r.own = w.own /\ r.retired = w.retired
    BY Zenon, <1>2 DEF Sender
  <2> HIDE DEF r
  <2>6. /\ wire' = wire /\ faults' = faults
        /\ UNCHANGED <<srcVars, queueVars, boundVars, pumpVars, generation, pcVars>>
    BY Zenon, <1>11 DEF SenderDrop
  <2>7. \A i \in DOMAIN r.queue : \E j \in DOMAIN w.queue : r.queue[i] = w.queue[j]
    BY Zenon, <2>2, <2>5
  <2>8. InTurn(r, generation, wire')
    <3>1. ~r.own => \A i \in DOMAIN r.queue : r.queue[i].gen <= generation
      BY Zenon, <2>5, <2>7, <1>5 DEF InTurn
    <3>2. QED
      BY Zenon, <3>1, <2>5, <2>6, <1>5 DEF InTurn
  <2>9. Len(InSender(r)) <= Len(InSender(w))
    <3>1. Len(r.sent) = Len(w.sent) /\ Len(r.cmd) = Len(w.cmd) /\ Len(r.queue) <= Len(w.queue)
      BY SMTT(60), <2>2, <2>5
    <3>2. QED
      BY Zenon, <3>1, <2>4, <1>2, LeavesTheSender
  <2>10. QED
    BY ZenonT(60), <2>1, <2>4, <2>5, <2>6, <2>7, <2>8, <2>9, <1>6, SenderStepDelivers DEF w
<1>12. CASE SenderCommit(s)
  <2> DEFINE packet == w.cmd[1]
             full == w.retired \/ Len(w.sent) >= RecordCap
             r == [w EXCEPT !.pc = IF full THEN "exited" ELSE "loop",
                            !.cmd = IF full THEN w.cmd ELSE <<>>,
                            !.sent = IF full THEN w.sent ELSE Append(w.sent, packet)]
  <2>1. /\ wire' = wire /\ faults' = faults /\ w.pc = "transmitted"
        /\ UNCHANGED <<srcVars, queueVars, boundVars, pumpVars, generation, pcVars>>
    BY Zenon, <1>12 DEF SenderCommit, w
  <2>2. CASE packet.seq # cursor
    <3>1. senders' = [senders EXCEPT ![s].pc = "exited"]
      BY Zenon, <2>2, <1>12 DEF SenderCommit, w
    <3>2. wire \subseteq wire' /\ \A f \in wire' : 1..f \subseteq wire'
      BY Zenon, <2>1, <1>6
    <3>3. QED
      BY Zenon, <3>1, <3>2, <2>1, <1>7
  <2>3. CASE packet.seq = cursor
    <3>1. senders' = [senders EXCEPT ![s] = r]
      BY Zenon, <2>3, <1>12 DEF SenderCommit, w
    <3>2. packet \in Packet /\ 1..packet.frame \subseteq wire
      <4>1. packet \in Packet
        BY SMTT(60), <2>1, <1>3, <1>4, SeqElement
      <4>2. QED
        BY Zenon, <4>1, <2>1, <1>5 DEF InTurn
    <3> HIDE DEF packet, full
    <3>3. Append(w.sent, packet) \in Seq(Packet) /\ <<>> \in Seq(Packet)
      BY SMTT(60), <3>2, <1>3
    <3>4. r \in Sender
      BY Zenon, <3>3, <1>2, <1>3 DEF Sender
    <3>5. /\ r.pc = IF full THEN "exited" ELSE "loop"
          /\ r.cmd = IF full THEN w.cmd ELSE <<>>
          /\ r.sent = IF full THEN w.sent ELSE Append(w.sent, packet)
          /\ r.queue = w.queue /\ r.own = w.own /\ r.retired = w.retired
      BY Zenon, <1>2 DEF Sender
    <3> HIDE DEF r
    <3>6. \A i \in DOMAIN r.sent : 1..r.sent[i].frame \subseteq wire
      <4>1. \A i \in DOMAIN w.sent : 1..w.sent[i].frame \subseteq wire
        BY Zenon, <1>5 DEF InTurn
      <4> DEFINE t == Append(w.sent, packet)
      <4>2. \A i \in DOMAIN t : t[i] = packet \/ (i \in DOMAIN w.sent /\ t[i] = w.sent[i])
        BY SMTT(60), <3>2, <1>3, AppendShape
      <4> HIDE DEF t
      <4>3. \A i \in DOMAIN t : 1..t[i].frame \subseteq wire
        BY Zenon, <4>1, <4>2, <3>2
      <4>4. QED
        BY Zenon, <4>1, <4>3, <3>5 DEF t
    <3>7. InTurn(r, generation, wire')
      <4>1. r.pc \in {"exited", "loop"}
        BY Zenon, <3>5
      <4>2. QED
        BY Zenon, <4>1, <3>5, <3>6, <2>1, <1>5 DEF InTurn
    <3>8. Len(InSender(r)) <= Len(InSender(w))
      <4>1. Len(r.sent) + Len(r.cmd) <= Len(w.sent) + Len(w.cmd)
        <5>1. Len(Append(w.sent, packet)) = Len(w.sent) + 1 /\ Len(w.cmd) = 1 /\ Len(<<>>) = 0
              /\ Len(w.sent) \in Nat
          BY SMTT(60), <3>2, <2>1, <1>3, <1>4, AppendShape
        <5>2. CASE full
          <6>1. r.sent = w.sent /\ r.cmd = w.cmd
            BY Zenon, <5>2, <3>5
          <6>2. QED
            BY SMTT(60), <6>1, <5>1
        <5>3. CASE ~full
          <6>1. r.sent = Append(w.sent, packet) /\ r.cmd = <<>>
            BY Zenon, <5>3, <3>5
          <6>2. Len(r.sent) = Len(w.sent) + 1 /\ Len(r.cmd) = 0
            BY Zenon, <6>1, <5>1
          <6>3. QED
            BY SMTT(60), <6>2, <5>1
        <5>4. QED
          BY Zenon, <5>2, <5>3
      <4>2. QED
        BY Zenon, <4>1, <3>4, <3>5, <1>2, LeavesTheSender
    <3>9. \A i \in DOMAIN r.queue : \E j \in DOMAIN w.queue : r.queue[i] = w.queue[j]
      BY Zenon, <3>5
    <3>10. QED
      BY ZenonT(60), <3>1, <3>4, <3>5, <3>7, <3>8, <3>9, <2>1, <1>6, SenderStepDelivers DEF w
  <2>4. QED
    BY Zenon, <2>2, <2>3
<1>13. QED
  BY Zenon, <1>8, <1>9, <1>10, <1>11, <1>12 DEF SenderNext

-----------------------------------------------------------------------------
(* The producer, the control surface, and the driver's moves.              *)

\* The producer adds the next frames, and no more than fit.
LEMMA ProducerDelivers ==
  ASSUME DeliveryInv, MirrorInv', FramesFacts, ProducerNext
  PROVE  DeliveryInv'
<1> USE DEF srcVars, loopVars, queueVars, boundVars, cmdVars, pumpVars,
            pcVars, rtpVars, histVars, ProducerOnly
<1>1. TypeOK /\ SourceFits /\ RefillFits /\ PipelineInOrder /\ EgressBounded
      /\ \A i \in DOMAIN boundary : boundary[i].frame = NoFrame
  BY Zenon DEF DeliveryInv, MirrorInv
<1>2. source \in Seq(Frames) /\ Len(source) \in Nat /\ Len(source) <= SourceTarget
      /\ refill \in Nat /\ produced \in 0..NFrames /\ faults \in Nat
  BY SMTT(60), <1>1, ConstantTypes DEF TypeOK, SourceFits
<1>3. UNCHANGED <<senders, generation, wire, egress, prepared, pending, discarded,
                  position, mq, dpc, ret, why, boundary>>
  BY Zenon DEF ProducerNext, ProducerCheck, ProducerAwait, ProducerRefill, ProducerError
<1>4. /\ (Running' <=> Running) /\ (Attached' <=> Attached)
      /\ \A i \in DOMAIN boundary' : boundary'[i].frame = NoFrame
  BY Zenon, <1>1, <1>3 DEF Running, Attached
<1>5. ASSUME UNCHANGED <<source, produced>>,
             ppc' = "fill" => Len(source) + refill' <= SourceTarget, srcError' => faults' > 0
      PROVE  DeliveryInv'
  BY Zenon, <1>3, <1>4, <1>5, MovesDeliver
<1>6. CASE ProducerCheck
  <2>1. ppc' = "fill" => Len(source) < SourceLow /\ refill' = RefillSize
    <3>1. SUFFICES ASSUME ppc' = "fill" PROVE Len(source) < SourceLow /\ refill' = RefillSize
      OBVIOUS
    <3>2. refill' = RefillSize
      BY Zenon, <3>1, <1>6 DEF ProducerCheck
    <3>3. ~(eos \/ srcError)
      BY Zenon, <3>1, <1>6 DEF ProducerCheck
    <3>4. ~(Len(source) >= SourceLow)
      BY Zenon, <3>1, <3>3, <1>6 DEF ProducerCheck
    <3>5. QED
      BY SMTT(60), <3>2, <3>4, <1>2, ConstantTypes
  <2>2. ppc' = "fill" => Len(source) + refill' <= SourceTarget
    BY SMTT(60), <2>1, <1>2, ConstantTypes, WatermarksOrdered DEF RefillSize, Most
  <2>3. QED
    BY Zenon, <2>2, <1>1, <1>5, <1>6 DEF ProducerCheck, RefillFits
<1>7. CASE ProducerAwait
  BY Zenon, <1>1, <1>5, <1>7 DEF ProducerAwait, RefillFits
<1>8. CASE ProducerError
  <2>1. faults' > 0 /\ ppc' # "fill"
    BY SMTT(60), <1>2, <1>8 DEF ProducerError
  <2>2. QED
    BY Zenon, <2>1, <1>5, <1>8 DEF ProducerError
<1>9. CASE ProducerRefill
  <2> DEFINE n == Least(refill, NFrames - produced)
             new == [i \in 1..n |-> produced + i]
  <2>1. n \in Nat /\ produced + n <= NFrames /\ n <= SourceTarget - Len(source)
    BY SMTT(60), <1>1, <1>2, <1>9, ConstantTypes DEF Least, RefillFits, ProducerRefill
  <2>2. /\ source' = source \o new /\ produced' = produced + n
        /\ ~srcError' /\ ppc' # "fill"
    <3> HIDE DEF n
    <3>1. Least(n, SourceTarget - Len(source)) = n
      BY SMTT(60), <2>1, <1>2, ConstantTypes DEF Least
    <3>2. QED
      <4> DEFINE fit == Least(n, SourceTarget - Len(source))
      <4>1. /\ source' = source \o [i \in 1..fit |-> produced + i]
            /\ produced' = produced + n /\ srcError' = (fit < n) /\ ppc' \in {"check", "done"}
        BY Zenon, <1>9 DEF ProducerRefill, n
      <4>2. fit = n
        BY Zenon, <3>1
      <4> HIDE DEF fit
      <4>3. ~(fit < n)
        BY SMTT(60), <4>2, <2>1
      <4>4. source' = source \o new
        BY Zenon, <4>1, <4>2
      <4>5. ~srcError'
        BY Zenon, <4>1, <4>3
      <4>6. ppc' # "fill"
        BY Zenon, <4>1
      <4>7. QED
        BY Zenon, <4>1, <4>4, <4>5, <4>6
  <2> HIDE DEF n
  <2>3. /\ new \in Seq(Frames) /\ Len(new) = n /\ DOMAIN new = 1..n
        /\ \A i \in 1..n : new[i] = produced + i
    <3>1. \A i \in 1..n : produced + i \in Frames
      BY SMTT(60), <2>1, <1>2, ConstantTypes DEF Frames
    <3>2. QED
      BY SMTT(60), <3>1, <2>1
  <2> HIDE DEF new
  <2>4. Follows(new, produced)
    BY Zenon, <2>3 DEF Follows
  <2>5. SendersInTurn' /\ StaleWhileRebasing' /\ GivenUpOnExit'
    <3>1. SendersInTurn'
      BY Zenon, <1>3, SendersStay DEF DeliveryInv
    <3>2. Live' = Live
      BY Zenon, <1>3 DEF Live, live
    <3>3. StaleWhileRebasing'
      BY ZenonT(60), <3>2, <1>3, <1>4 DEF DeliveryInv, StaleWhileRebasing, InSender
    <3>4. GivenUpOnExit'
      BY ZenonT(60), <3>2, <1>3 DEF DeliveryInv, GivenUpOnExit
    <3>5. QED
      BY Zenon, <3>1, <3>3, <3>4
  <2>6. EgressBounded' /\ RefillFits'
    BY Zenon, <2>2, <1>1, <1>3, <1>4 DEF EgressBounded, RefillFits
  <2>7. PipelineInOrder'
    <3> DEFINE b == BeforeSource
    <3>1. b \in Int /\ produced = b + Len(source)
      BY SMTT(60), <1>2 DEF BeforeSource
    <3>2. SUFFICES ASSUME Running PROVE PipelineInOrder'
      BY Zenon, <1>4 DEF PipelineInOrder
    <3>3. Follows(source, b)
      BY Zenon, <3>2, <1>1 DEF PipelineInOrder
    <3>4. Follows(source', b) /\ Len(source') = Len(source) + n
      <4>1. Follows(new, b + Len(source))
        BY Zenon, <3>1, <2>4
      <4>2. Follows(source \o new, b) /\ Len(source \o new) = Len(source) + Len(new)
        BY ZenonT(60), <4>1, <3>1, <3>3, <2>3, <1>2, FollowsConcat
      <4>3. QED
        BY Zenon, <4>2, <2>2, <2>3
    <3>5. BeforeSource' = b
      BY SMTT(60), <3>4, <2>1, <2>2, <1>2 DEF BeforeSource
    <3>6. /\ BeforeEgress' = BeforeEgress /\ BeforePrepared' = BeforePrepared
          /\ BeforePending' = BeforePending
      BY Zenon, <3>5, <1>3 DEF BeforeEgress, BeforePrepared, BeforePending
    <3>7. Follows(source', BeforeSource')
      BY Zenon, <3>4, <3>5
    <3>8. /\ Follows(egress', BeforeEgress')
          /\ TracksFollow(prepared', BeforePrepared')
          /\ Follows(FramesOf(pending'), BeforePending')
          /\ position' + mq' <= BeforePending' /\ 1..BeforePending' \subseteq wire'
      BY Zenon, <3>2, <3>6, <1>1, <1>3 DEF PipelineInOrder
    <3>9. QED
      BY Zenon, <3>7, <3>8 DEF PipelineInOrder, Follows, TracksFollow
  <2>8. QED
    BY ZenonT(60), <2>5, <2>6, <2>7, <1>3, <1>4 DEF DeliveryInv
<1>10. QED
  BY Zenon, <1>6, <1>7, <1>8, <1>9 DEF ProducerNext

\* Metrics, interruptions and commands touch no frame.
LEMMA ControlDelivers ==
  ASSUME DeliveryInv, MirrorInv', FramesFacts, PumpNext \/ ControlNext
  PROVE  DeliveryInv'
<1> USE DEF srcVars, loopVars, queueVars, boundVars, cmdVars, pumpVars, envVars,
            pcVars, rtpVars, histVars
<1>1. UNCHANGED <<senders, generation, wire, source, produced, egress, prepared, pending,
                  discarded, dpc, ret, why, boundary, ppc, refill, srcError, faults>>
  BY Zenon DEF PumpNext, ControlNext, PumpMetric, PumpStop, SendMediaCommand, Interrupt
<1>2. position' + mq' = position + mq
  <2>1. position \in Nat /\ mq \in Nat
    BY Zenon DEF DeliveryInv, MirrorInv, TypeOK
  <2>2. QED
    BY SMTT(60), <2>1 DEF PumpNext, ControlNext, PumpMetric, PumpStop, SendMediaCommand, Interrupt
<1>3. /\ (Running' <=> Running) /\ (Attached' <=> Attached)
      /\ \A i \in DOMAIN boundary' : boundary'[i].frame = NoFrame
  BY Zenon, <1>1 DEF Running, Attached, DeliveryInv
<1>4. /\ ppc' = "fill" => Len(source) + refill' <= SourceTarget
      /\ srcError' => faults' > 0
  BY Zenon, <1>1 DEF DeliveryInv, RefillFits
<1>5. QED
  BY Zenon, <1>1, <1>2, <1>3, <1>4, MovesDeliver

\* A step that changes nothing.
LEMMA StutterDelivers ==
  ASSUME DeliveryInv, MirrorInv', FramesFacts, UNCHANGED vars
  PROVE  DeliveryInv'
<1>1. UNCHANGED <<senders, generation, wire, source, produced, egress, prepared, pending,
                  discarded, dpc, ret, why, boundary, ppc, refill, srcError, faults,
                  position, mq>>
  BY Zenon DEF vars, srcVars, queueVars, boundVars, rtpVars, pumpVars,
                  envVars, histVars, pcVars
<1>2. /\ (Running' <=> Running) /\ (Attached' <=> Attached)
      /\ \A i \in DOMAIN boundary' : boundary'[i].frame = NoFrame
  BY Zenon, <1>1 DEF Running, Attached, DeliveryInv
<1>3. /\ ppc' = "fill" => Len(source) + refill' <= SourceTarget
      /\ srcError' => faults' > 0
  BY Zenon, <1>1 DEF DeliveryInv, RefillFits
<1>4. QED
  BY Zenon, <1>1, <1>2, <1>3, MovesDeliver

\* The steps of run_loop that only move on, and those around it.
LEMMA DriverMovesDeliver ==
  ASSUME DeliveryInv, MirrorInv', FramesFacts,
         DriverTop \/ DriverDrained \/ DriverCommandsDone \/ DriverSlot
           \/ DriverRecheck \/ ObserveExit \/ DriverCommand
  PROVE  DeliveryInv'
<1> USE DEF srcVars, loopVars, queueVars, boundVars, cmdVars, pumpVars, envVars,
            pcVars, rtpVars, histVars, DriverOnly
<1>1. UNCHANGED <<senders, generation, wire, source, produced, egress, prepared, pending,
                  discarded, boundary, refill, srcError, faults, position, mq>>
  BY Zenon DEF DriverTop, DriverDrained, DriverCommandsDone, DriverSlot, DriverRecheck,
                  ObserveExit, DriverCommand
<1>2. /\ ppc' = "fill" => Len(source) + refill' <= SourceTarget
      /\ srcError' => faults' > 0
      /\ \A i \in DOMAIN boundary' : boundary'[i].frame = NoFrame
  <2>1. ppc' \in {ppc, "done"}
    BY Zenon DEF DriverTop, DriverDrained, DriverCommandsDone, DriverSlot, DriverRecheck,
                    ObserveExit, DriverCommand
  <2>2. QED
    BY Zenon, <2>1, <1>1 DEF DeliveryInv, RefillFits
<1>3. dpc' \in {"exited", "cleanup", "returned"} <=> dpc \in {"exited", "cleanup", "returned"}
  BY Zenon DEF DriverTop, DriverDrained, DriverCommandsDone, DriverSlot, DriverRecheck,
                  ObserveExit, DriverCommand
<1>4. Running' => Running
  <2>1. dpc \in {"top", "drain", "cmd1", "slot", "check2", "exited", "cmd2", "select", "paused"}
    <3>1. CASE DriverTop \/ DriverDrained \/ DriverCommandsDone
      BY ZenonT(60), <3>1 DEF DriverTop, DriverDrained, DriverCommandsDone
    <3>4. CASE DriverSlot \/ DriverRecheck \/ ObserveExit
      BY ZenonT(60), <3>4 DEF DriverSlot, DriverRecheck, ObserveExit
    <3>2. CASE DriverCommand
      BY Zenon, <3>2 DEF DriverCommand
    <3>3. QED
      BY Zenon, <3>1, <3>2, <3>4
  <2>2. ret # "cleanup"
    BY Zenon, <2>1 DEF DeliveryInv, MirrorInv, ControlPoints
  <2>3. QED
    BY Zenon, <2>2, <1>3 DEF Running
<1>5. Running' => Attached'
  <2>1. dpc' # "rebase"
    <3>1. CASE DriverTop \/ DriverDrained \/ DriverCommandsDone
      BY ZenonT(60), <3>1 DEF DriverTop, DriverDrained, DriverCommandsDone
    <3>4. CASE DriverSlot \/ DriverRecheck \/ ObserveExit
      BY ZenonT(60), <3>4 DEF DriverSlot, DriverRecheck, ObserveExit
    <3>2. CASE DriverCommand
      <4>1. dpc' \in {"invalidate", "top", dpc} /\ dpc # "rebase"
        BY ZenonT(60), <3>2 DEF DriverCommand
      <4>2. QED
        BY Zenon, <4>1
    <3>3. QED
      BY Zenon, <3>1, <3>2, <3>4
  <2>2. QED
    BY Zenon, <2>1 DEF Running, Attached
<1>6. position' + mq' = position + mq
  BY Zenon, <1>1
<1>7. QED
  BY ZenonT(60), <1>1, <1>2, <1>3, <1>4, <1>5, <1>6, MovesDeliver

-----------------------------------------------------------------------------
(* The driver's steps that end run_loop.                                   *)

\* The steps that return an error or an interruption, and no other.
LEMMA DriverEndsDeliver ==
  ASSUME DeliveryInv, MirrorInv', FramesFacts,
         DriverSourceError \/ DriverSenderGone \/ DriverPausedStale
  PROVE  DeliveryInv'
<1> USE DEF srcVars, loopVars, queueVars, boundVars, cmdVars, pumpVars, envVars,
            pcVars, rtpVars, histVars, DriverOnly
<1>1. Attached
  BY Zenon DEF Attached, DriverSourceError, DriverSenderGone, DriverPausedStale
<1>2. /\ senders' = [senders EXCEPT ![live] = Retired(@)] /\ dpc' = "exited"
      /\ UNCHANGED <<generation, wire, discarded, position, mq, egress, source, ppc, refill,
                     boundary, faults>>
      /\ srcError' => srcError
  <2>1. CASE DriverSourceError
    BY ZenonT(60), <2>1 DEF Exit, DriverSourceError
  <2>2. CASE DriverSenderGone
    BY ZenonT(60), <2>2 DEF Exit, DriverSenderGone
  <2>3. CASE DriverPausedStale
    BY ZenonT(60), <2>3 DEF Exit, DriverPausedStale
  <2>4. QED
    BY Zenon, <2>1, <2>2, <2>3
<1>3. QED
  BY Zenon, <1>1, <1>2, GivingUpDelivers DEF DeliveryInv, EgressBounded, RefillFits

\* So does a failure of the gateway.
LEMMA GatewayErrorDelivers ==
  ASSUME DeliveryInv, MirrorInv', FramesFacts, DriverGatewayError
  PROVE  DeliveryInv'
<1> USE DEF srcVars, loopVars, queueVars, boundVars, cmdVars, pumpVars, envVars,
            pcVars, rtpVars, histVars, DriverOnly
<1>1. Attached
  BY Zenon DEF Attached, DriverGatewayError
<1>2. /\ senders' = [senders EXCEPT ![live] = Retired(@)] /\ dpc' \in {"exited", "returned"}
      /\ UNCHANGED <<generation, wire, discarded, position, mq, egress, source, ppc, refill,
                     boundary, srcError>>
      /\ faults' = faults + 1
  BY ZenonT(60) DEF Exit, BoundaryFails, DriverGatewayError
<1>3. faults' > 0
  BY SMTT(60), <1>2, ConstantTypes DEF DeliveryInv, MirrorInv, TypeOK
<1>4. QED
  BY Zenon, <1>1, <1>2, <1>3, GivingUpDelivers DEF DeliveryInv, EgressBounded, RefillFits

\* The second rebase of a pause or a stop.
LEMMA RebaseOnlyDelivers ==
  ASSUME DeliveryInv, MirrorInv', FramesFacts, DriverRebaseOnly
  PROVE  DeliveryInv'
<1> USE DEF srcVars, loopVars, queueVars, boundVars, cmdVars, pumpVars, envVars,
            pcVars, rtpVars, histVars, DriverOnly
<1>1. /\ UNCHANGED <<generation, wire, discarded, position, mq, egress, source, ppc, refill,
                     boundary, srcError, faults, produced, prepared, pending>>
      /\ dpc = "rebase" /\ why \in {"repause", "restop"}
  BY ZenonT(60) DEF DriverRebaseOnly
<1>2. Attached
  BY Zenon, <1>1 DEF Attached
<1>3. CASE senders' = [senders EXCEPT ![live] = Retired(@)] /\ dpc' = "exited"
  BY Zenon, <1>1, <1>2, <1>3, GivingUpDelivers DEF DeliveryInv, EgressBounded, RefillFits
<1>4. CASE senders' = senders /\ dpc' = "paused" /\ ret' = ret
  <2>1. ret # "cleanup"
    BY Zenon, <1>1 DEF DeliveryInv, MirrorInv, ControlPoints
  <2>2. /\ (Running' => Running) /\ (Running' => Attached')
        /\ dpc' \in {"exited", "cleanup", "returned"} <=> dpc \in {"exited", "cleanup", "returned"}
    BY Zenon, <2>1, <1>1, <1>4 DEF Running, Attached
  <2>3. position' + mq' = position + mq
    BY Zenon, <1>1
  <2>4. QED
    BY ZenonT(60), <2>2, <2>3, <1>1, <1>4, MovesDeliver DEF DeliveryInv, RefillFits
<1>5. QED
  BY ZenonT(60), <1>3, <1>4 DEF DriverRebaseOnly, Exit

-----------------------------------------------------------------------------
(* The driver's exchange with its sender.                                  *)

\* The driver queues a command for its sender or reads a record of it.
LEMMA LiveStepDelivers ==
  ASSUME DeliveryInv, MirrorInv', FramesFacts, Attached,
         NEW r \in Sender, senders' = [senders EXCEPT ![live] = r],
         r.pc = Live.pc, r.cmd = Live.cmd, r.retired = Live.retired,
         \A i \in DOMAIN r.sent : \E j \in DOMAIN Live.sent : r.sent[i] = Live.sent[j],
         UNCHANGED <<generation, wire>>,
         dpc' \notin {"exited", "cleanup", "returned", "rebase"},
         PipelineInOrder', EgressBounded', RefillFits', 1..(position' + mq') \subseteq wire,
         \A i \in DOMAIN boundary' : boundary'[i].frame = NoFrame
  PROVE  DeliveryInv'
<1>1. TypeOK /\ SendersInTurn
  BY Zenon DEF DeliveryInv, MirrorInv
<1>2. Live \in Sender /\ live \in 1..live /\ live \in Nat
  BY Zenon, <1>1, LiveIsSender DEF TypeOK
<1>3. Live' = r
  BY Zenon, <1>1, LiveUpdate
<1>4. Live.retired = FALSE
  <2>1. Live.retired \in BOOLEAN
    BY Zenon, <1>2 DEF Sender
  <2>2. ~Live.retired
    BY Zenon DEF DeliveryInv, GivenUpOnExit, Attached
  <2>3. QED
    BY Zenon, <2>1, <2>2
<1>5. Attached'
  BY Zenon DEF Attached
<1>6. \A i \in DOMAIN r.queue : r.queue[i].gen = IF r.own THEN 0 ELSE generation
  <2>1. \A i \in DOMAIN r.queue : r.queue[i].gen = IF r.own THEN 0 ELSE generation'
    BY Zenon, <1>3, <1>5 DEF MirrorInv, ActiveGenerations, ActiveGeneration
  <2>2. QED
    BY Zenon, <2>1
<1>7. InTurn(r, generation, wire)
  <2>1. InTurn(Live, generation, wire)
    BY Zenon, <1>1, <1>2 DEF SendersInTurn, Live
  <2>2. \A i \in DOMAIN r.sent : 1..r.sent[i].frame \subseteq wire
    BY Zenon, <2>1 DEF InTurn
  <2>3. generation \in Nat
    BY Zenon, <1>1 DEF TypeOK
  <2>4. ~r.own => \A i \in DOMAIN r.queue : r.queue[i].gen <= generation
    BY SMTT(60), <2>3, <1>6
  <2>5. QED
    BY Zenon, <2>1, <2>2, <2>4, <1>4 DEF InTurn
<1>8. SendersInTurn'
  <2>1. InTurn(r, generation, wire') /\ wire \subseteq wire' /\ ~(live < live)
        /\ generation' = generation
    BY SMTT(60), <1>2, <1>7
  <2>2. QED
    BY Zenon, <2>1, <1>1, <1>2, SenderChanges
<1>9. StaleWhileRebasing'
  BY Zenon, <1>5 DEF StaleWhileRebasing
<1>10. GivenUpOnExit'
  BY Zenon, <1>3, <1>4 DEF GivenUpOnExit
<1>11. \A f \in wire' : 1..f \subseteq wire'
  BY Zenon DEF DeliveryInv
<1>12. QED
  BY Zenon, <1>8, <1>9, <1>10, <1>11 DEF DeliveryInv

\* A sent record is the next frame, or silence: the head of what is pending.
LEMMA OutcomeDelivers ==
  ASSUME DeliveryInv, MirrorInv', FramesFacts, DriverDrainOutcome \/ DriverSelectOutcome
  PROVE  DeliveryInv'
<1> USE DEF srcVars, loopVars, queueVars, boundVars, cmdVars, pumpVars, envVars,
            pcVars, rtpVars, histVars, DriverOnly, OutcomeOnly
<1>0. MirrorInv /\ TypeOK /\ ControlPoints
  BY Zenon DEF DeliveryInv, MirrorInv
<1>1. dpc \in {"drain", "select"} /\ Attached /\ ret # "cleanup" /\ Running
  BY Zenon, <1>0 DEF DriverDrainOutcome, DriverSelectOutcome, Attached, ControlPoints, Running
<1>2. /\ Live \in Sender /\ Live.sent \in Seq(Packet) /\ Live.cmd \in Seq(Packet)
      /\ Live.queue \in Seq(Packet) /\ Live.drops = <<>>
      /\ pending \in Seq(Packet) /\ boundary = <<>> /\ InSender(Live) = pending
  BY ZenonT(60), <1>0, <1>1, AttachedFacts
<1>3. AccountSent /\ OutcomeOnly
  BY Zenon, <1>2 DEF DriverDrainOutcome, DriverSelectOutcome, AccountDropped
<1>4. Live.sent # <<>>
  BY Zenon, <1>3 DEF AccountSent
<1>5. pending # <<>> /\ Head(pending) = Head(Live.sent)
  <2> DEFINE a == Live.sent
             b == Live.cmd
             c == Live.queue
  <2>1. pending = (a \o b) \o c
    BY Zenon, <1>2 DEF InSender
  <2>2. a \in Seq(Packet) /\ b \in Seq(Packet) /\ c \in Seq(Packet) /\ a # <<>>
    BY Zenon, <1>2, <1>4
  <2> HIDE DEF a, b, c
  <2>3. (a \o b) \o c # <<>> /\ Head((a \o b) \o c) = Head(a)
    BY SMTT(60), <2>2, HeadLeaves
  <2>4. QED
    BY Zenon, <2>1, <2>3 DEF a
<1> DEFINE h == Head(pending)
           r == [Live EXCEPT !.sent = Tail(Live.sent)]
           F == FramesOf(pending)
           b == BeforePending
<1>6. /\ senders' = [senders EXCEPT ![live] = r] /\ pending' = Tail(pending)
      /\ mq' = IF h.frame # NoFrame /\ mq < MetricsCap THEN mq + 1 ELSE mq
      /\ dpc' \in {dpc, "top"}
      /\ UNCHANGED <<ret, why, egress, source, ppc, discarded, wire, generation, produced,
                     prepared, position, boundary, refill, srcError, faults>>
  <2>1. /\ senders' = [senders EXCEPT ![live].sent = Tail(@)] /\ pending' = Tail(pending)
        /\ mq' = IF h.frame # NoFrame /\ mq < MetricsCap THEN mq + 1 ELSE mq
        /\ dpc' \in {dpc, "top"}
        /\ UNCHANGED <<ret, why, egress, source, ppc, discarded>>
    BY Zenon, <1>3, <1>5 DEF AccountSent, MatchesSent, CommittedIsTrack
  <2>2. senders' = [senders EXCEPT ![live] = r]
    BY Zenon, <2>1 DEF Live
  <2>3. UNCHANGED <<wire, generation, produced, prepared, position, boundary, refill, srcError,
                    faults>>
    BY Zenon, <1>3
  <2>4. QED
    BY Zenon, <2>1, <2>2, <2>3
<1>7. /\ Tail(Live.sent) \in Seq(Packet) /\ Tail(pending) \in Seq(Packet)
      /\ \A i \in DOMAIN Tail(Live.sent) : \E j \in DOMAIN Live.sent : Tail(Live.sent)[i] = Live.sent[j]
      /\ \A i \in DOMAIN Tail(pending) : \E j \in DOMAIN pending : Tail(pending)[i] = pending[j]
      /\ Len(Tail(pending)) = Len(pending) - 1 /\ Len(pending) \in Nat
      /\ Head(Live.sent) = Live.sent[1] /\ 1 \in DOMAIN Live.sent /\ Head(Live.sent) \in Packet
  <2>1. /\ \A i \in DOMAIN Tail(Live.sent) : i + 1 \in DOMAIN Live.sent
                                             /\ Tail(Live.sent)[i] = Live.sent[i + 1]
        /\ Tail(Live.sent) \in Seq(Packet) /\ Head(Live.sent) = Live.sent[1]
        /\ 1 \in DOMAIN Live.sent /\ Head(Live.sent) \in Packet
    BY SMTT(60), <1>2, <1>4, TailShape
  <2>2. /\ \A i \in DOMAIN Tail(pending) : i + 1 \in DOMAIN pending
                                           /\ Tail(pending)[i] = pending[i + 1]
        /\ Tail(pending) \in Seq(Packet) /\ Len(Tail(pending)) = Len(pending) - 1
        /\ Len(pending) \in Nat
    BY SMTT(60), <1>2, <1>5, TailShape
  <2>3. QED
    BY Zenon, <2>1, <2>2
<1>8. /\ r \in Sender /\ r.sent = Tail(Live.sent) /\ r.pc = Live.pc /\ r.cmd = Live.cmd
      /\ r.retired = Live.retired
  BY Zenon, <1>2, <1>7 DEF Sender
<1>9. 1..h.frame \subseteq wire
  <2>1. live \in 1..live
    BY Zenon, <1>0, LiveIsSender DEF TypeOK
  <2>2. InTurn(Live, generation, wire)
    BY Zenon, <2>1 DEF DeliveryInv, SendersInTurn, Live
  <2>3. QED
    BY Zenon, <2>2, <1>5, <1>7 DEF InTurn
<1>10. /\ F \in Seq(Frames) /\ Len(F) \in Nat /\ b \in Int /\ position \in Nat /\ mq \in Nat
       /\ BeforePrepared \in Int /\ Len(prepared) \in Nat /\ Len(egress) \in Nat
  BY Zenon, <1>0, PipelineTypes
<1>11. /\ Follows(F, b) /\ position + mq <= b /\ 1..b \subseteq wire
       /\ b = BeforePrepared - Len(F)
  BY Zenon, <1>1 DEF DeliveryInv, PipelineInOrder, BeforePending
<1>12. /\ h.frame = NoFrame => FramesOf(pending') = F
       /\ h.frame # NoFrame =>
             /\ F # <<>> /\ Head(F) = h.frame /\ FramesOf(pending') = Tail(F)
  BY Zenon, <1>2, <1>5, <1>6, FramesOfTail
<1>13. BeforePrepared' = BeforePrepared /\ BeforeEgress' = BeforeEgress /\ BeforeSource' = BeforeSource
  BY Zenon, <1>6 DEF BeforePrepared, BeforeEgress, BeforeSource
<1>14. BeforePending' = BeforePrepared - Len(FramesOf(pending'))
  BY Zenon, <1>13 DEF BeforePending
<1> HIDE DEF r, F, b
<1>15. /\ Follows(FramesOf(pending'), BeforePending')
       /\ position' + mq' <= BeforePending' /\ 1..BeforePending' \subseteq wire
       /\ BeforePending' \in Int /\ position' + mq' \in Int
       /\ Len(FramesOf(pending')) \in {Len(F), Len(F) - 1}
       /\ Len(pending') - Len(FramesOf(pending')) <= Len(pending) - Len(F)
  <2>1. CASE h.frame = NoFrame
    <3>1. FramesOf(pending') = F /\ BeforePending' = b
      BY Zenon, <2>1, <1>11, <1>12, <1>14
    <3>2. mq' = mq /\ position' = position
      BY ZenonT(60), <2>1, <1>6
    <3>3. QED
      BY SMTT(60), <3>1, <3>2, <1>6, <1>7, <1>10, <1>11
  <2>2. CASE h.frame # NoFrame
    <3>1. F # <<>> /\ Head(F) = h.frame /\ FramesOf(pending') = Tail(F)
      BY Zenon, <2>2, <1>12
    <3>2. Head(F) = b + 1 /\ Follows(Tail(F), b + 1) /\ Len(Tail(F)) = Len(F) - 1
      BY ZenonT(60), <3>1, <1>10, <1>11, FollowsTail
    <3>3. BeforePending' = b + 1
      BY SMTT(60), <3>1, <3>2, <1>10, <1>11, <1>14
    <3>4. mq' \in {mq, mq + 1} /\ position' = position
      BY Zenon, <1>6
    <3>5. Follows(FramesOf(pending'), BeforePending') /\ 1..BeforePending' \subseteq wire
          /\ Len(FramesOf(pending')) = Len(F) - 1
      BY ZenonT(60), <3>1, <3>2, <3>3, <1>9
    <3>6. QED
      BY SMTT(60), <3>3, <3>4, <3>5, <1>6, <1>7, <1>10, <1>11
  <2>3. QED
    BY ZenonT(60), <2>1, <2>2
<1>16. PipelineInOrder'
  <2>1. Follows(source', BeforeSource') /\ Follows(egress', BeforeEgress')
        /\ TracksFollow(prepared', BeforePrepared') /\ wire' = wire
    BY ZenonT(60), <1>1, <1>6, <1>13 DEF DeliveryInv, PipelineInOrder
  <2>2. QED
    BY Zenon, <2>1, <1>15 DEF PipelineInOrder, Follows, TracksFollow
<1>17. EgressBounded'
  <2>1. /\ Len(egress) <= EgressTarget /\ Len(F) + Len(prepared) + Len(egress) <= EgressTarget
        /\ Len(pending) - Len(F) <= UnderrunAhead
        /\ \A i \in DOMAIN pending :
               pending[i].kind = "ScheduledSilence" <=> pending[i].frame = NoFrame
    BY ZenonT(60), <1>1 DEF DeliveryInv, EgressBounded, F
  <2>2. Len(FramesOf(pending')) + Len(prepared) + Len(egress) <= EgressTarget
    BY SMTT(60), <2>1, <1>10, <1>15, ConstantTypes
  <2>3. Len(pending') - Len(FramesOf(pending')) <= UnderrunAhead
    <3> DEFINE x == Len(FramesOf(pending'))
    <3>1. x \in {Len(F), Len(F) - 1} /\ Len(pending') - x <= Len(pending) - Len(F)
          /\ Len(pending') \in Int
      BY SMTT(60), <1>6, <1>7, <1>15
    <3> HIDE DEF x
    <3>2. Len(pending') - x <= UnderrunAhead
      BY SMTT(60), <3>1, <2>1, <1>7, <1>10, ConstantTypes
    <3>3. QED
      BY ZenonT(60), <3>2 DEF x
  <2>4. \A i \in DOMAIN pending' :
            pending'[i].kind = "ScheduledSilence" <=> pending'[i].frame = NoFrame
    BY ZenonT(60), <2>1, <1>6, <1>7
  <2>5. egress' = egress /\ prepared' = prepared
    BY Zenon, <1>6
  <2>6. QED
    BY ZenonT(60), <2>1, <2>2, <2>3, <2>4, <2>5 DEF EgressBounded
<1>18. RefillFits'
  BY Zenon, <1>6 DEF DeliveryInv, RefillFits
<1>19. 1..(position' + mq') \subseteq wire
  BY SMTT(60), <1>15
<1>20. dpc' \notin {"exited", "cleanup", "returned", "rebase"}
  BY Zenon, <1>1, <1>6
<1>21. \A i \in DOMAIN boundary' : boundary'[i].frame = NoFrame
  BY Zenon, <1>6 DEF DeliveryInv
<1>22. \A i \in DOMAIN r.sent : \E j \in DOMAIN Live.sent : r.sent[i] = Live.sent[j]
  BY ZenonT(60), <1>7, <1>8
<1>23. UNCHANGED <<generation, wire>>
  BY Zenon, <1>6
<1>24. QED
  BY ZenonT(60), <1>1, <1>6, <1>8, <1>16, <1>17, <1>18, <1>19, <1>20, <1>21, <1>22, <1>23,
     LiveStepDelivers

=============================================================================
