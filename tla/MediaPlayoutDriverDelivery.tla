--------------------- MODULE MediaPlayoutDriverDelivery ---------------------
(***************************************************************************)
(* Proofs about MediaPlayout: DeliveryInv is preserved when the driver     *)
(* fills its sender's queue, when it invalidates a generation, takes back  *)
(* what was not sent and replaces the sender, and by the boundary and the  *)
(* cleanup; and the initial states satisfy it.                             *)
(***************************************************************************)
EXTENDS MediaPlayoutDelivery

-----------------------------------------------------------------------------
(* Filling the sender's queue.                                             *)

\* Prepared tracks, and the ones prepared after them.
LEMMA TracksConcat ==
  ASSUME NEW s \in Seq(Packet), NEW t \in Seq(Packet), NEW a \in Int,
         TracksFollow(s, a), TracksFollow(t, a + Len(s))
  PROVE  TracksFollow(s \o t, a)
<1>1. /\ Len(s) \in Nat /\ Len(t) \in Nat /\ DOMAIN s = 1..Len(s) /\ DOMAIN t = 1..Len(t)
      /\ s \o t \in Seq(Packet) /\ DOMAIN (s \o t) = 1..(Len(s) + Len(t))
      /\ \A i \in 1..(Len(s) + Len(t)) : (s \o t)[i] = IF i <= Len(s) THEN s[i] ELSE t[i - Len(s)]
  BY SMTT(60), ConcatShape
<1>2. SUFFICES ASSUME NEW i \in 1..(Len(s) + Len(t))
               PROVE  (s \o t)[i].kind = "Track" /\ (s \o t)[i].frame = a + i
  BY Zenon, <1>1 DEF TracksFollow
<1>3. CASE i <= Len(s)
  <2>1. (s \o t)[i] = s[i] /\ i \in DOMAIN s
    BY SMTT(60), <1>1, <1>2, <1>3
  <2>2. QED
    BY Zenon, <2>1 DEF TracksFollow
<1>4. CASE ~(i <= Len(s))
  <2>1. (s \o t)[i] = t[i - Len(s)] /\ i - Len(s) \in DOMAIN t
    BY SMTT(60), <1>1, <1>2, <1>4
  <2>2. t[i - Len(s)].kind = "Track" /\ t[i - Len(s)].frame = a + Len(s) + (i - Len(s))
    BY Zenon, <2>1 DEF TracksFollow
  <2>3. a + Len(s) + (i - Len(s)) = a + i
    BY SMTT(60), <1>1, <1>2
  <2>4. QED
    BY Zenon, <2>1, <2>2, <2>3
<1>5. QED
  BY Zenon, <1>3, <1>4

\* The tracks handed over, and the ones kept back.
LEMMA TracksSplit ==
  ASSUME NEW s \in Seq(Packet), NEW a \in Int, NEW n \in 0..Len(s), TracksFollow(s, a)
  PROVE  TracksFollow(FirstN(s, n), a) /\ TracksFollow(AfterN(s, n), a + n)
<1>1. Len(s) \in Nat /\ n \in Nat /\ n <= Len(s) /\ DOMAIN s = 1..Len(s)
  BY SeqShape
<1>2. /\ DOMAIN AfterN(s, n) = 1..(Len(s) - n)
      /\ \A i \in 1..(Len(s) - n) : AfterN(s, n)[i] = s[n + i]
  BY Zenon, AfterNAt
<1>3. DOMAIN FirstN(s, n) = 1..n /\ \A i \in 1..n : FirstN(s, n)[i] = s[i]
  BY Zenon, FirstNAt
<1>4. \A i \in 1..n : i \in DOMAIN s
  BY <1>1
<1>5. ASSUME NEW i \in 1..(Len(s) - n)
      PROVE  AfterN(s, n)[i].kind = "Track" /\ AfterN(s, n)[i].frame = a + n + i
  <2>1. n + i \in DOMAIN s /\ a + (n + i) = a + n + i
    BY <1>1
  <2>2. QED
    BY Zenon, <2>1, <1>2 DEF TracksFollow
<1>6. QED
  BY Zenon, <1>2, <1>3, <1>4, <1>5 DEF TracksFollow

\* The frames of tracks.
LEMMA TracksFrames ==
  ASSUME FramesFacts, NEW s \in Seq(Packet), NEW a \in Nat, TracksFollow(s, a)
  PROVE  /\ FramesOf(s) \in Seq(Frames) /\ Len(FramesOf(s)) = Len(s) /\ Follows(FramesOf(s), a)
         /\ \A i \in DOMAIN s : s[i].frame # NoFrame
<1>1. \A i \in DOMAIN s : s[i].frame # NoFrame
  <2>1. TAKE i \in DOMAIN s
  <2>2. i \in Nat \ {0} /\ s[i].frame = a + i
    BY SMTT(60) DEF TracksFollow
  <2>3. QED
    BY SMTT(60), <2>2 DEF NoFrame
<1>2. Len(FramesOf(s)) = Len(s) /\ \A i \in DOMAIN s : FramesOf(s)[i] = s[i].frame
  BY Zenon, <1>1 DEF FramesFacts, FramesTracks
<1>3. FramesOf(s) \in Seq(Frames)
  BY Zenon DEF FramesFacts, FramesTyped
<1>4. DOMAIN FramesOf(s) = DOMAIN s
  <2>1. DOMAIN FramesOf(s) = 1..Len(FramesOf(s)) /\ DOMAIN s = 1..Len(s)
    BY Zenon, <1>3, SeqShape
  <2>2. QED
    BY Zenon, <2>1, <1>2
<1>5. QED
  BY Zenon, <1>1, <1>2, <1>3, <1>4 DEF Follows, TracksFollow

\* The scheduled silences carry no frame.
LEMMA SilencesHaveNoFrame ==
  ASSUME FramesFacts, NEW k \in Nat, NEW c \in Nat, generation \in Nat
  PROVE  /\ Silences(k, c) \in Seq(Packet) /\ Len(Silences(k, c)) = k
         /\ FramesOf(Silences(k, c)) = <<>>
         /\ \A i \in DOMAIN Silences(k, c) : Silences(k, c)[i].kind = "ScheduledSilence"
                                             /\ Silences(k, c)[i].frame = NoFrame
<1>1. Silences(k, c) \in Seq(Packet) /\ Len(Silences(k, c)) = k
  BY Zenon, SilencesType, CurrentElements
<1>2. \A i \in DOMAIN Silences(k, c) : Silences(k, c)[i].kind = "ScheduledSilence"
                                       /\ Silences(k, c)[i].frame = NoFrame
  BY Zenon DEF Silences, NewPacket
<1>3. FramesOf(Silences(k, c)) = <<>>
  BY Zenon, <1>1, <1>2 DEF FramesFacts, FramesSilent
<1>4. QED
  BY Zenon, <1>1, <1>2, <1>3

\* No more silence is scheduled than may be ahead.
LEMMA SilencesDueAhead ==
  ASSUME FramesFacts, TypeOK, NEW commands \in Seq(Packet), NEW queued \in 0..CommandCap,
         \A i \in DOMAIN commands :
             commands[i].kind = "ScheduledSilence" <=> commands[i].frame = NoFrame,
         Len(commands) - Len(FramesOf(commands)) <= UnderrunAhead
  PROVE  Len(commands) - Len(FramesOf(commands)) + SilencesDue(commands, queued) <= UnderrunAhead
<1> DEFINE c == Cardinality({i \in DOMAIN commands : commands[i].kind = "ScheduledSilence"})
           d == Len(commands) - Len(FramesOf(commands))
<1>1. c = d
  BY Zenon DEF FramesFacts, SilencesCounted
<1>2. d \in Int
  <2>1. FramesOf(commands) \in Seq(Frames)
    BY Zenon DEF FramesFacts, FramesTyped
  <2>2. Len(commands) \in Nat /\ Len(FramesOf(commands)) \in Nat
    BY Zenon, <2>1, SeqShape
  <2>3. QED
    BY <2>2
<1>3. SilencesDue(commands, queued)
        = Least(Most(UnderrunAhead - c, 0), Least(CommandCap - queued, MaxSilence - silenced))
  BY Zenon DEF SilencesDue
<1>4. silenced \in 0..MaxSilence /\ d <= UnderrunAhead
  BY Zenon DEF TypeOK
<1> HIDE DEF c, d
<1>5. d + SilencesDue(commands, queued) <= UnderrunAhead
  BY SMTT(60), <1>1, <1>2, <1>3, <1>4, ConstantTypes DEF Least, Most
<1>6. QED
  BY Zenon, <1>5 DEF d

\* Elements of a concatenation come from either side.
LEMMA ConcatFrom ==
  ASSUME NEW s \in Seq(Packet), NEW t \in Seq(Packet)
  PROVE  \A i \in DOMAIN (s \o t) : \/ \E j \in DOMAIN s : (s \o t)[i] = s[j]
                                    \/ \E j \in DOMAIN t : (s \o t)[i] = t[j]
<1>1. TAKE i \in DOMAIN (s \o t)
<1>2. /\ Len(s) \in Nat /\ Len(t) \in Nat /\ DOMAIN s = 1..Len(s) /\ DOMAIN t = 1..Len(t)
      /\ DOMAIN (s \o t) = 1..(Len(s) + Len(t))
      /\ \A j \in 1..(Len(s) + Len(t)) : (s \o t)[j] = IF j <= Len(s) THEN s[j] ELSE t[j - Len(s)]
  BY SMTT(60), ConcatShape
<1>3. CASE i <= Len(s)
  <2>1. i \in DOMAIN s /\ (s \o t)[i] = s[i]
    BY SMTT(60), <1>1, <1>2, <1>3
  <2>2. QED
    BY Zenon, <2>1
<1>4. CASE ~(i <= Len(s))
  <2>1. i - Len(s) \in DOMAIN t /\ (s \o t)[i] = t[i - Len(s)]
    BY SMTT(60), <1>1, <1>2, <1>4
  <2>2. QED
    BY Zenon, <2>1
<1>5. QED
  BY Zenon, <1>3, <1>4

\* Commands go behind the queued ones: the sender's records stay.
LEMMA EnqueueDelivers ==
  ASSUME DeliveryInv, MirrorInv', FramesFacts, Attached, ret # "cleanup", dpc # "boundWait",
         NEW batch \in Seq(Packet), senders' = [senders EXCEPT ![live].queue = @ \o batch],
         UNCHANGED <<generation, wire, position, mq, boundary>>,
         dpc' \notin {"exited", "cleanup", "returned", "rebase"},
         PipelineInOrder', EgressBounded', RefillFits'
  PROVE  DeliveryInv'
<1>1. MirrorInv
  BY Zenon DEF DeliveryInv
<1>2. Live \in Sender /\ Live.queue \in Seq(Packet) /\ Live.sent \in Seq(Packet)
  BY Zenon, <1>1, AttachedFacts
<1> DEFINE q == Live.queue \o batch
           r == [Live EXCEPT !.queue = q]
<1>3. q \in Seq(Packet)
  BY Zenon, <1>2, ConcatShape
<1>4. senders' = [senders EXCEPT ![live] = r]
  BY Zenon DEF Live
<1> HIDE DEF q
<1>5. /\ r \in Sender /\ r.pc = Live.pc /\ r.cmd = Live.cmd
      /\ r.sent = Live.sent /\ r.retired = Live.retired
  BY Zenon, <1>2, <1>3 DEF Sender
<1> HIDE DEF r
<1>6. \A i \in DOMAIN r.sent : \E j \in DOMAIN Live.sent : r.sent[i] = Live.sent[j]
  BY Zenon, <1>5
<1>7. 1..(position' + mq') \subseteq wire
  BY Zenon DEF DeliveryInv
<1>8. \A i \in DOMAIN boundary' : boundary'[i].frame = NoFrame
  BY Zenon DEF DeliveryInv
<1>9. UNCHANGED <<generation, wire>>
  OBVIOUS
<1>10. QED
  BY Zenon, <1>4, <1>5, <1>6, <1>7, <1>8, <1>9, LiveStepDelivers

\* fill_prepared_playout_queue takes the next frames, restored ones first, and
\* no more of them than the egress target allows.
LEMMA FillDelivers ==
  ASSUME DeliveryInv, MirrorInv', FramesFacts, CountsTyped, DriverFill
  PROVE  DeliveryInv'
<1> DEFINE room == Room
           pool == Pool
           n == Least(room, Len(pool))
           popped == Most(n - Len(egress), 0)
           polled == ~sourceEnded /\ Len(egress) < room
           ended == sourceEnded \/ (eos /\ n < room)
           starved == underrun /\ popped = 0
           tracks == [i \in 1..n |->
                        NewPacket("Track", pool[i], Advance(reserved, i - 1), generation)]
           ready == prepared \o tracks
           m == Least(Len(ready), CommandCap - Len(Live.queue))
           pumped == FirstN(ready, m)
           k == IF starved /\ ~ended
                THEN SilencesDue(pending \o pumped, Len(Live.queue) + m) ELSE 0
           silence == Silences(k, Advance(reserved, n))
           batch == pumped \o silence
           closed == Live.pc = "exited" /\ batch # <<>>
           F == FramesOf(pending)
           E == Len(egress)
           S == Len(source)
           P == Len(prepared)
<1>1. /\ dpc = "fill"
      /\ egress' = AfterN(egress, Least(n, Len(egress)))
      /\ source' = AfterN(source, popped)
      /\ ppc' = IF polled THEN Notified(ppc) ELSE ppc
      /\ prepared' = AfterN(ready, m)
      /\ IF closed
         THEN Exit("error")
         ELSE /\ dpc' = IF settled THEN "top" ELSE "check2"
              /\ pending' = pending \o batch
              /\ senders' = [senders EXCEPT ![live].queue = @ \o batch]
  BY ZenonT(60) DEF DriverFill
<1>2. UNCHANGED <<produced, refill, position, wire, srcError, boundary, generation, mq,
                  discarded, faults>>
  BY Zenon DEF DriverFill, DriverOnlyBut, boundVars, histVars
<1>3. MirrorInv /\ TypeOK /\ SourceFits /\ ControlPoints /\ RefillFits
  BY Zenon DEF DeliveryInv, MirrorInv
<1>4. Attached /\ ret # "cleanup" /\ Running
  BY ZenonT(60), <1>1, <1>3 DEF Attached, ControlPoints, Running
<1>5. /\ Live.queue \in Seq(Packet) /\ Len(Live.queue) <= CommandCap /\ Len(Live.queue) \in Nat
      /\ generation \in Nat /\ reserved \in Nat
  <2>1. Live.queue \in Seq(Packet) /\ Len(Live.queue) <= CommandCap
    BY ZenonT(60), <1>1, <1>3, <1>4, AttachedFacts
  <2>2. QED
    BY SMTT(60), <2>1, <1>3 DEF TypeOK
<1>6. /\ source \in Seq(Frames) /\ egress \in Seq(Frames) /\ F \in Seq(Frames)
      /\ prepared \in Seq(Packet) /\ pending \in Seq(Packet)
      /\ S \in Nat /\ E \in Nat /\ P \in Nat /\ Len(F) \in Nat /\ Len(pending) \in Nat
      /\ produced \in Nat /\ position \in Nat /\ mq \in Nat
      /\ BeforeSource \in Int /\ BeforeEgress \in Int
      /\ BeforePrepared \in Int /\ BeforePending \in Int
  BY Zenon, <1>3, PipelineTypes
<1>7. /\ Follows(source, BeforeSource) /\ Follows(egress, BeforeEgress)
      /\ TracksFollow(prepared, BeforePrepared) /\ Follows(F, BeforePending)
      /\ position + mq <= BeforePending /\ 1..BeforePending \subseteq wire
  BY Zenon, <1>4 DEF DeliveryInv, PipelineInOrder
<1>8. /\ E <= EgressTarget /\ Len(F) + P + E <= EgressTarget
      /\ Len(pending) - Len(F) <= UnderrunAhead
      /\ \A i \in DOMAIN pending :
             pending[i].kind = "ScheduledSilence" <=> pending[i].frame = NoFrame
  BY Zenon, <1>4 DEF DeliveryInv, EgressBounded
<1>9. /\ BeforeSource = produced - S /\ BeforeEgress = BeforeSource - E
      /\ BeforePrepared = BeforeEgress - P /\ BeforePending = BeforePrepared - Len(F)
  BY Zenon DEF BeforeSource, BeforeEgress, BeforePrepared, BeforePending
<1>10. room = EgressTarget - Len(F) - P /\ room \in Nat /\ E <= room
  <2>1. room = Most(EgressTarget - Len(F) - P, 0)
    BY Zenon DEF Room
  <2> HIDE DEF room, F, P, E
  <2>2. QED
    BY SMTT(60), <2>1, <1>6, <1>8, ConstantTypes DEF Most
<1>11. /\ pool \in Seq(Frames) /\ Len(pool) \in Nat /\ Follows(pool, BeforeEgress)
       /\ Len(pool) = IF sourceEnded THEN E ELSE E + S
  <2>1. CASE sourceEnded
    <3>1. pool = egress
      BY Zenon, <2>1 DEF Pool
    <3>2. QED
      BY Zenon, <3>1, <2>1, <1>6, <1>7
  <2>2. CASE ~sourceEnded
    <3>1. pool = egress \o source
      BY Zenon, <2>2 DEF Pool
    <3>2. BeforeSource = BeforeEgress + E
      <4> HIDE DEF E
      <4>1. QED
        BY SMTT(60), <1>6, <1>9
    <3>3. Follows(source, BeforeEgress + Len(egress))
      BY Zenon, <3>2, <1>7
    <3>4. /\ Follows(egress \o source, BeforeEgress) /\ egress \o source \in Seq(Frames)
          /\ Len(egress \o source) = Len(egress) + Len(source)
      BY Zenon, <3>3, <1>6, <1>7, FollowsConcat
    <3>5. E + S \in Nat
      BY <1>6
    <3>6. QED
      BY Zenon, <3>1, <3>4, <3>5, <2>2
  <2>3. QED
    BY Zenon, <2>1, <2>2
<1> HIDE DEF room, pool
<1>12. /\ n \in 0..Len(pool) /\ n \in Nat /\ n >= E /\ n <= room /\ n - E <= S
       /\ Least(n, E) = E /\ popped = n - E /\ popped \in 0..S
  <2> DEFINE L == Len(pool)
  <2>1. L \in Nat /\ L = (IF sourceEnded THEN E ELSE E + S) /\ n = Least(room, L)
        /\ popped = Most(n - E, 0)
    BY Zenon, <1>11
  <2> HIDE DEF L, E, S, n, popped
  <2>2. n \in 0..L /\ n \in Nat /\ n >= E /\ n <= room /\ n - E <= S
    BY SMTT(60), <2>1, <1>6, <1>10 DEF Least
  <2>3. Least(n, E) = E /\ popped = n - E /\ popped \in 0..S
    BY SMTT(60), <2>1, <2>2, <1>6 DEF Least, Most
  <2>4. QED
    BY Zenon, <2>2, <2>3 DEF L
<1>13. /\ tracks \in Seq(Packet) /\ Len(tracks) = n
       /\ TracksFollow(tracks, BeforeEgress)
  <2>1. tracks \in Seq(CurrentPackets)
    BY Zenon, <1>5, <1>11, <1>12, TracksType
  <2>2. tracks \in Seq(Packet)
    BY Zenon, <2>1, CurrentElements
  <2> HIDE DEF n
  <2>3. DOMAIN tracks = 1..n /\ Len(tracks) = n
    BY SMTT(60), <2>2, <1>12
  <2>4. ASSUME NEW i \in 1..n
        PROVE  tracks[i].kind = "Track" /\ tracks[i].frame = BeforeEgress + i
    <3>1. tracks[i] = NewPacket("Track", pool[i], Advance(reserved, i - 1), generation)
      BY Zenon
    <3>2. i \in DOMAIN pool
      BY SMTT(60), <1>11, <1>12
    <3>3. pool[i] = BeforeEgress + i
      BY Zenon, <3>2, <1>11 DEF Follows
    <3>4. QED
      BY Zenon, <3>1, <3>3 DEF NewPacket
  <2>5. QED
    BY Zenon, <2>2, <2>3, <2>4 DEF TracksFollow
<1> HIDE DEF tracks
<1>14. /\ ready \in Seq(Packet) /\ Len(ready) = P + n /\ Len(ready) \in Nat
       /\ TracksFollow(ready, BeforePrepared)
  <2>1. BeforeEgress = BeforePrepared + P
    <3> HIDE DEF P
    <3>1. QED
      BY SMTT(60), <1>6, <1>9
  <2>2. TracksFollow(tracks, BeforePrepared + Len(prepared))
    BY Zenon, <2>1, <1>13
  <2>3. TracksFollow(ready, BeforePrepared)
    BY Zenon, <2>2, <1>6, <1>7, <1>13, TracksConcat
  <2>4. ready \in Seq(Packet) /\ Len(ready) = P + n
    BY Zenon, <1>6, <1>13, ConcatShape
  <2>5. QED
    BY Zenon, <2>3, <2>4, SeqShape
<1> HIDE DEF ready
<1>15. m \in 0..Len(ready) /\ Len(Live.queue) + m \in 0..CommandCap /\ m \in Nat /\ m <= P + n
  <2> DEFINE x == Len(ready)
             y == Len(Live.queue)
  <2>1. x \in Nat /\ y \in Nat /\ y <= CommandCap /\ m = Least(x, CommandCap - y) /\ x = P + n
    BY Zenon, <1>5, <1>14
  <2>2. SUFFICES m \in 0..x /\ y + m \in 0..CommandCap /\ m \in Nat /\ m <= x
    BY Zenon, <2>1
  <2> HIDE DEF x, y, m
  <2>3. CommandCap \in Nat
    BY Zenon, ConstantTypes
  <2>4. QED
    BY SMTT(60), <2>1, <2>3 DEF Least
<1> HIDE DEF m
<1>16. /\ pumped \in Seq(Packet) /\ Len(pumped) = m /\ TracksFollow(pumped, BeforePrepared)
       /\ AfterN(ready, m) \in Seq(Packet) /\ Len(AfterN(ready, m)) = Len(ready) - m
       /\ TracksFollow(AfterN(ready, m), BeforePrepared + m)
  BY Zenon, <1>6, <1>14, <1>15, FirstNType, AfterNType, TracksSplit
<1> HIDE DEF pumped
<1>17. BeforePrepared \in Nat
  <2> HIDE DEF F
  <2>1. QED
    BY SMTT(60), <1>6, <1>7, <1>9
<1>18. /\ FramesOf(pumped) \in Seq(Frames) /\ Len(FramesOf(pumped)) = m
       /\ Follows(FramesOf(pumped), BeforePrepared)
       /\ \A i \in DOMAIN pumped : pumped[i].frame # NoFrame /\ pumped[i].kind = "Track"
  <2>1. \A i \in DOMAIN pumped : pumped[i].kind = "Track"
    BY Zenon, <1>16 DEF TracksFollow
  <2>2. QED
    BY Zenon, <2>1, <1>16, <1>17, TracksFrames
<1> DEFINE G == FramesOf(pumped)
           behind == pending \o pumped
<1>19. /\ behind \in Seq(Packet) /\ Len(behind) = Len(pending) + m
       /\ FramesOf(behind) = F \o G /\ F \o G \in Seq(Frames) /\ Len(F \o G) = Len(F) + m
       /\ Follows(F \o G, BeforePending)
       /\ \A i \in DOMAIN behind :
              behind[i].kind = "ScheduledSilence" <=> behind[i].frame = NoFrame
  <2>1. behind \in Seq(Packet) /\ Len(behind) = Len(pending) + m
    BY Zenon, <1>6, <1>16, ConcatShape
  <2>2. FramesOf(behind) = F \o G
    BY Zenon, <1>6, <1>16 DEF FramesFacts, FramesConcat
  <2>3. BeforePrepared = BeforePending + Len(F)
    <3> HIDE DEF F
    <3>1. QED
      BY SMTT(60), <1>6, <1>9
  <2>4. Follows(G, BeforePending + Len(F))
    BY Zenon, <2>3, <1>18
  <2>5. /\ Follows(F \o G, BeforePending) /\ F \o G \in Seq(Frames)
        /\ Len(F \o G) = Len(F) + Len(G)
    <3>1. G \in Seq(Frames) /\ F \in Seq(Frames) /\ BeforePending \in Int
      BY Zenon, <1>6, <1>18
    <3> HIDE DEF F, G
    <3>2. QED
      BY Zenon, <3>1, <2>4, <1>7, FollowsConcat
  <2>6. \A i \in DOMAIN pumped : pumped[i].kind = "ScheduledSilence" <=> pumped[i].frame = NoFrame
    BY Zenon, <1>18
  <2>7. \A i \in DOMAIN behind :
            behind[i].kind = "ScheduledSilence" <=> behind[i].frame = NoFrame
    <3>1. \A i \in DOMAIN behind : \/ \E j \in DOMAIN pending : behind[i] = pending[j]
                                   \/ \E j \in DOMAIN pumped : behind[i] = pumped[j]
      BY Zenon, <1>6, <1>16, ConcatFrom
    <3> HIDE DEF behind
    <3>2. TAKE i \in DOMAIN behind
    <3>3. CASE \E j \in DOMAIN pending : behind[i] = pending[j]
      BY Zenon, <3>3, <1>8
    <3>4. CASE \E j \in DOMAIN pumped : behind[i] = pumped[j]
      BY Zenon, <3>4, <2>6
    <3>5. QED
      BY Zenon, <3>1, <3>3, <3>4
  <2>8. QED
    BY Zenon, <2>1, <2>2, <2>5, <2>7, <1>18
<1>20. k \in Nat /\ Len(pending) - Len(F) + k <= UnderrunAhead
  <2> DEFINE due == SilencesDue(behind, Len(Live.queue) + m)
             x == Len(pending) - Len(F)
  <2>1. due \in 0..(CommandCap - (Len(Live.queue) + m))
    BY Zenon, <1>3, <1>15, <1>19, SilencesDueBound
  <2>2. Len(behind) - Len(FramesOf(behind)) = x
    <3>1. Len(behind) = Len(pending) + m /\ Len(FramesOf(behind)) = Len(F) + m
      BY Zenon, <1>19
    <3> HIDE DEF F, behind
    <3>2. QED
      BY SMTT(60), <3>1, <1>6, <1>15
  <2>3. x <= UnderrunAhead /\ x \in Int
    <3>1. x \in Int
      <4> HIDE DEF F
      <4>1. QED
        BY SMTT(60), <1>6
    <3>2. QED
      BY Zenon, <3>1, <1>8
  <2>4. x + due <= UnderrunAhead
    <3>1. Len(behind) - Len(FramesOf(behind)) <= UnderrunAhead
      BY Zenon, <2>2, <2>3
    <3>2. Len(behind) - Len(FramesOf(behind)) + due <= UnderrunAhead
      BY Zenon, <3>1, <1>3, <1>15, <1>19, SilencesDueAhead
    <3>3. QED
      BY Zenon, <3>2, <2>2
  <2>5. k = due \/ k = 0
    BY Zenon
  <2> HIDE DEF due, k, x
  <2>6. due \in Nat
    BY SMTT(60), <2>1, <1>15, ConstantTypes
  <2>7. k \in Nat /\ x + k <= UnderrunAhead
    BY SMTT(60), <2>3, <2>4, <2>5, <2>6
  <2>8. QED
    BY Zenon, <2>7 DEF x
<1> HIDE DEF k
<1>21. /\ silence \in Seq(Packet) /\ Len(silence) = k /\ FramesOf(silence) = <<>>
       /\ \A i \in DOMAIN silence : silence[i].kind = "ScheduledSilence"
                                    /\ silence[i].frame = NoFrame
  <2>1. Advance(reserved, n) \in Nat
    BY Zenon, <1>5, <1>12, AdvanceNat
  <2>2. QED
    BY Zenon, <2>1, <1>5, <1>20, SilencesHaveNoFrame
<1> HIDE DEF silence
<1>22. ppc' = "fill" => ppc = "fill"
  BY Zenon, <1>1 DEF Notified
<1>23. /\ source' \in Seq(Frames) /\ Len(source') = S - (n - E)
       /\ Follows(source', BeforeSource + (n - E))
  <2>1. source' = AfterN(source, n - E) /\ n - E \in 0..S
    BY Zenon, <1>1, <1>12
  <2>2. QED
    BY Zenon, <2>1, <1>6, <1>7, AfterNType, FollowsAfter
<1>24. egress' \in Seq(Frames) /\ Len(egress') = 0 /\ DOMAIN egress' = {}
  <2>1. egress' = AfterN(egress, E) /\ E \in 0..E
    <3>1. egress' = AfterN(egress, E)
      BY Zenon, <1>1, <1>12
    <3>2. QED
      BY SMTT(60), <3>1, <1>6
  <2>2. egress' \in Seq(Frames) /\ Len(egress') = E - E
    BY Zenon, <2>1, <1>6, AfterNType
  <2>3. Len(egress') = 0
    <3> HIDE DEF E
    <3>1. QED
      BY SMTT(60), <2>2, <1>6
  <2>4. QED
    BY SMTT(60), <2>2, <2>3
<1> HIDE DEF n, popped, polled, E, S, P, F
<1>25. RefillFits'
  <2>1. refill \in Nat /\ refill' = refill /\ S = Len(source)
    BY Zenon, <1>2, <1>3 DEF TypeOK, S
  <2>2. ppc = "fill" => S + refill <= SourceTarget
    BY Zenon, <2>1, <1>3 DEF RefillFits
  <2>3. ppc' = "fill" => Len(source') + refill' <= SourceTarget
    BY SMTT(60), <2>1, <2>2, <1>6, <1>12, <1>22, <1>23, ConstantTypes
  <2>4. QED
    BY Zenon, <2>3, <1>2, <1>3 DEF RefillFits
<1>26. CASE closed
  <2>1. /\ senders' = [senders EXCEPT ![live] = Retired(@)] /\ dpc' = "exited"
    BY Zenon, <1>1, <1>26 DEF Exit
  <2>2. /\ UNCHANGED <<generation, wire, discarded, position, mq>>
        /\ Len(egress') <= EgressTarget /\ dpc' \in {"exited", "returned"}
    BY SMTT(60), <2>1, <1>2, <1>24, ConstantTypes
  <2>3. /\ ppc' = "fill" => Len(source') + refill' <= SourceTarget
        /\ srcError' => faults' > 0
    BY Zenon, <1>25 DEF RefillFits
  <2>4. \A i \in DOMAIN boundary' : boundary'[i].frame = NoFrame
    BY Zenon, <1>2 DEF DeliveryInv
  <2>5. QED
    BY Zenon, <2>1, <2>2, <2>3, <2>4, <1>4, GivingUpDelivers
<1>27. CASE ~closed
  <2>1. /\ dpc' \in {"top", "check2"} /\ pending' = pending \o batch
        /\ senders' = [senders EXCEPT ![live].queue = @ \o batch]
    BY ZenonT(60), <1>1, <1>27
  <2>2. /\ batch \in Seq(Packet) /\ pending' \in Seq(Packet) /\ pending' = behind \o silence
        /\ Len(pending') = Len(pending) + m + k
    <3>1. batch \in Seq(Packet)
      BY Zenon, <1>16, <1>21, ConcatShape
    <3>2. pending \o (pumped \o silence) = (pending \o pumped) \o silence
      BY ZenonT(60), <1>6, <1>16, <1>21, PacketsAssociate
    <3>3. behind \o silence \in Seq(Packet) /\ Len(behind \o silence) = Len(behind) + Len(silence)
      BY Zenon, <1>19, <1>21, ConcatShape
    <3>4. QED
      BY ZenonT(60), <3>1, <3>2, <3>3, <2>1, <1>19, <1>21
  <2>3. FramesOf(pending') = F \o G
    <3>1. FramesOf(behind \o silence) = FramesOf(behind) \o FramesOf(silence)
      BY Zenon, <1>19, <1>21 DEF FramesFacts, FramesConcat
    <3>2. FramesOf(pending') = (F \o G) \o <<>>
      BY Zenon, <3>1, <2>2, <1>19, <1>21
    <3>3. (F \o G) \o <<>> = F \o G
      BY Zenon, <1>19, ConcatNothing
    <3>4. QED
      BY Zenon, <3>2, <3>3
  <2> HIDE DEF batch, behind, G, closed
  <2>4. prepared' \in Seq(Packet) /\ Len(prepared') = P + n - m
        /\ TracksFollow(prepared', BeforePrepared + m)
    <3>1. prepared' = AfterN(ready, m)
      BY Zenon, <1>1
    <3>2. TracksFollow(prepared', BeforePrepared + m)
      BY Zenon, <3>1, <1>16
    <3>3. Len(prepared') = Len(ready) - m /\ prepared' \in Seq(Packet)
      BY Zenon, <3>1, <1>16
    <3>4. Len(prepared') = P + n - m
      BY SMTT(60), <3>3, <1>6, <1>12, <1>14, <1>15
    <3>5. QED
      BY Zenon, <3>2, <3>3, <3>4
  <2>5. Len(FramesOf(pending')) = Len(F) + m
    BY Zenon, <2>3, <1>19
  <2>6. /\ BeforeSource' = BeforeSource + (n - E) /\ BeforePrepared' = BeforePrepared + m
        /\ BeforePending' = BeforePending
    <3>1. /\ BeforeSource' = produced - Len(source') /\ BeforeEgress' = BeforeSource' - Len(egress')
          /\ BeforePrepared' = BeforeEgress' - Len(prepared')
          /\ BeforePending' = BeforePrepared' - Len(FramesOf(pending'))
      BY Zenon, <1>2 DEF BeforeSource, BeforeEgress, BeforePrepared, BeforePending
    <3>2. BeforeSource' = BeforeSource + (n - E)
      BY SMTT(60), <3>1, <1>6, <1>9, <1>12, <1>23
    <3>3. BeforePrepared' = BeforePrepared + m
      <4> DEFINE x == Len(prepared')
                 y == Len(egress')
      <4>1. /\ BeforeEgress' = BeforeSource' - y /\ BeforePrepared' = BeforeEgress' - x
            /\ y = 0 /\ x = P + n - m
        BY Zenon, <3>1, <2>4, <1>24
      <4> HIDE DEF x, y
      <4>2. BeforeEgress' = BeforeSource + (n - E)
        BY SMTT(60), <4>1, <3>2, <1>6, <1>12
      <4>3. QED
        BY SMTT(60), <4>1, <4>2, <1>6, <1>9, <1>12, <1>15
    <3>4. BeforePending' = BeforePending
      <4> DEFINE x == Len(FramesOf(pending'))
                 y == Len(F)
                 before == BeforePrepared
      <4>1. /\ BeforePending' = (before + m) - x /\ x = y + m /\ BeforePending = before - y
            /\ before \in Int /\ y \in Nat /\ m \in Nat
        BY Zenon, <3>1, <3>3, <2>5, <1>6, <1>9, <1>15
      <4> HIDE DEF x, y, before, m
      <4>2. QED
        BY SMTT(60), <4>1
    <3>5. QED
      BY Zenon, <3>2, <3>3, <3>4
  <2>7. PipelineInOrder'
    <3>1. Follows(source', BeforeSource') /\ TracksFollow(prepared', BeforePrepared')
          /\ Follows(FramesOf(pending'), BeforePending')
      BY Zenon, <2>3, <2>4, <2>6, <1>19, <1>23
    <3>2. Follows(egress', BeforeEgress')
      BY Zenon, <1>24 DEF Follows
    <3>3. position' + mq' <= BeforePending' /\ 1..BeforePending' \subseteq wire'
      BY Zenon, <2>6, <1>2, <1>7
    <3>4. QED
      BY Zenon, <3>1, <3>2, <3>3 DEF PipelineInOrder, Follows, TracksFollow
  <2>8. EgressBounded'
    <3>1. Len(egress') <= EgressTarget
      BY SMTT(60), <1>24, ConstantTypes
    <3>2. Len(FramesOf(pending')) + Len(prepared') + Len(egress') <= EgressTarget
      BY SMTT(60), <2>4, <2>5, <1>6, <1>10, <1>12, <1>15, <1>24, ConstantTypes
    <3>3. Len(pending') - Len(FramesOf(pending')) <= UnderrunAhead
      BY SMTT(60), <2>2, <2>5, <1>6, <1>15, <1>20, ConstantTypes
    <3>4. \A i \in DOMAIN pending' :
              pending'[i].kind = "ScheduledSilence" <=> pending'[i].frame = NoFrame
      <4>1. \A i \in DOMAIN (behind \o silence) :
                \/ \E j \in DOMAIN behind : (behind \o silence)[i] = behind[j]
                \/ \E j \in DOMAIN silence : (behind \o silence)[i] = silence[j]
        BY Zenon, <1>19, <1>21, ConcatFrom DEF behind
      <4>2. \A i \in DOMAIN behind :
                behind[i].kind = "ScheduledSilence" <=> behind[i].frame = NoFrame
        BY Zenon, <1>19
      <4>3. \A i \in DOMAIN silence :
                silence[i].kind = "ScheduledSilence" <=> silence[i].frame = NoFrame
        BY Zenon, <1>21
      <4> DEFINE all == behind \o silence
      <4> HIDE DEF all
      <4>4. ASSUME NEW i \in DOMAIN all
            PROVE  all[i].kind = "ScheduledSilence" <=> all[i].frame = NoFrame
        <5>1. CASE \E j \in DOMAIN behind : all[i] = behind[j]
          BY Zenon, <5>1, <4>2
        <5>2. CASE \E j \in DOMAIN silence : all[i] = silence[j]
          BY Zenon, <5>2, <4>3
        <5>3. QED
          BY Zenon, <5>1, <5>2, <4>1 DEF all
      <4>5. pending' = all
        BY Zenon, <2>2 DEF all
      <4>6. QED
        BY Zenon, <4>4, <4>5
    <3>5. QED
      BY Zenon, <3>1, <3>2, <3>3, <3>4 DEF EgressBounded
  <2>9. dpc' \notin {"exited", "cleanup", "returned", "rebase"} /\ dpc # "boundWait"
    BY Zenon, <2>1, <1>1
  <2>10. UNCHANGED <<generation, wire, position, mq, boundary>>
    BY Zenon, <1>2
  <2>11. QED
    BY ZenonT(60), <2>1, <2>2, <2>7, <2>8, <2>9, <2>10, <1>4, <1>25, EnqueueDelivers
<1>28. QED
  BY Zenon, <1>26, <1>27

\* After the second drain_commands: silence only.
LEMMA CommandsDone2Delivers ==
  ASSUME DeliveryInv, MirrorInv', FramesFacts, CountsTyped, DriverCommandsDone2
  PROVE  DeliveryInv'
<1> DEFINE k == SilencesDue(<<>>, Len(Live.queue))
           batch == Silences(k, reserved)
<1>1. UNCHANGED <<produced, refill, position, wire, source, srcError, ppc, egress, prepared,
                  boundary, generation, mq, discarded, faults>>
  BY Zenon DEF DriverCommandsDone2, DriverOnlyBut, boundVars, histVars
<1>2. MirrorInv /\ TypeOK /\ ControlPoints /\ dpc = "cmd2"
  BY Zenon DEF DeliveryInv, MirrorInv, DriverCommandsDone2
<1>3. Attached /\ ret # "cleanup" /\ Running
  BY Zenon, <1>2 DEF Attached, ControlPoints, Running
<1>4. /\ RefillFits' /\ Len(egress') <= EgressTarget
      /\ ppc' = "fill" => Len(source') + refill' <= SourceTarget
      /\ srcError' => faults' > 0
      /\ \A i \in DOMAIN boundary' : boundary'[i].frame = NoFrame
  BY Zenon, <1>1 DEF DeliveryInv, RefillFits, EgressBounded
<1>5. \/ /\ dpc' \in {"invalidate", "select"} /\ UNCHANGED <<pending, senders, ret>>
      \/ Exit("natural") \/ Exit("error")
      \/ /\ pending = <<>> /\ dpc' \in {"select", "top"} /\ pending' = batch /\ ret' = ret
         /\ senders' = [senders EXCEPT ![live].queue = @ \o batch]
  BY Zenon DEF DriverCommandsDone2
<1>6. CASE dpc' \in {"invalidate", "select"} /\ UNCHANGED <<pending, senders, ret>>
  <2>1. (Running' => Running) /\ (Running' => Attached')
        /\ (dpc' \in {"exited", "cleanup", "returned"} <=> dpc \in {"exited", "cleanup", "returned"})
    BY Zenon, <1>2, <1>3, <1>6 DEF Running, Attached
  <2>2. position' + mq' = position + mq
    BY Zenon, <1>1
  <2>3. QED
    BY Zenon, <2>1, <2>2, <1>1, <1>4, <1>6, MovesDeliver
<1>7. CASE Exit("natural") \/ Exit("error")
  <2>1. senders' = [senders EXCEPT ![live] = Retired(@)] /\ dpc' \in {"exited", "returned"}
    BY Zenon, <1>7 DEF Exit
  <2>2. UNCHANGED <<generation, wire, discarded, position, mq>>
    BY Zenon, <1>1
  <2>3. QED
    BY Zenon, <2>1, <2>2, <1>3, <1>4, GivingUpDelivers
<1>8. CASE /\ pending = <<>> /\ dpc' \in {"select", "top"} /\ pending' = batch /\ ret' = ret
           /\ senders' = [senders EXCEPT ![live].queue = @ \o batch]
  <2>1. <<>> \in Seq(Packet) /\ DOMAIN <<>> = {} /\ Len(<<>>) = 0
    OBVIOUS
  <2>2. FramesOf(pending) = <<>>
    <3>1. \A i \in DOMAIN pending : pending[i].frame = NoFrame
      BY SMTT(60), <1>8
    <3>2. QED
      BY Zenon, <3>1, <2>1, <1>8 DEF FramesFacts, FramesSilent
  <2>3. Len(Live.queue) \in 0..CommandCap
    <3>1. Live.queue \in Seq(Packet) /\ Len(Live.queue) <= CommandCap
      BY Zenon, <1>2, <1>3, AttachedFacts
    <3>2. QED
      BY SMTT(60), <3>1, ConstantTypes
  <2>4. k \in Nat /\ k <= UnderrunAhead
    <3>1. k \in 0..(CommandCap - Len(Live.queue))
      BY Zenon, <2>1, <2>3, <1>2, SilencesDueBound
    <3>2. Len(<<>>) - Len(FramesOf(<<>>)) = 0
      BY SMTT(60), <2>1, <2>2, <1>8
    <3>3. /\ Len(<<>>) - Len(FramesOf(<<>>)) <= UnderrunAhead
          /\ \A i \in DOMAIN <<>> :
                 <<>>[i].kind = "ScheduledSilence" <=> <<>>[i].frame = NoFrame
      BY SMTT(60), <3>2, <2>1, ConstantTypes
    <3>4. Len(<<>>) - Len(FramesOf(<<>>)) + k <= UnderrunAhead
      BY Zenon, <3>3, <2>1, <2>3, <1>2, SilencesDueAhead
    <3> DEFINE z == Len(<<>>) - Len(FramesOf(<<>>))
    <3>5. z = 0 /\ z + k <= UnderrunAhead
      BY Zenon, <3>2, <3>4
    <3> HIDE DEF k, z
    <3>6. QED
      BY SMTT(60), <3>1, <3>5, <2>3, ConstantTypes
  <2> HIDE DEF k
  <2>5. /\ batch \in Seq(Packet) /\ Len(batch) = k /\ FramesOf(batch) = <<>>
        /\ \A i \in DOMAIN batch : batch[i].kind = "ScheduledSilence" /\ batch[i].frame = NoFrame
    <3>1. generation \in Nat /\ reserved \in Nat
      BY Zenon, <1>2 DEF TypeOK
    <3>2. QED
      BY Zenon, <3>1, <2>4, SilencesHaveNoFrame
  <2> HIDE DEF batch
  <2>6. FramesOf(pending') = FramesOf(pending) /\ Len(FramesOf(pending')) = 0
    BY Zenon, <2>1, <2>2, <2>5, <1>8
  <2>7. PipelineInOrder'
    <3>1. /\ BeforeSource' = BeforeSource /\ BeforeEgress' = BeforeEgress
          /\ BeforePrepared' = BeforePrepared /\ BeforePending' = BeforePending
      BY Zenon, <2>6, <1>1 DEF BeforeSource, BeforeEgress, BeforePrepared, BeforePending
    <3>2. PipelineInOrder
      BY Zenon DEF DeliveryInv
    <3>3. /\ Follows(source', BeforeSource') /\ Follows(egress', BeforeEgress')
          /\ TracksFollow(prepared', BeforePrepared')
          /\ Follows(FramesOf(pending'), BeforePending')
          /\ position' + mq' <= BeforePending' /\ 1..BeforePending' \subseteq wire'
      BY Zenon, <3>1, <3>2, <2>6, <1>1, <1>3 DEF PipelineInOrder
    <3>4. QED
      BY Zenon, <3>3 DEF PipelineInOrder, Follows, TracksFollow
  <2>8. EgressBounded'
    <3>1. Len(prepared) \in Nat /\ Len(egress) \in Nat
      BY Zenon, <1>2, PipelineTypes
    <3>2. Len(FramesOf(pending)) + Len(prepared) + Len(egress) <= EgressTarget
      BY Zenon, <1>3 DEF DeliveryInv, EgressBounded
    <3>3. Len(FramesOf(pending')) + Len(prepared') + Len(egress') <= EgressTarget
      BY Zenon, <3>2, <2>6, <1>1
    <3>4. Len(pending') - Len(FramesOf(pending')) <= UnderrunAhead
      BY SMTT(60), <2>4, <2>5, <2>6, <1>8, ConstantTypes
    <3>5. \A i \in DOMAIN pending' :
              pending'[i].kind = "ScheduledSilence" <=> pending'[i].frame = NoFrame
      BY Zenon, <2>5, <1>8
    <3>6. QED
      BY Zenon, <3>3, <3>4, <3>5, <1>4 DEF EgressBounded
  <2>9. dpc' \notin {"exited", "cleanup", "returned", "rebase"} /\ dpc # "boundWait"
    BY Zenon, <1>2, <1>8
  <2>10. UNCHANGED <<generation, wire, position, mq, boundary>>
    BY Zenon, <1>1
  <2>11. QED
    BY ZenonT(60), <2>5, <2>7, <2>8, <2>9, <2>10, <1>3, <1>4, <1>8, EnqueueDelivers
<1>9. QED
  BY Zenon, <1>5, <1>6, <1>7, <1>8

-----------------------------------------------------------------------------
(* The interruptions and the boundary.                                     *)

\* invalidate_prepared_playout_generation: every queued command becomes stale.
LEMMA InvalidateDelivers ==
  ASSUME DeliveryInv, MirrorInv', FramesFacts, DriverInvalidate
  PROVE  DeliveryInv'
<1>1. /\ dpc = "invalidate" /\ dpc' = "rebase" /\ generation' = generation + 1
      /\ UNCHANGED <<source, srcError, ppc, egress, prepared, pending, boundary, senders,
                     mq, discarded, faults, ret, why, produced, refill, position, wire>>
  BY Zenon DEF DriverInvalidate, DriverOnly, loopVars, queueVars, boundVars, histVars
<1>2. MirrorInv /\ TypeOK /\ ControlPoints /\ SendersInTurn /\ GivenUpOnExit
  BY Zenon DEF DeliveryInv, MirrorInv
<1>3. senders \in Seq(Sender) /\ generation \in Nat /\ live \in Nat
  BY SMTT(60), <1>2 DEF TypeOK, live
<1>4. live' = live /\ Live' = Live
  BY Zenon, <1>1 DEF live, Live
<1>5. (Running' <=> Running) /\ Attached /\ ret # "cleanup" /\ dpc # "rebase" /\ dpc # "boundWait"
  BY Zenon, <1>1, <1>2 DEF Running, Attached, ControlPoints
<1>6. PipelineInOrder'
  BY Zenon, <1>1, <1>5 DEF DeliveryInv, PipelineInOrder, BeforeSource, BeforeEgress,
     BeforePrepared, BeforePending
<1>7. EgressBounded' /\ RefillFits'
  BY Zenon, <1>1, <1>5 DEF DeliveryInv, EgressBounded, RefillFits
<1>8. SendersInTurn'
  <2>1. ASSUME NEW s \in 1..live
        PROVE  InTurn(senders[s], generation + 1, wire) /\ (s < live => senders[s].retired)
    <3>1. senders[s] \in Sender
      BY <1>3 DEF live
    <3>2. InTurn(senders[s], generation, wire) /\ (s < live => senders[s].retired)
      BY Zenon, <1>2 DEF SendersInTurn
    <3>3. QED
      BY Zenon, <3>1, <3>2, <1>3, TurnInvalidated
  <2>2. \A s \in 1..live' : /\ InTurn(senders'[s], generation', wire')
                            /\ s < live' => senders'[s].retired
    BY Zenon, <2>1, <1>1, <1>4
  <2>3. QED
    BY Zenon, <2>2 DEF SendersInTurn
<1>9. StaleWhileRebasing'
  <2>1. /\ Live \in Sender /\ Live.queue \in Seq(Packet) /\ Live.own = FALSE
        /\ InSender(Live) = pending /\ pending \in Seq(Packet)
    BY Zenon, <1>2, <1>5, AttachedFacts
  <2>2. \A i \in DOMAIN Live.queue : Live.queue[i].gen = generation
    BY Zenon, <2>1, <1>2, <1>5 DEF MirrorInv, ActiveGenerations, ActiveGeneration
  <2>3. \A i \in DOMAIN Live.queue : Live.queue[i].gen < generation + 1
    BY SMTT(60), <2>2, <1>3
  <2>4. Len(InSender(Live)) <= Len(pending)
    <3>1. Len(pending) \in Nat
      BY <2>1
    <3>2. Len(pending) <= Len(pending)
      BY SMTT(60), <3>1
    <3>3. QED
      BY Zenon, <3>2, <2>1
  <2>5. /\ ~Live'.own /\ \A i \in DOMAIN Live'.queue : Live'.queue[i].gen < generation'
        /\ Len(InSender(Live')) <= Len(pending')
    BY Zenon, <2>1, <2>3, <2>4, <1>1, <1>4
  <2>6. QED
    BY Zenon, <2>5 DEF StaleWhileRebasing, InSender
<1>10. GivenUpOnExit'
  BY Zenon, <1>1, <1>2, <1>4 DEF GivenUpOnExit
<1>11. /\ \A i \in DOMAIN boundary' : boundary'[i].frame = NoFrame
       /\ 1..(position' + mq') \subseteq wire'
       /\ \A f \in wire' : 1..f \subseteq wire'
  BY Zenon, <1>1 DEF DeliveryInv
<1>12. QED
  BY ZenonT(60), <1>6, <1>7, <1>8, <1>9, <1>10, <1>11 DEF DeliveryInv

\* The boundary is given up, or was the last thing to do.
LEMMA BoundaryEndDelivers ==
  ASSUME DeliveryInv, MirrorInv', FramesFacts, dpc \in {"bound", "boundWait"},
         senders' = [senders EXCEPT ![live] = Retired(@)], dpc' \in {"exited", "returned"},
         UNCHANGED <<generation, wire, discarded, position, mq, egress, source, ppc, refill,
                     srcError, faults>>,
         boundary' \in {boundary, <<>>}
  PROVE  DeliveryInv'
<1>1. Attached
  BY Zenon DEF Attached
<1>2. \A i \in DOMAIN boundary' : boundary'[i].frame = NoFrame
  <2>1. \A i \in DOMAIN <<>> : <<>>[i].frame = NoFrame
    BY SMTT(60)
  <2>2. \A i \in DOMAIN boundary : boundary[i].frame = NoFrame
    BY Zenon DEF DeliveryInv
  <2>3. CASE boundary' = boundary
    BY Zenon, <2>2, <2>3
  <2>4. CASE boundary' = <<>>
    BY Zenon, <2>1, <2>4
  <2>5. QED
    BY Zenon, <2>3, <2>4
<1>3. QED
  BY Zenon, <1>1, <1>2, GivingUpDelivers DEF DeliveryInv, EgressBounded, RefillFits

\* The driver exchanges a boundary silence with its sender.
LEMMA BoundarySenderDelivers ==
  ASSUME DeliveryInv, MirrorInv', FramesFacts, dpc \in {"bound", "boundWait"},
         NEW r \in Sender, senders' = [senders EXCEPT ![live] = r],
         r.pc = Live.pc, r.cmd = Live.cmd, r.retired = Live.retired,
         \A i \in DOMAIN r.sent : \E j \in DOMAIN Live.sent : r.sent[i] = Live.sent[j],
         dpc' \in {"bound", "boundWait"}, ret' = ret,
         UNCHANGED <<generation, wire, source, produced, egress, prepared, pending, discarded,
                     position, mq, ppc, refill, srcError, faults>>,
         \A i \in DOMAIN boundary' : boundary'[i].frame = NoFrame
  PROVE  DeliveryInv'
<1>1. Attached /\ (Running' <=> Running)
  BY Zenon DEF Attached, Running
<1>2. PipelineInOrder'
  BY Zenon, <1>1 DEF DeliveryInv, PipelineInOrder, BeforeSource, BeforeEgress,
     BeforePrepared, BeforePending
<1>3. EgressBounded' /\ RefillFits'
  BY Zenon, <1>1 DEF DeliveryInv, EgressBounded, RefillFits
<1>4. 1..(position' + mq') \subseteq wire /\ generation' = generation /\ wire' = wire
  BY Zenon DEF DeliveryInv
<1>5. dpc' \notin {"exited", "cleanup", "returned", "rebase"}
  BY Zenon
<1>6. QED
  BY Zenon, <1>1, <1>2, <1>3, <1>4, <1>5, LiveStepDelivers

\* One more boundary silence, or the end of the boundary.
LEMMA BoundaryStepDelivers ==
  ASSUME DeliveryInv, MirrorInv', FramesFacts, BoundaryStep
  PROVE  DeliveryInv'
<1>1. /\ dpc = "bound"
      /\ UNCHANGED <<source, srcError, ppc, egress, prepared, pending, generation, mq,
                     discarded, faults, produced, refill, position, wire>>
  BY Zenon DEF BoundaryStep, DriverOnly, queueVars, histVars
<1>2. MirrorInv /\ TypeOK /\ ControlPoints
  BY Zenon DEF DeliveryInv, MirrorInv
<1>3. boundary = <<>> /\ ret # "rebuild" /\ Attached
  BY Zenon, <1>1, <1>2 DEF ControlPoints, Attached
<1>4. CASE BoundaryComplete /\ ret = "cleanup"
  <2>1. /\ dpc' = "returned" /\ senders' = [senders EXCEPT ![live] = Retired(@)]
        /\ boundary' = boundary
    BY Zenon, <1>4 DEF BoundaryStep
  <2>2. QED
    BY Zenon, <2>1, <1>1, BoundaryEndDelivers
<1>5. CASE BoundaryComplete /\ ret # "cleanup"
  <2>1. dpc' = ret /\ UNCHANGED <<senders, ret, boundary>>
    BY Zenon, <1>5 DEF BoundaryStep
  <2>2. dpc' \in {"cmd1", "cmd2", "top", "paused"}
    BY Zenon, <2>1, <1>2, <1>3, <1>5 DEF TypeOK
  <2>3. /\ (Running' => Running) /\ Attached'
        /\ dpc' \in {"exited", "cleanup", "returned"} <=> dpc \in {"exited", "cleanup", "returned"}
    BY Zenon, <2>1, <2>2, <1>1, <1>5 DEF Running, Attached
  <2>4. position' + mq' = position + mq
    BY Zenon, <1>1
  <2>5. QED
    BY Zenon, <2>1, <2>3, <2>4, <1>1, MovesDeliver DEF DeliveryInv, RefillFits
<1>6. CASE ~BoundaryComplete
  <2> DEFINE packet == NewPacket("BoundarySilence", NoFrame, reserved, ActiveGeneration(Live))
  <2>1. Live \in Sender /\ reserved \in Nat /\ generation \in Nat
    BY Zenon, <1>2, LiveIsSender DEF TypeOK
  <2>2. packet \in Packet /\ packet.frame = NoFrame
    BY Zenon, <2>1 DEF NewPacket, NoFrame, ActiveGeneration, Packet, Kinds
  <2>3. /\ IF Live.pc = "exited"
           THEN BoundaryFails /\ boundary' = boundary
           ELSE /\ senders' = [senders EXCEPT ![live].queue = Append(@, packet)]
                /\ boundary' = <<packet>> /\ dpc' = "boundWait" /\ ret' = ret
    BY Zenon, <1>6 DEF BoundaryStep
  <2> HIDE DEF packet
  <2>4. CASE Live.pc = "exited"
    <3>1. senders' = [senders EXCEPT ![live] = Retired(@)] /\ dpc' \in {"exited", "returned"}
      BY Zenon, <2>3, <2>4 DEF BoundaryFails, Exit
    <3>2. QED
      BY Zenon, <3>1, <2>3, <2>4, <1>1, BoundaryEndDelivers
  <2>5. CASE Live.pc # "exited"
    <3> DEFINE q == Append(Live.queue, packet)
               r == [Live EXCEPT !.queue = q]
    <3>1. q \in Seq(Packet)
      <4>1. Live.queue \in Seq(Packet)
        BY Zenon, <2>1 DEF Sender
      <4>2. QED
        BY Zenon, <4>1, <2>2, AppendShape
    <3>2. senders' = [senders EXCEPT ![live] = r] /\ dpc' = "boundWait" /\ ret' = ret
          /\ boundary' = <<packet>>
      BY Zenon, <2>3, <2>5 DEF Live
    <3> HIDE DEF q
    <3>3. r \in Sender /\ r.pc = Live.pc /\ r.cmd = Live.cmd /\ r.retired = Live.retired
          /\ r.sent = Live.sent
      BY Zenon, <3>1, <2>1 DEF Sender
    <3> HIDE DEF r
    <3>4. \A i \in DOMAIN boundary' : boundary'[i].frame = NoFrame
      BY SMTT(60), <3>2, <2>2
    <3>5. \A i \in DOMAIN r.sent : \E j \in DOMAIN Live.sent : r.sent[i] = Live.sent[j]
      BY Zenon, <3>3
    <3>6. QED
      BY Zenon, <3>2, <3>3, <3>4, <3>5, <1>1, BoundarySenderDelivers
  <2>6. QED
    BY Zenon, <2>4, <2>5
<1>7. QED
  BY Zenon, <1>4, <1>5, <1>6

\* The outcome of a boundary silence.
LEMMA BoundaryOutcomeDelivers ==
  ASSUME DeliveryInv, MirrorInv', FramesFacts, BoundaryOutcome
  PROVE  DeliveryInv'
<1>1. /\ dpc = "boundWait" /\ boundary' = <<>>
      /\ UNCHANGED <<source, srcError, ppc, egress, prepared, pending, generation, mq,
                     discarded, faults, produced, refill, position, wire>>
  BY Zenon DEF BoundaryOutcome, DriverOnly, queueVars, histVars
<1>2. TypeOK
  BY Zenon DEF DeliveryInv, MirrorInv
<1>3. CASE BoundaryFails
  <2>1. senders' = [senders EXCEPT ![live] = Retired(@)] /\ dpc' \in {"exited", "returned"}
    BY Zenon, <1>3 DEF BoundaryFails, Exit
  <2>2. QED
    BY Zenon, <2>1, <1>1, BoundaryEndDelivers
<1>4. CASE /\ Live.sent # <<>> /\ senders' = [senders EXCEPT ![live].sent = Tail(@)]
           /\ dpc' = "bound" /\ ret' = ret
  <2>1. Live \in Sender /\ Live.sent \in Seq(Packet)
    <3>1. Live \in Sender
      BY Zenon, <1>2, LiveIsSender DEF TypeOK
    <3>2. QED
      BY Zenon, <3>1 DEF Sender
  <2> DEFINE a == Live.sent
             t == Tail(Live.sent)
             r == [Live EXCEPT !.sent = t]
  <2>2. t \in Seq(Packet) /\ \A i \in DOMAIN t : \E j \in DOMAIN a : t[i] = a[j]
    <3>1. a \in Seq(Packet) /\ a # <<>> /\ t = Tail(a)
      BY Zenon, <2>1, <1>4
    <3> HIDE DEF a, t
    <3>2. /\ t \in Seq(Packet) /\ DOMAIN t = 1..(Len(a) - 1) /\ DOMAIN a = 1..Len(a)
          /\ Len(a) \in Nat /\ \A i \in 1..(Len(a) - 1) : t[i] = a[i + 1]
      BY SMTT(60), <3>1
    <3>3. \A i \in DOMAIN t : i + 1 \in DOMAIN a /\ t[i] = a[i + 1]
      BY SMTT(60), <3>2
    <3>4. QED
      BY Zenon, <3>2, <3>3
  <2>3. senders' = [senders EXCEPT ![live] = r]
    BY Zenon, <1>4 DEF Live
  <2> HIDE DEF t
  <2>4. /\ r \in Sender /\ r.pc = Live.pc /\ r.cmd = Live.cmd /\ r.retired = Live.retired
        /\ r.sent = t
    BY Zenon, <2>1, <2>2 DEF Sender
  <2> HIDE DEF r
  <2>5. \A i \in DOMAIN r.sent : \E j \in DOMAIN Live.sent : r.sent[i] = Live.sent[j]
    BY Zenon, <2>2, <2>4
  <2>6. \A i \in DOMAIN boundary' : boundary'[i].frame = NoFrame
    BY SMTT(60), <1>1
  <2>7. QED
    BY ZenonT(60), <2>3, <2>4, <2>5, <2>6, <1>1, <1>4, BoundarySenderDelivers
<1>5. QED
  BY ZenonT(60), <1>3, <1>4 DEF BoundaryOutcome

-----------------------------------------------------------------------------
(* New senders, and the initial states.                                    *)

\* A fresh sender, given up or not, has nothing to take its turn.
LEMMA FreshInTurn ==
  ASSUME NEW own \in BOOLEAN, NEW gen, NEW a
  PROVE  /\ InTurn(NewSender(own), gen, a) /\ InTurn(Retired(NewSender(own)), gen, a)
         /\ NewSender(own).retired = FALSE /\ Retired(NewSender(own)).retired = TRUE
<1> DEFINE r == NewSender(own)
           u == Retired(NewSender(own))
<1>1. /\ r.pc = "loop" /\ r.queue = <<>> /\ r.sent = <<>> /\ r.retired = FALSE
      /\ u.pc = "loop" /\ u.queue = <<>> /\ u.sent = <<>> /\ u.retired = TRUE
  BY Zenon DEF NewSender, Retired
<1> HIDE DEF r, u
<1>2. InTurn(r, gen, a) /\ InTurn(u, gen, a)
  BY SMTT(60), <1>1 DEF InTurn
<1>3. QED
  BY Zenon, <1>1, <1>2 DEF r, u

\* A new sender is started behind senders that were all given up.
LEMMA SpawnedInTurn ==
  ASSUME NEW base \in Seq(Sender), NEW r \in Sender, senders' = Append(base, r),
         \A s \in 1..Len(base) : InTurn(base[s], generation, wire) /\ base[s].retired,
         InTurn(r, generation, wire), UNCHANGED <<generation, wire>>
  PROVE  SendersInTurn' /\ Live' = r
<1>1. /\ Len(base) \in Nat /\ Len(senders') = Len(base) + 1
      /\ \A i \in 1..Len(base) : senders'[i] = base[i]
      /\ senders'[Len(base) + 1] = r
  BY SMTT(60), AppendShape
<1>2. live' = Len(base) + 1 /\ Live' = r
  BY Zenon, <1>1 DEF Live, live
<1>3. ASSUME NEW s \in 1..(Len(base) + 1)
      PROVE  InTurn(senders'[s], generation, wire) /\ (s < Len(base) + 1 => senders'[s].retired)
  <2>1. CASE s \in 1..Len(base)
    BY Zenon, <2>1, <1>1
  <2>2. CASE s = Len(base) + 1
    <3>1. ~(s < Len(base) + 1)
      BY SMTT(60), <2>2, <1>1
    <3>2. QED
      BY Zenon, <3>1, <2>2, <1>1
  <2>3. QED
    BY SMTT(60), <2>1, <2>2, <1>1
<1>4. SendersInTurn'
  <2>1. generation' = generation /\ wire' = wire
    OBVIOUS
  <2>2. \A s \in 1..live' : /\ InTurn(senders'[s], generation', wire')
                            /\ s < live' => senders'[s].retired
    BY Zenon, <2>1, <1>2, <1>3
  <2>3. QED
    BY Zenon, <2>2 DEF SendersInTurn
<1>5. QED
  BY Zenon, <1>2, <1>4

\* The cleanup after the driver, with a sender of its own or without.
LEMMA CleanupDelivers ==
  ASSUME DeliveryInv, MirrorInv', FramesFacts, Cleanup
  PROVE  DeliveryInv'
<1>1. /\ dpc = "cleanup"
      /\ UNCHANGED <<source, srcError, ppc, egress, prepared, pending, boundary, generation,
                     mq, discarded, faults, produced, refill, position, wire>>
  BY Zenon DEF Cleanup, DriverOnly, loopVars, queueVars, histVars
<1>2. TypeOK /\ SendersInTurn /\ GivenUpOnExit
  BY Zenon DEF DeliveryInv, MirrorInv
<1>3. CASE senders' = Append(senders, NewSender(TRUE)) /\ dpc' = "bound" /\ ret' = "cleanup"
  <2> DEFINE r == NewSender(TRUE)
  <2>1. r \in Sender /\ InTurn(r, generation, wire) /\ r.retired = FALSE
    <3>1. r \in Sender
      BY Zenon, FreshSender
    <3>2. QED
      BY Zenon, <3>1, FreshInTurn
  <2>2. senders' = Append(senders, r)
    BY Zenon, <1>3
  <2> HIDE DEF r
  <2>3. \A s \in 1..Len(senders) : InTurn(senders[s], generation, wire) /\ senders[s].retired
    <3>1. Live.retired
      BY Zenon, <1>1, <1>2 DEF GivenUpOnExit
    <3>2. TAKE s \in 1..Len(senders)
    <3>3. InTurn(senders[s], generation, wire) /\ (s < live => senders[s].retired)
      BY Zenon, <1>2 DEF SendersInTurn, live
    <3>4. s < live \/ s = live
      BY SMTT(60), <1>2 DEF live, TypeOK
    <3>5. QED
      BY Zenon, <3>1, <3>3, <3>4 DEF Live
  <2>4. SendersInTurn' /\ Live' = r
    <3>1. senders \in Seq(Sender)
      BY Zenon, <1>2 DEF TypeOK
    <3>2. UNCHANGED <<generation, wire>>
      BY Zenon, <1>1
    <3>3. QED
      BY Zenon, <3>1, <3>2, <2>1, <2>2, <2>3, SpawnedInTurn
  <2>5. ~Running' /\ Attached'
    BY Zenon, <1>3 DEF Running, Attached
  <2>6. PipelineInOrder' /\ EgressBounded' /\ RefillFits' /\ StaleWhileRebasing'
    BY ZenonT(60), <2>5, <1>1 DEF DeliveryInv, PipelineInOrder, EgressBounded, RefillFits,
       StaleWhileRebasing
  <2>7. GivenUpOnExit'
    <3>1. ~Live'.retired
      BY Zenon, <2>1, <2>4
    <3>2. QED
      BY Zenon, <3>1, <1>3 DEF GivenUpOnExit
  <2>8. QED
    BY Zenon, <2>4, <2>6, <2>7, <1>1 DEF DeliveryInv
<1>4. CASE dpc' = "returned" /\ UNCHANGED <<senders, ret>>
  <2>1. /\ ~Running'
        /\ dpc' \in {"exited", "cleanup", "returned"} <=> dpc \in {"exited", "cleanup", "returned"}
    BY Zenon, <1>1, <1>4 DEF Running
  <2>2. position' + mq' = position + mq
    BY Zenon, <1>1
  <2>3. QED
    BY ZenonT(60), <2>1, <2>2, <1>1, <1>4, MovesDeliver DEF DeliveryInv, RefillFits
<1>5. QED
  BY ZenonT(60), <1>3, <1>4 DEF Cleanup

\* The playback starts with its first frames in the source, and nothing else.
LEMMA InitDelivers ==
  ASSUME Init, MirrorInv, FramesFacts
  PROVE  DeliveryInv
<1> DEFINE n == Least(NFrames, SourceTarget)
           r == NewSender(FALSE)
<1>1. n \in Nat /\ NFrames \in Nat
  BY Zenon, ConstantTypes DEF Least
<1>2. /\ source = [i \in 1..n |-> i] /\ produced = n /\ srcError = FALSE /\ ppc = "check"
      /\ dpc = "top" /\ ret = "cmd1" /\ egress = <<>> /\ prepared = <<>> /\ pending = <<>>
      /\ boundary = <<>> /\ generation = 0 /\ senders = <<r>> /\ mq = 0 /\ position = 0
      /\ discarded = 0 /\ wire = {}
  BY Zenon DEF Init
<1>3. FramesOf(pending) = <<>>
  <2>1. <<>> \in Seq(Packet) /\ DOMAIN <<>> = {}
    BY SMTT(60)
  <2>2. FramesOf(<<>>) = <<>>
    BY Zenon, <2>1 DEF FramesFacts, FramesSilent
  <2>3. QED
    BY Zenon, <2>2, <1>2
<1>4. r \in Sender /\ InTurn(r, generation, wire) /\ r.retired = FALSE
  <2>1. r \in Sender
    BY Zenon, FreshSender
  <2>2. QED
    BY Zenon, <2>1, FreshInTurn
<1> HIDE DEF n, r
<1>5. live = 1 /\ Live = r /\ senders[1] = r
  BY Zenon, <1>2, <1>4 DEF live, Live
<1>6. Len(source) = n /\ DOMAIN source = 1..n
  BY SMTT(60), <1>1, <1>2
<1>7. BeforeSource = 0 /\ BeforeEgress = 0 /\ BeforePrepared = 0 /\ BeforePending = 0
  BY SMTT(60), <1>1, <1>2, <1>3, <1>6 DEF BeforeSource, BeforeEgress, BeforePrepared, BeforePending
<1>8. PipelineInOrder
  BY SMTT(60), <1>1, <1>2, <1>3, <1>6, <1>7 DEF PipelineInOrder, Follows, TracksFollow
<1>9. EgressBounded /\ RefillFits
  BY SMTT(60), <1>2, <1>3, ConstantTypes DEF EgressBounded, RefillFits
<1>10. SendersInTurn
  <2>1. \A s \in 1..live : s = 1 /\ ~(s < live)
    BY SMTT(60), <1>5
  <2>2. QED
    BY Zenon, <2>1, <1>4, <1>5 DEF SendersInTurn
<1>11. StaleWhileRebasing /\ GivenUpOnExit
  <2>1. Attached /\ ~Live.retired
    BY Zenon, <1>2, <1>4, <1>5 DEF Attached
  <2>2. QED
    BY Zenon, <2>1, <1>2 DEF StaleWhileRebasing, GivenUpOnExit
<1>12. QED
  BY SMTT(60), <1>2, <1>8, <1>9, <1>10, <1>11 DEF DeliveryInv

-----------------------------------------------------------------------------
(* The rebase of an interruption.                                          *)

\* The whole of a sequence, and what is left after it.
LEMMA FirstNAll ==
  ASSUME NEW S, NEW s \in Seq(S)
  PROVE  FirstN(s, Len(s)) = s /\ AfterN(s, Len(s)) = <<>>
<1>1. Len(s) \in Nat /\ s = [i \in 1..Len(s) |-> s[i]]
  BY Zenon, SeqShape
<1>2. Len(s) \in 0..Len(s)
  BY SMTT(60), <1>1
<1> DEFINE n == Len(s)
           f == FirstN(s, n)
           t == AfterN(s, n)
<1>3. f \in Seq(S) /\ Len(f) = n /\ t \in Seq(S) /\ Len(t) = n - n
  BY Zenon, <1>2, FirstNType, AfterNType
<1>4. \A i \in 1..n : f[i] = s[i]
  BY Zenon, <1>2, FirstNAt
<1> HIDE DEF n, f, t
<1>5. n \in Nat /\ n = Len(s)
  BY Zenon, <1>1 DEF n
<1>6. f = s
  BY SMTT(60), <1>3, <1>4, <1>5
<1>7. t = <<>>
  <2>1. Len(t) = 0
    BY SMTT(60), <1>3, <1>5
  <2>2. QED
    BY Zenon, <2>1, <1>3, SeqNothing
<1>8. QED
  BY Zenon, <1>6, <1>7 DEF n, f, t

\* What an interruption takes back are the frames after the ones accounted, in
\* order, and they fit in the egress buffer.
LEMMA TakenBack ==
  ASSUME DeliveryInv, FramesFacts, Running
  PROVE  /\ InterruptedFrames \in Seq(Frames) /\ Follows(InterruptedFrames, BeforePending)
         /\ Len(InterruptedFrames) <= EgressTarget
         /\ BeforePending + Len(InterruptedFrames) = BeforeSource
<1> DEFINE p == FramesOf(pending)
           q == FramesOf(prepared)
<1>1. TypeOK /\ PipelineInOrder /\ EgressBounded
  BY Zenon DEF DeliveryInv, MirrorInv
<1>2. /\ p \in Seq(Frames) /\ egress \in Seq(Frames) /\ prepared \in Seq(Packet)
      /\ Len(p) \in Nat /\ Len(egress) \in Nat /\ Len(prepared) \in Nat /\ Len(source) \in Nat
      /\ produced \in Nat /\ position \in Nat /\ mq \in Nat
      /\ BeforePending \in Int /\ BeforePrepared \in Int /\ BeforeEgress \in Int
      /\ BeforeSource \in Int
  BY Zenon, <1>1, PipelineTypes
<1>3. /\ Follows(egress, BeforeEgress) /\ TracksFollow(prepared, BeforePrepared)
      /\ Follows(p, BeforePending) /\ position + mq <= BeforePending
  BY Zenon, <1>1 DEF PipelineInOrder
<1>4. /\ BeforePrepared \in Nat /\ BeforePrepared = BeforePending + Len(p)
      /\ BeforeEgress = BeforePrepared + Len(prepared)
      /\ BeforeSource = BeforeEgress + Len(egress)
  <2> HIDE DEF p
  <2>1. BeforePending = BeforePrepared - Len(p)
    BY Zenon DEF BeforePending, p
  <2>2. BeforePrepared = BeforeEgress - Len(prepared) /\ BeforeEgress = BeforeSource - Len(egress)
    BY Zenon DEF BeforePrepared, BeforeEgress
  <2>3. QED
    BY SMTT(60), <2>1, <2>2, <1>2, <1>3
<1>5. q \in Seq(Frames) /\ Len(q) = Len(prepared) /\ Follows(q, BeforePrepared)
  BY Zenon, <1>2, <1>3, <1>4, TracksFrames
<1>6. Len(p) + Len(prepared) + Len(egress) <= EgressTarget
  BY Zenon, <1>1 DEF EgressBounded
<1> DEFINE b == BeforePending
           e == BeforeEgress
           c == BeforePrepared
           z == BeforeSource
<1>7. InterruptedFrames = (p \o q) \o egress
  BY Zenon DEF InterruptedFrames
<1> HIDE DEF p, q, b, c, e, z
<1>8. Follows(q, b + Len(p)) /\ Follows(p, b) /\ b \in Int
  BY ZenonT(60), <1>2, <1>3, <1>4, <1>5 DEF b, c
<1>9. Follows(p \o q, b) /\ p \o q \in Seq(Frames) /\ Len(p \o q) = Len(p) + Len(q)
  BY ZenonT(60), <1>2, <1>5, <1>8, FollowsConcat
<1>10. b + Len(p \o q) = e
  BY SMTT(60), <1>2, <1>4, <1>5, <1>9 DEF b, c, e
<1>11. Follows(egress, b + Len(p \o q))
  BY Zenon, <1>3, <1>10 DEF e
<1>12. /\ Follows((p \o q) \o egress, b) /\ (p \o q) \o egress \in Seq(Frames)
       /\ Len((p \o q) \o egress) = Len(p \o q) + Len(egress)
  BY ZenonT(60), <1>2, <1>8, <1>9, <1>11, FollowsConcat
<1>13. /\ Len(p \o q) + Len(egress) <= EgressTarget
       /\ b + (Len(p \o q) + Len(egress)) = z
  BY SMTT(60), <1>2, <1>4, <1>5, <1>6, <1>9, <1>10, ConstantTypes DEF b, c, e, z
<1>14. QED
  BY Zenon, <1>7, <1>12, <1>13 DEF b, z

\* The interruption's second step: everything not accounted returns to the
\* egress buffer, none to the source, and the old sender has only stale commands.
LEMMA RebaseDelivers ==
  ASSUME DeliveryInv, MirrorInv', FramesFacts, DriverRebase
  PROVE  DeliveryInv'
<1> DEFINE frames == InterruptedFrames
           kept == Least(Len(frames), EgressHigh)
           over == AfterN(frames, kept)
           fit == Least(Len(over), SourceTarget - Len(source))
           leaving == why = "stale" \/ (why = "stop" /\ ret # "cmd2")
<1>1. /\ dpc = "rebase" /\ why \in {"pause", "stop", "stale", "dave"}
      /\ egress' = FirstN(frames, kept)
      /\ source' = AfterN(over, Len(over) - fit) \o source
      /\ ppc' = IF fit > 0 THEN Notified(ppc) ELSE ppc
      /\ discarded' = discarded + Len(over) - fit
      /\ senders' = Replaced(leaving)
      /\ pending' = <<>> /\ prepared' = <<>>
  BY Zenon DEF DriverRebase
<1>2. /\ leaving => dpc' = "exited"
      /\ ~leaving => dpc' \in {"invalidate", "bound", "fill"} /\ (dpc' = "rebase" => FALSE)
  <2>1. dpc' = CASE leaving -> "exited"
               [] why = "stop" /\ ret = "cmd2" -> "invalidate"
               [] why = "pause" -> "bound"
               [] why = "dave" -> "fill"
    BY Zenon DEF DriverRebase
  <2>2. QED
    BY Zenon, <2>1, <1>1
<1>3. UNCHANGED <<produced, refill, position, wire, srcError, boundary, generation, mq,
                  faults, ret>>
  BY Zenon DEF DriverRebase, DriverOnly, histVars
<1>4. MirrorInv /\ TypeOK /\ SourceFits /\ ControlPoints /\ HoldsItsCommand /\ SendersInTurn
      /\ StaleWhileRebasing
  BY Zenon DEF DeliveryInv, MirrorInv
<1>5. ret # "cleanup" /\ boundary = <<>> /\ Running /\ ~Attached
  BY Zenon, <1>1, <1>4 DEF ControlPoints, Running, Attached
<1>6. /\ frames \in Seq(Frames) /\ Follows(frames, BeforePending)
      /\ Len(frames) <= EgressTarget /\ BeforePending + Len(frames) = BeforeSource
  BY Zenon, <1>5, TakenBack
<1>7. /\ source \in Seq(Frames) /\ Len(source) \in Nat /\ produced \in Nat
      /\ BeforePending \in Int /\ BeforeSource \in Int
      /\ SourceTarget - Len(source) \in Nat /\ discarded = 0
  <2>1. /\ source \in Seq(Frames) /\ Len(source) \in Nat /\ produced \in Nat
        /\ BeforePending \in Int /\ BeforeSource \in Int
    BY Zenon, <1>4, PipelineTypes
  <2>2. SourceTarget - Len(source) \in Nat
    BY SMTT(60), <2>1, <1>4, ConstantTypes DEF SourceFits
  <2>3. discarded = 0
    BY Zenon DEF DeliveryInv, RefillFits
  <2>4. QED
    BY Zenon, <2>1, <2>2, <2>3
<1> HIDE DEF frames
<1>8. kept = Len(frames) /\ Len(frames) \in Nat
  <2>1. Len(frames) \in Nat
    BY SMTT(60), <1>6
  <2>2. QED
    BY SMTT(60), <2>1, <1>6, ConstantTypes, WatermarksOrdered DEF Least
<1> HIDE DEF kept
<1>9. egress' = frames /\ over = <<>>
  BY ZenonT(60), <1>1, <1>6, <1>8, FirstNAll
<1> HIDE DEF over
<1>10. Len(over) = 0 /\ over \in Seq(Frames)
  BY SMTT(60), <1>9
<1>11. fit = 0
  <2> DEFINE x == SourceTarget - Len(source)
  <2>1. x \in Nat
    BY Zenon, <1>7
  <2> HIDE DEF x
  <2>2. Least(Len(over), x) = 0
    BY SMTT(60), <2>1, <1>10 DEF Least
  <2>3. QED
    BY Zenon, <2>2 DEF x
<1> HIDE DEF fit
<1>12. source' = source /\ ppc' = ppc /\ discarded' = 0
  <2>1. Len(over) - fit = 0 /\ Len(over) - fit = Len(over) /\ discarded + Len(over) - fit = 0
    BY SMTT(60), <1>7, <1>10, <1>11
  <2>2. AfterN(over, Len(over)) = <<>>
    BY Zenon, <1>10, FirstNAll
  <2>3. <<>> \o source = source
    BY Zenon, <1>7, ConcatNothing
  <2>4. source' = source /\ discarded' = 0
    BY ZenonT(60), <2>1, <2>2, <2>3, <1>1
  <2>5. ppc' = ppc
    BY SMTT(60), <1>1, <1>11
  <2>6. QED
    BY Zenon, <2>4, <2>5
<1>13. FramesOf(pending') = <<>>
  <2>1. <<>> \in Seq(Packet) /\ DOMAIN <<>> = {}
    BY SMTT(60)
  <2>2. FramesOf(<<>>) = <<>>
    BY Zenon, <2>1 DEF FramesFacts, FramesSilent
  <2>3. QED
    BY Zenon, <2>2, <1>1
\* The pipeline begins where it did, with all of it in the egress buffer.
<1>14. /\ BeforeSource' = BeforeSource /\ BeforeEgress' = BeforePending
       /\ BeforePrepared' = BeforePending /\ BeforePending' = BeforePending
  <2> DEFINE l == Len(FramesOf(pending'))
             b == BeforePending
             z == BeforeSource
  <2>1. BeforeSource' = z
    BY Zenon, <1>3, <1>12 DEF BeforeSource
  <2>2. BeforeEgress' = z - Len(frames)
    BY Zenon, <2>1, <1>9 DEF BeforeEgress
  <2>3. z - Len(frames) = b /\ b - 0 = b
    <3>1. z \in Int /\ b \in Int /\ b + Len(frames) = z
      BY Zenon, <1>6, <1>7
    <3> HIDE DEF z, b
    <3>2. QED
      BY SMTT(60), <3>1, <1>8
  <2>4. Len(prepared') = 0 /\ l = 0
    BY Zenon, <1>1, <1>13
  <2>5. BeforePrepared' = b - 0
    BY Zenon, <2>2, <2>3, <2>4 DEF BeforePrepared
  <2>6. BeforePending' = b - 0
    BY Zenon, <2>3, <2>4, <2>5 DEF BeforePending
  <2>7. QED
    BY ZenonT(60), <2>1, <2>2, <2>3, <2>5, <2>6
<1>15. PipelineInOrder'
  <2>1. PipelineInOrder
    BY Zenon DEF DeliveryInv
  <2>2. /\ Follows(source', BeforeSource') /\ Follows(egress', BeforeEgress')
        /\ position' + mq' <= BeforePending' /\ 1..BeforePending' \subseteq wire'
    BY ZenonT(60), <2>1, <1>3, <1>5, <1>6, <1>9, <1>12, <1>14 DEF PipelineInOrder
  <2>3. DOMAIN prepared' = {} /\ DOMAIN FramesOf(pending') = {}
    BY SMTT(60), <1>1, <1>13
  <2>4. TracksFollow(prepared', BeforePrepared') /\ Follows(FramesOf(pending'), BeforePending')
    BY Zenon, <2>3 DEF TracksFollow, Follows
  <2>5. QED
    BY Zenon, <2>2, <2>4 DEF PipelineInOrder
<1>16. EgressBounded'
  <2>1. Len(pending') = 0 /\ Len(prepared') = 0 /\ Len(FramesOf(pending')) = 0
        /\ DOMAIN pending' = {}
    BY SMTT(60), <1>1, <1>13
  <2>2. Len(egress') = Len(frames)
    BY Zenon, <1>9
  <2>3. /\ Len(egress') <= EgressTarget /\ 0 + 0 + Len(egress') <= EgressTarget
        /\ 0 - 0 <= UnderrunAhead
    BY SMTT(60), <2>2, <1>6, <1>8, ConstantTypes
  <2>4. QED
    BY Zenon, <2>1, <2>3 DEF EgressBounded
<1>17. RefillFits'
  <2>1. RefillFits
    BY Zenon DEF DeliveryInv
  <2>2. QED
    BY Zenon, <2>1, <1>3, <1>12 DEF RefillFits
<1> DEFINE base == [senders EXCEPT ![live] = Retired(Live)]
           r == IF leaving THEN Retired(NewSender(FALSE)) ELSE NewSender(FALSE)
           o == Retired(Live)
<1>18. senders' = Append(base, r)
  BY Zenon, <1>1 DEF Replaced, Live
<1>19. base \in Seq(Sender) /\ base = [senders EXCEPT ![live] = o]
  BY Zenon, <1>4, RetiredBase
<1>20. r \in Sender /\ InTurn(r, generation, wire) /\ (r.retired <=> leaving)
  <2>1. FALSE \in BOOLEAN
    OBVIOUS
  <2>2. NewSender(FALSE) \in Sender /\ Retired(NewSender(FALSE)) \in Sender
    BY Zenon, <2>1, FreshSender
  <2>3. /\ InTurn(NewSender(FALSE), generation, wire)
        /\ InTurn(Retired(NewSender(FALSE)), generation, wire)
        /\ NewSender(FALSE).retired = FALSE /\ Retired(NewSender(FALSE)).retired = TRUE
    BY Zenon, <2>1, FreshInTurn
  <2>4. CASE leaving
    BY Zenon, <2>2, <2>3, <2>4
  <2>5. CASE ~leaving
    BY Zenon, <2>2, <2>3, <2>5
  <2>6. QED
    BY Zenon, <2>4, <2>5
<1>21. InTurn(o, generation, wire) /\ o.retired = TRUE
  <2>1. Live \in Sender /\ live \in 1..live
    BY Zenon, <1>4, LiveIsSender DEF TypeOK
  <2>2. InTurn(Live, generation, wire)
    BY Zenon, <2>1, <1>4 DEF SendersInTurn, Live
  <2>3. /\ ~Live.own /\ \A i \in DOMAIN Live.queue : Live.queue[i].gen < generation
    BY Zenon, <1>4, <1>5 DEF StaleWhileRebasing
  <2>4. Live.queue # <<>> => Head(Live.queue).gen # generation
    <3>1. generation \in Nat /\ Live.queue \in Seq(Packet)
      BY ZenonT(60), <2>1, <1>4 DEF TypeOK, Sender
    <3>2. Live.queue # <<>> => 1 \in DOMAIN Live.queue /\ Head(Live.queue) = Live.queue[1]
      BY SMTT(60), <3>1
    <3>3. ~(generation < generation)
      BY SMTT(60), <3>1
    <3>4. QED
      BY ZenonT(60), <3>2, <3>3, <2>3
  <2>5. InTurn(o, generation, wire)
    BY ZenonT(60), <2>1, <2>2, <2>3, <2>4, TurnRetired
  <2>6. o.retired = TRUE
    BY Zenon, <2>1 DEF Retired, Sender
  <2>7. QED
    BY Zenon, <2>5, <2>6
<1>22. \A s \in 1..Len(base) : InTurn(base[s], generation, wire) /\ base[s].retired
  <2>1. senders \in Seq(Sender) /\ live \in Nat /\ live \in 1..live /\ o \in Sender
    <3>1. senders \in Seq(Sender) /\ live \in Nat /\ live \in 1..live /\ Live \in Sender
      BY Zenon, <1>4, LiveIsSender DEF TypeOK
    <3>2. <<>> \in Seq(Packet)
      OBVIOUS
    <3>3. QED
      BY Zenon, <3>1, <3>2 DEF Retired, Sender
  <2> HIDE DEF base, o
  <2>2. Len(base) = live /\ \A j \in 1..live : base[j] = IF j = live THEN o ELSE senders[j]
    BY SMTT(60), <2>1, <1>19, SeqReplaced DEF live
  <2>3. TAKE s \in 1..Len(base)
  <2>4. s \in 1..live /\ (s # live => s < live)
    BY SMTT(60), <2>1, <2>2
  <2>5. CASE s = live
    BY Zenon, <2>2, <2>4, <2>5, <1>21
  <2>6. CASE s # live
    BY Zenon, <2>2, <2>4, <2>6, <1>4 DEF SendersInTurn
  <2>7. QED
    BY Zenon, <2>5, <2>6
<1> HIDE DEF base, r, o
<1>23. SendersInTurn' /\ Live' = r
  <2>1. UNCHANGED <<generation, wire>>
    BY Zenon, <1>3
  <2>2. QED
    BY ZenonT(60), <2>1, <1>18, <1>19, <1>20, <1>22, SpawnedInTurn
<1>24. GivenUpOnExit'
  BY Zenon, <1>2, <1>20, <1>23 DEF GivenUpOnExit
<1>25. StaleWhileRebasing'
  BY Zenon, <1>2 DEF StaleWhileRebasing, Running, Attached
<1>26. /\ \A i \in DOMAIN boundary' : boundary'[i].frame = NoFrame
       /\ 1..(position' + mq') \subseteq wire'
       /\ \A f \in wire' : 1..f \subseteq wire'
  BY Zenon, <1>3 DEF DeliveryInv
<1>27. QED
  BY ZenonT(60), <1>15, <1>16, <1>17, <1>23, <1>24, <1>25, <1>26 DEF DeliveryInv

-----------------------------------------------------------------------------
(* All steps, and what the invariant says.                                *)

\* Every step of every thread preserves the delivery invariant.
LEMMA NextDelivers ==
  ASSUME FramesFacts, CountsTyped, DeliveryInv, MirrorInv', [Next]_vars
  PROVE  DeliveryInv'
<1>1. DeliveryInv
  OBVIOUS
<1>2. MirrorInv' /\ FramesFacts /\ CountsTyped
  OBVIOUS
<1>3. CASE DriverNext
  BY ZenonT(60), <1>1, <1>2, <1>3, DriverMovesDeliver, DriverEndsDeliver, GatewayErrorDelivers,
     OutcomeDelivers, FillDelivers, CommandsDone2Delivers, InvalidateDelivers,
     RebaseOnlyDelivers, RebaseDelivers, BoundaryStepDelivers, BoundaryOutcomeDelivers,
     CleanupDelivers
  DEF DriverNext
<1>4. CASE ProducerNext
  BY Zenon, <1>1, <1>2, <1>4, ProducerDelivers
<1>5. CASE \E s \in 1..live : SenderNext(s)
  BY Zenon, <1>1, <1>2, <1>5, SenderDelivers
<1>6. CASE PumpNext \/ ControlNext
  BY Zenon, <1>1, <1>2, <1>6, ControlDelivers
<1>7. CASE UNCHANGED vars
  BY ZenonT(60), <1>1, <1>2, <1>7, StutterDelivers
<1>8. QED
  BY ZenonT(60), <1>1, <1>3, <1>4, <1>5, <1>6, <1>7 DEF Next, Finished

\* A frame decoded is on the wire, or where PipelineInOrder says it is.
LEMMA DeliveryLosesNothing == FramesFacts /\ DeliveryInv => NothingLost
<1>1. SUFFICES ASSUME FramesFacts, DeliveryInv, Running, NEW f \in 1..produced
               PROVE  \/ f \in wire
                      \/ \E i \in DOMAIN source : source[i] = f
                      \/ \E i \in DOMAIN egress : egress[i] = f
                      \/ \E i \in DOMAIN prepared : prepared[i].frame = f
                      \/ \E i \in DOMAIN pending : pending[i].frame = f
  BY Zenon DEF NothingLost
<1> DEFINE p == FramesOf(pending)
           a == BeforePending
           b == BeforePrepared
           c == BeforeEgress
           d == BeforeSource
<1>2. TypeOK /\ PipelineInOrder /\ FramesFacts
  BY Zenon, <1>1 DEF DeliveryInv, MirrorInv
<1>3. /\ source \in Seq(Frames) /\ egress \in Seq(Frames) /\ p \in Seq(Frames)
      /\ prepared \in Seq(Packet) /\ pending \in Seq(Packet)
      /\ Len(source) \in Nat /\ Len(egress) \in Nat /\ Len(prepared) \in Nat /\ Len(p) \in Nat
      /\ produced \in Nat /\ a \in Int /\ b \in Int /\ c \in Int /\ d \in Int
  BY Zenon, <1>2, PipelineTypes
<1>4. d = produced - Len(source) /\ c = d - Len(egress) /\ b = c - Len(prepared) /\ a = b - Len(p)
  BY Zenon DEF BeforeSource, BeforeEgress, BeforePrepared, BeforePending
<1>5. /\ Follows(source, d) /\ Follows(egress, c) /\ TracksFollow(prepared, b) /\ Follows(p, a)
      /\ 1..a \subseteq wire
  BY Zenon, <1>1, <1>2 DEF PipelineInOrder
<1>6. /\ DOMAIN source = 1..Len(source) /\ DOMAIN egress = 1..Len(egress)
      /\ DOMAIN prepared = 1..Len(prepared) /\ DOMAIN p = 1..Len(p)
  BY ZenonT(60), <1>3, SeqShape
<1> HIDE DEF p, a, b, c, d
<1>7. CASE f <= a
  BY SMTT(60), <1>1, <1>3, <1>5, <1>7
<1>8. CASE a < f /\ f <= b
  <2>1. f - a \in DOMAIN p /\ a + (f - a) = f
    BY SMTT(60), <1>1, <1>3, <1>4, <1>6, <1>8
  <2>2. p[f - a] = f
    BY Zenon, <2>1, <1>5 DEF Follows
  <2>3. QED
    BY ZenonT(60), <2>1, <2>2, <1>2, <1>3 DEF FramesFacts, FramesFrom, p
<1>9. CASE b < f /\ f <= c
  <2>1. f - b \in DOMAIN prepared /\ b + (f - b) = f
    BY SMTT(60), <1>1, <1>3, <1>4, <1>6, <1>9
  <2>2. QED
    BY Zenon, <2>1, <1>5 DEF TracksFollow
<1>10. CASE c < f /\ f <= d
  <2>1. f - c \in DOMAIN egress /\ c + (f - c) = f
    BY SMTT(60), <1>1, <1>3, <1>4, <1>6, <1>10
  <2>2. QED
    BY Zenon, <2>1, <1>5 DEF Follows
<1>11. CASE d < f
  <2>1. f - d \in DOMAIN source /\ d + (f - d) = f
    BY SMTT(60), <1>1, <1>3, <1>4, <1>6, <1>11
  <2>2. QED
    BY Zenon, <2>1, <1>5 DEF Follows
<1>12. QED
  BY SMTT(60), <1>1, <1>3, <1>7, <1>8, <1>9, <1>10, <1>11

\* What is with the sender is bounded by what may be pending.
LEMMA DeliveryFits == FramesFacts /\ DeliveryInv => BuffersFit
<1>1. SUFFICES ASSUME FramesFacts, DeliveryInv PROVE BuffersFit
  OBVIOUS
<1>2. /\ MirrorInv /\ TypeOK /\ SourceFits /\ ControlPoints /\ EgressBounded /\ RefillFits
      /\ FramesFacts
  BY Zenon, <1>1 DEF DeliveryInv, MirrorInv
<1>3. /\ Len(source) <= SourceTarget /\ discarded = 0 /\ (srcError => faults > 0)
      /\ Len(egress) <= EgressTarget
  BY Zenon, <1>2 DEF SourceFits, RefillFits, EgressBounded
<1>4. Len(egress) \in Nat /\ Len(prepared) \in Nat /\ Len(pending) \in Nat
      /\ Len(FramesOf(pending)) \in Nat
  BY Zenon, <1>2, PipelineTypes
<1>5. Len(egress) <= EgressHigh
  BY SMTT(60), <1>3, <1>4, ConstantTypes, WatermarksOrdered
<1>6. ASSUME Running PROVE Len(InSender(Live)) < RecordCap
  <2> DEFINE n == Len(pending)
             m == Len(FramesOf(pending))
  <2>1. ret # "cleanup"
    BY Zenon, <1>6 DEF Running
  <2>2. n \in Nat /\ n < RecordCap
    <3>1. /\ m + Len(prepared) + Len(egress) <= EgressTarget /\ n - m <= UnderrunAhead
          /\ n \in Nat /\ m \in Nat
      BY Zenon, <1>2, <1>4, <1>6 DEF EgressBounded
    <3> HIDE DEF n, m
    <3>2. QED
      BY SMTT(60), <3>1, <1>4, ConstantTypes, WatermarksOrdered
  <2>3. CASE Attached /\ dpc = "boundWait"
    <3>1. pending = <<>> /\ Len(boundary) = 1 /\ boundary \in Seq(Packet)
      BY ZenonT(60), <2>1, <2>3, <1>2 DEF MirrorInv, FlushedIsEmpty, Flushed, ControlPoints, TypeOK
    <3>2. InSender(Live) = <<>> \o boundary
      BY Zenon, <3>1, <2>1, <2>3, <1>2 DEF MirrorInv, Mirrored
    <3>3. <<>> \o boundary = boundary
      BY Zenon, <3>1, ConcatNothing
    <3>4. 1 < RecordCap
      BY SMTT(60), ConstantTypes, WatermarksOrdered
    <3>5. QED
      BY ZenonT(60), <3>1, <3>2, <3>3, <3>4
  <2>4. CASE Attached /\ dpc # "boundWait"
    BY Zenon, <2>1, <2>2, <2>4, <1>2, AttachedFacts
  <2>5. CASE ~Attached
    <3> DEFINE l == Len(InSender(Live))
    <3>1. l <= n
      BY Zenon, <2>5, <1>1, <1>6 DEF DeliveryInv, StaleWhileRebasing
    <3>2. l \in Nat
      <4>1. Live \in Sender
        BY Zenon, <1>2, LiveIsSender DEF TypeOK
      <4> DEFINE x == Len(Live.sent)
                 y == Len(Live.cmd)
                 z == Len(Live.queue)
      <4>2. l = x + y + z /\ x \in Nat /\ y \in Nat /\ z \in Nat
        BY Zenon, <4>1, InSenderLen
      <4> HIDE DEF l, x, y, z
      <4>3. QED
        BY SMTT(60), <4>2
    <3> HIDE DEF l, n
    <3>3. l < RecordCap
      BY SMTT(60), <3>1, <3>2, <2>2, ConstantTypes
    <3>4. QED
      BY Zenon, <3>3 DEF l
  <2>6. QED
    BY Zenon, <2>3, <2>4, <2>5
<1>7. QED
  BY Zenon, <1>3, <1>5, <1>6 DEF BuffersFit

=============================================================================
