----------------------- MODULE MediaPlayoutMirrorProofs ---------------------
(***************************************************************************)
(* Proofs about MediaPlayout.  First the facts that all of them share:     *)
(* sequences, the constants, one sender among many, packets of the current *)
(* generation, and the shapes of steps that leave part of the playout      *)
(* alone.  Then MirrorInv, which says that the driver's list of pending    *)
(* commands mirrors its deadline sender: the initial states satisfy it, and*)
(* every step of every thread preserves it.                                *)
(***************************************************************************)
EXTENDS MediaPlayout, TLAPS

-----------------------------------------------------------------------------
(* Sequences.                                                              *)

\* A sequence has a length, is a function on 1..Len and holds elements of its
\* set.
LEMMA SeqShape ==
  ASSUME NEW S, NEW seq \in Seq(S)
  PROVE  Len(seq) \in Nat /\ seq \in [1..Len(seq) -> S] /\ DOMAIN seq = 1..Len(seq)
  OBVIOUS

\* What a sequence holds at a place of its domain.
LEMMA SeqElement ==
  ASSUME NEW S, NEW seq \in Seq(S), NEW n \in 1..Len(seq)
  PROVE  seq[n] \in S
  OBVIOUS

\* A sequence over a set is one over every larger set.
LEMMA SeqWider ==
  ASSUME NEW S, NEW T, S \subseteq T, NEW seq \in Seq(S)
  PROVE  seq \in Seq(T)
  OBVIOUS

\* The empty sequence, and that no other one has length 0.
LEMMA SeqNothing ==
  ASSUME NEW S
  PROVE  /\ <<>> \in Seq(S) /\ Len(<<>>) = 0
         /\ \A seq \in Seq(S) : seq # <<>> => Len(seq) \in Nat \ {0}
  OBVIOUS

\* A sequence with one element replaced.
LEMMA SeqReplaced ==
  ASSUME NEW S, NEW seq \in Seq(S), NEW n \in 1..Len(seq), NEW elt \in S
  PROVE  /\ [seq EXCEPT ![n] = elt] \in Seq(S)
         /\ Len([seq EXCEPT ![n] = elt]) = Len(seq)
         /\ \A m \in 1..Len(seq) :
              [seq EXCEPT ![n] = elt][m] = IF m = n THEN elt ELSE seq[m]
  OBVIOUS

\* Sequences that agree at every place are equal.
LEMMA SeqAgree ==
  ASSUME NEW S, NEW s \in Seq(S), NEW t \in Seq(S), Len(s) = Len(t),
         \A n \in 1..Len(s) : s[n] = t[n]
  PROVE  s = t
  OBVIOUS

\* One sequence after another: its length and its elements.
LEMMA ConcatShape ==
  ASSUME NEW S, NEW s \in Seq(S), NEW t \in Seq(S)
  PROVE  /\ s \o t \in Seq(S) /\ Len(s \o t) = Len(s) + Len(t)
         /\ \A n \in 1..Len(s) + Len(t) :
              (s \o t)[n] = IF n <= Len(s) THEN s[n] ELSE t[n - Len(s)]
  OBVIOUS

\* The empty sequence adds nothing on either side.
LEMMA ConcatNothing ==
  ASSUME NEW S, NEW seq \in Seq(S)
  PROVE  seq \o <<>> = seq /\ <<>> \o seq = seq
  OBVIOUS

\* Nothing but the empty sequence adds nothing.
LEMMA ConcatEmpty ==
  ASSUME NEW S, NEW s \in Seq(S), NEW t \in Seq(S)
  PROVE  /\ (s \o t = <<>>) <=> (s = <<>> /\ t = <<>>)
         /\ (s \o t = s) <=> (t = <<>>)
         /\ (s \o t = t) <=> (s = <<>>)
  BY SMTT(60)

\* Concatenation associates.
LEMMA ConcatTwice ==
  ASSUME NEW S, NEW s \in Seq(S), NEW t \in Seq(S), NEW u \in Seq(S)
  PROVE  (s \o t) \o u = s \o (t \o u)
  OBVIOUS

\* The stretch of a sequence between two places.
LEMMA SubSeqShape ==
  ASSUME NEW S, NEW seq, NEW m \in Int, NEW n \in Int, \A i \in m..n : seq[i] \in S
  PROVE  /\ SubSeq(seq, m, n) \in Seq(S)
         /\ Len(SubSeq(seq, m, n)) = IF m <= n THEN (n - m) + 1 ELSE 0
         /\ \A i \in 1..(n - m) + 1 : SubSeq(seq, m, n)[i] = seq[(m + i) - 1]
  OBVIOUS

\* What is left of a sequence without its first element.
LEMMA TailShape ==
  ASSUME NEW S, NEW seq \in Seq(S), seq # <<>>
  PROVE  /\ Head(seq) \in S /\ Tail(seq) \in Seq(S) /\ Len(Tail(seq)) = Len(seq) - 1
         /\ \A n \in 1..Len(Tail(seq)) : Tail(seq)[n] = seq[n + 1]
  OBVIOUS

\* A sequence with one element more at its end.
LEMMA AppendShape ==
  ASSUME NEW S, NEW seq \in Seq(S), NEW elt \in S
  PROVE  /\ Append(seq, elt) \in Seq(S) /\ Append(seq, elt) # <<>>
         /\ Len(Append(seq, elt)) = Len(seq) + 1
         /\ \A n \in 1..Len(seq) : Append(seq, elt)[n] = seq[n]
         /\ Append(seq, elt)[Len(seq) + 1] = elt
  OBVIOUS

\* Appending is putting a sequence of one element after another sequence.
LEMMA AppendLast ==
  ASSUME NEW S, NEW seq \in Seq(S), NEW elt \in S
  PROVE  Append(seq, elt) = seq \o <<elt>>
  OBVIOUS

-----------------------------------------------------------------------------
(* The constants, and what is proved of the operators elsewhere.           *)

\* MediaConstants, one constant at a time.
LEMMA ConstantTypes ==
    /\ NFrames \in Nat /\ SourceLow \in Nat /\ MaxCommands \in Nat
    /\ MaxDave \in Nat /\ MaxSilence \in Nat /\ MaxFaults \in Nat
    /\ SourceTarget \in Nat \ {0} /\ RefillBatch \in Nat \ {0}
    /\ EgressTarget \in Nat \ {0} /\ EgressHigh \in Nat \ {0}
    /\ BoundaryPackets \in Nat \ {0} /\ UnderrunAhead \in Nat \ {0}
    /\ CommandCap \in Nat \ {0} /\ RecordCap \in Nat \ {0}
    /\ MetricsCap \in Nat \ {0} /\ CursorPeriod \in Nat \ {0}
  BY Zenon, MediaConstants

\* A cursor that has advanced, and perhaps wrapped, is a cursor.
LEMMA AdvanceNat ==
  ASSUME NEW c \in Nat, NEW k \in Nat
  PROVE  Advance(c, k) \in Nat
<1>1. c + k \in Nat /\ CursorPeriod \in Nat /\ CursorPeriod > 0
  BY SMTT(60), ConstantTypes
<1>2. QED
  BY SMTT(60), <1>1 DEF Advance

\* FramesOf returns frames (MediaPlayoutProofs).
FramesTyped == \A packets \in Seq(Packet) : FramesOf(packets) \in Seq(Frames)

\* The scheduled silences of a sequence can be counted (MediaPlayoutProofs).
CountsTyped ==
    \A commands \in Seq(Packet) :
        Cardinality({i \in DOMAIN commands : commands[i].kind = "ScheduledSilence"}) \in Nat

\* What FramesOf makes of its argument (MediaPlayoutProofs): the frames of a
\* concatenation, of silence and of tracks, where a frame comes from, and how
\* many packets are silence.
FramesConcat ==
    \A p, q \in Seq(Packet) : FramesOf(p \o q) = FramesOf(p) \o FramesOf(q)
FramesSilent ==
    \A p \in Seq(Packet) :
        (\A i \in DOMAIN p : p[i].frame = NoFrame) => FramesOf(p) = <<>>
FramesTracks ==
    \A p \in Seq(Packet) :
        (\A i \in DOMAIN p : p[i].frame # NoFrame)
            => /\ Len(FramesOf(p)) = Len(p)
               /\ \A i \in DOMAIN p : FramesOf(p)[i] = p[i].frame
FramesFrom ==
    \A p \in Seq(Packet) : \A j \in DOMAIN FramesOf(p) :
        \E i \in DOMAIN p : p[i].frame = FramesOf(p)[j]
SilencesCounted ==
    \A p \in Seq(Packet) :
        (\A i \in DOMAIN p : p[i].kind = "ScheduledSilence" <=> p[i].frame = NoFrame)
            => Cardinality({i \in DOMAIN p : p[i].kind = "ScheduledSilence"})
                 = Len(p) - Len(FramesOf(p))
FramesFacts ==
    /\ FramesTyped /\ FramesConcat /\ FramesSilent /\ FramesTracks
    /\ FramesFrom /\ SilencesCounted

-----------------------------------------------------------------------------
(* Sequences.                                                              *)

\* Moving the head of a sequence to the sequence in front of it.
LEMMA HeadMoves ==
  ASSUME NEW S, NEW a \in Seq(S), NEW q \in Seq(S), q # <<>>
  PROVE  (a \o <<>>) \o q = (a \o <<Head(q)>>) \o Tail(q)
<1>1. Head(q) \in S /\ Tail(q) \in Seq(S) /\ <<Head(q)>> \in Seq(S)
  OBVIOUS
<1>2. <<Head(q)>> \o Tail(q) = q
  BY SMTT(60), <1>1
<1>3. (a \o <<Head(q)>>) \o Tail(q) = a \o (<<Head(q)>> \o Tail(q))
  BY SMTT(60), <1>1, ConcatTwice
<1>4. QED
  BY Zenon, <1>2, <1>3, ConcatNothing

\* The last elements of a sequence form a sequence.
LEMMA AfterNType ==
  ASSUME NEW S, NEW s \in Seq(S), NEW n \in 0..Len(s)
  PROVE  AfterN(s, n) \in Seq(S) /\ Len(AfterN(s, n)) = Len(s) - n
<1>1. Len(s) \in Nat /\ n + 1 \in Int /\ \A i \in (n + 1)..Len(s) : s[i] \in S
  OBVIOUS
<1>2. QED
  BY SMTT(60), <1>1, SubSeqShape DEF AfterN

\* So do its first ones.
LEMMA FirstNType ==
  ASSUME NEW S, NEW s \in Seq(S), NEW n \in 0..Len(s)
  PROVE  FirstN(s, n) \in Seq(S) /\ Len(FirstN(s, n)) = n
<1>1. Len(s) \in Nat /\ n \in Int /\ \A i \in 1..n : s[i] \in S
  OBVIOUS
<1>2. QED
  BY SMTT(60), <1>1, SubSeqShape DEF FirstN

\* A sequence with one element in front of it.
LEMMA ConsSeq ==
  ASSUME NEW S, NEW e \in S, NEW z \in Seq(S)
  PROVE  /\ <<e>> \o z \in Seq(S) /\ <<e>> \o z # <<>>
         /\ Head(<<e>> \o z) = e /\ Tail(<<e>> \o z) = z
  OBVIOUS

\* Taking the head of the first of three sequences takes it from all of them.
LEMMA HeadLeaves ==
  ASSUME NEW a \in Seq(Packet), NEW b \in Seq(Packet), NEW c \in Seq(Packet), a # <<>>
  PROVE  /\ (a \o b) \o c # <<>>
         /\ Head((a \o b) \o c) = Head(a)
         /\ Tail((a \o b) \o c) = (Tail(a) \o b) \o c
<1> DEFINE h == <<Head(a)>>
           t == Tail(a) \o b
           z == t \o c
<1>1. h \in Seq(Packet) /\ Tail(a) \in Seq(Packet) /\ Head(a) \in Packet
  BY TailShape
<1>2. h \o Tail(a) = a
  OBVIOUS
<1>3. t \in Seq(Packet)
  BY Zenon, <1>1, ConcatShape
<1>4. z \in Seq(Packet)
  BY Zenon, <1>3, ConcatShape
<1>5. (h \o Tail(a)) \o b = h \o (Tail(a) \o b)
  BY <1>1, ConcatTwice
<1>6. (h \o t) \o c = h \o (t \o c)
  <2> HIDE DEF h, t
  <2>1. QED
    BY SMTT(60), <1>1, <1>3, ConcatTwice
<1>7. (a \o b) \o c = h \o z
  BY Zenon, <1>2, <1>5, <1>6
<1>8. h \o z # <<>> /\ Head(h \o z) = Head(a) /\ Tail(h \o z) = z
  <2> HIDE DEF z
  <2>1. QED
    BY Zenon, <1>1, <1>4, ConsSeq DEF h
<1>9. QED
  BY Zenon, <1>7, <1>8

\* A sequence of three is empty only if all of them are.
LEMMA AllEmpty ==
  ASSUME NEW a \in Seq(Packet), NEW b \in Seq(Packet), NEW c \in Seq(Packet),
         (a \o b) \o c = <<>>
  PROVE  a = <<>> /\ b = <<>> /\ c = <<>>
<1>1. a \o b \in Seq(Packet)
  BY Zenon, ConcatShape
<1>2. a \o b = <<>> /\ c = <<>>
  BY SMTT(60), <1>1, ConcatEmpty
<1>3. QED
  BY SMTT(60), <1>2, ConcatEmpty

-----------------------------------------------------------------------------
(* Updates of the sender threads.                                          *)

\* A thread changes its own record and no other.
LEMMA SenderUpdate ==
  ASSUME senders \in Seq(Sender), NEW s \in 1..live, NEW r \in Sender,
         senders' = [senders EXCEPT ![s] = r]
  PROVE  /\ senders' \in Seq(Sender) /\ senders' # <<>>
         /\ live' = live
         /\ senders'[s] = r
         /\ \A j \in 1..live : j # s => senders'[j] = senders[j]
<1>1. /\ senders' \in Seq(Sender) /\ Len(senders') = Len(senders)
      /\ \A j \in 1..Len(senders) : senders'[j] = IF j = s THEN r ELSE senders[j]
  BY SeqReplaced DEF live
<1>2. Len(senders) \in Nat
  OBVIOUS
<1>3. QED
  BY SMTT(60), <1>1, <1>2 DEF live

\* The live sender is one of the senders.
LEMMA LiveIsSender ==
  ASSUME senders \in Seq(Sender), senders # <<>>
  PROVE  live \in 1..live /\ live \in Nat /\ Live \in Sender
  BY DEF live, Live

\* A dropped LiveDeadlineSender keeps its type and the command it holds.
LEMMA RetiredLive ==
  ASSUME TypeOK, HoldsItsCommand,
         senders' = [senders EXCEPT ![live] = Retired(@)]
  PROVE  senders' \in Seq(Sender) /\ senders' # <<>> /\ HoldsItsCommand' /\ live' = live
<1> DEFINE r == Retired(Live)
<1>1. live \in 1..live /\ Live \in Sender /\ senders \in Seq(Sender)
  BY Zenon, LiveIsSender DEF TypeOK
<1>2. <<>> \in Seq(Packet)
  OBVIOUS
<1>3. r \in Sender /\ r.pc = Live.pc /\ r.cmd = Live.cmd
  BY Zenon, <1>1, <1>2 DEF Retired, Sender
<1>4. senders' = [senders EXCEPT ![live] = r]
  BY Zenon DEF Live
<1> HIDE DEF r
<1>5. /\ senders' \in Seq(Sender) /\ senders' # <<>> /\ live' = live /\ senders'[live] = r
      /\ \A j \in 1..live : j # live => senders'[j] = senders[j]
  BY ZenonT(60), <1>1, <1>3, <1>4, SenderUpdate
<1>6. HoldsItsCommand'
  BY SMTT(60), <1>1, <1>3, <1>5 DEF HoldsItsCommand, Live
<1>7. QED
  BY Zenon, <1>5, <1>6

\* The driver changes the queue or the records of its own sender.
LEMMA LiveUpdate ==
  ASSUME TypeOK, NEW r \in Sender, senders' = [senders EXCEPT ![live] = r]
  PROVE  /\ senders' \in Seq(Sender) /\ senders' # <<>> /\ live' = live /\ Live' = r
         /\ \A j \in 1..live : j # live => senders'[j] = senders[j]
<1>1. live \in 1..live /\ senders \in Seq(Sender)
  BY Zenon, LiveIsSender DEF TypeOK
<1>2. QED
  BY Zenon, <1>1, SenderUpdate DEF Live

-----------------------------------------------------------------------------
(* Shapes of steps.                                                        *)

\* The driver moves on, or something else happens, and the queues, the sender
\* and the generation stay: only the control point has to fit.
LEMMA QueuesUntouched ==
  ASSUME MirrorInv, TypeOK', SourceFits', ControlPoints',
         UNCHANGED <<senders, pending, prepared, boundary, generation>>,
         Attached' => Attached /\ (dpc' # "rebase" => dpc # "rebase"),
         Attached' => (ret' = "cleanup" <=> ret = "cleanup"),
         Flushed' => Flushed
  PROVE  MirrorInv'
<1>1. HoldsItsCommand' /\ FlushedIsEmpty'
  BY Zenon DEF MirrorInv, HoldsItsCommand, FlushedIsEmpty, live
<1>2. Live' = Live /\ (Attached' => ActiveGeneration(Live)' = ActiveGeneration(Live))
  BY Zenon DEF Live, live, ActiveGeneration
<1>3. Mirrored'
  <2>1. Attached' => (InSender(Live) = (IF ret = "cleanup" THEN <<>> ELSE pending) \o boundary)'
    BY Zenon, <1>2 DEF MirrorInv, Mirrored, InSender
  <2>2. Attached' => (Live.own = (ret = "cleanup"))'
    BY Zenon, <1>2 DEF MirrorInv, Mirrored
  <2>3. QED
    BY Zenon, <2>1, <2>2, <1>2 DEF MirrorInv, Mirrored
<1>4. ActiveGenerations'
  BY Zenon, <1>2 DEF MirrorInv, ActiveGenerations
<1>5. QED
  BY Zenon, <1>1, <1>3, <1>4 DEF MirrorInv

\* run_loop returns, or the boundary after it is given up: nothing is attached
\* to the sender any more.
LEMMA Detached ==
  ASSUME MirrorInv, TypeOK', SourceFits', HoldsItsCommand',
         dpc' \in {"exited", "cleanup", "returned"}, boundary' = <<>>,
         ret' = ret, ret = "cleanup" => dpc' = "returned"
  PROVE  MirrorInv'
<1>1. ~Attached' /\ ~Flushed'
  BY Zenon DEF Attached, Flushed
<1>2. ControlPoints'
  BY Zenon DEF ControlPoints
<1>3. QED
  BY Zenon, <1>1, <1>2 DEF MirrorInv, Mirrored, ActiveGenerations, FlushedIsEmpty

\* Any such step preserves the invariant if the two sides still agree.
LEMMA LiveStep ==
  ASSUME MirrorInv, TypeOK', SourceFits', ControlPoints',
         NEW r \in Sender, senders' = [senders EXCEPT ![live] = r],
         r.pc = Live.pc, r.cmd = Live.cmd, r.own = Live.own, r.drops = <<>>,
         Attached, dpc # "rebase", dpc' # "rebase", ret' = ret, generation' = generation,
         InSender(r) = (IF ret = "cleanup" THEN <<>> ELSE pending') \o boundary',
         Len(r.queue) <= CommandCap,
         \A i \in DOMAIN r.queue : r.queue[i].gen = ActiveGeneration(Live),
         ret # "cleanup" => \A i \in DOMAIN prepared' : prepared'[i].gen = generation,
         Flushed' => pending' = <<>> /\ prepared' = <<>>
  PROVE  MirrorInv'
<1>1. /\ live' = live /\ Live' = r
      /\ \A j \in 1..live : j # live => senders'[j] = senders[j]
  BY Zenon, LiveUpdate DEF MirrorInv
<1>2. HoldsItsCommand'
  BY <1>1 DEF MirrorInv, HoldsItsCommand, Live
<1>3. Mirrored'
  <2>1. (InSender(Live) = (IF ret = "cleanup" THEN <<>> ELSE pending) \o boundary)'
    BY Zenon, <1>1 DEF InSender
  <2>2. (Live.own = (ret = "cleanup"))'
    BY Zenon, <1>1 DEF MirrorInv, Mirrored
  <2>3. QED
    BY Zenon, <2>1, <2>2, <1>1 DEF Mirrored
<1>4. ActiveGenerations'
  BY Zenon, <1>1 DEF ActiveGenerations, ActiveGeneration
<1>5. FlushedIsEmpty'
  BY Zenon DEF FlushedIsEmpty
<1>6. QED
  BY Zenon, <1>2, <1>3, <1>4, <1>5 DEF MirrorInv

\* Exit drops the sender and leaves no boundary behind.
LEMMA ExitPreserves ==
  ASSUME MirrorInv, NEW outcome \in {"natural", "stopped", "error"}, Exit(outcome),
         boundary' = <<>>, ret # "cleanup", Len(source') <= SourceTarget,
         source' \in Seq(Frames), srcError' \in BOOLEAN,
         ppc' \in {"check", "await", "waiting", "fill", "done"},
         paused' \in BOOLEAN, sourceEnded' \in BOOLEAN, underrun' \in BOOLEAN,
         egress' \in Seq(Frames), prepared' \in Seq(Packet), pending' \in Seq(Packet),
         bsent' \in Nat, cmds' \in Seq({"Pause", "Resume", "Stop"}),
         reserved' \in Nat, speaking' \in BOOLEAN, faults' \in 0..MaxFaults,
         silenced' \in 0..MaxSilence,
         UNCHANGED <<eos, produced, refill, settled, current, generation, cursor, mq,
                     position, discarded, issued, daves, wire, tail>>
  PROVE  MirrorInv'
<1>1. /\ senders' \in Seq(Sender) /\ senders' # <<>> /\ HoldsItsCommand'
      /\ dpc' = "exited" /\ result' = outcome /\ ret' = ret /\ why' = why
  BY Zenon, RetiredLive DEF MirrorInv, Exit
<1>2. <<>> \in Seq(Packet)
  BY SMTT(60)
<1>3. TypeOK'
  BY ZenonT(60), <1>1, <1>2 DEF MirrorInv, TypeOK
<1>4. SourceFits'
  BY Zenon DEF SourceFits
<1>5. QED
  BY Zenon, <1>1, <1>3, <1>4, Detached

\* The live sender's fields, and what the invariant says while nothing but
\* pending commands is with it.
LEMMA AttachedFacts ==
  ASSUME MirrorInv, Attached, ret # "cleanup", dpc # "boundWait"
  PROVE  /\ Live \in Sender /\ Live.sent \in Seq(Packet) /\ Live.cmd \in Seq(Packet)
         /\ Live.queue \in Seq(Packet) /\ Live.drops = <<>> /\ Live.own = FALSE
         /\ pending \in Seq(Packet) /\ boundary = <<>>
         /\ InSender(Live) = pending
         /\ Len(Live.queue) <= CommandCap
<1>1. Live \in Sender /\ pending \in Seq(Packet) /\ boundary = <<>>
  BY Zenon, LiveIsSender DEF MirrorInv, TypeOK, ControlPoints
<1>2. Live.sent \in Seq(Packet) /\ Live.cmd \in Seq(Packet) /\ Live.queue \in Seq(Packet)
  BY Zenon, <1>1 DEF Sender
<1>3. InSender(Live) = pending \o <<>>
  BY Zenon, <1>1 DEF MirrorInv, Mirrored
<1>4. pending \o <<>> = pending
  BY Zenon, <1>1, ConcatNothing
<1>5. Live.drops = <<>> /\ Len(Live.queue) <= CommandCap
  BY Zenon DEF MirrorInv, Mirrored
<1>6. Live.own = FALSE
  <2>1. Live.own = (ret = "cleanup")
    BY Zenon DEF MirrorInv, Mirrored
  <2>2. QED
    BY Zenon, <2>1
<1>7. QED
  BY Zenon, <1>1, <1>2, <1>3, <1>4, <1>5, <1>6

-----------------------------------------------------------------------------
(* Packets of the current generation, and fresh and given up senders.      *)

\* The packets of the current generation.
CurrentPackets == {p \in Packet : p.gen = generation}

\* A sequence over one set all of whose elements are in another.
LEMMA SeqNarrows ==
  ASSUME NEW S, NEW T, NEW s \in Seq(S), \A i \in DOMAIN s : s[i] \in T
  PROVE  s \in Seq(T)
<1>1. Len(s) \in Nat /\ DOMAIN s = 1..Len(s) /\ s \in [1..Len(s) -> S]
  BY Zenon, SeqShape
<1>2. s \in [1..Len(s) -> T]
  BY Zenon, <1>1
<1>3. QED
  BY <1>1, <1>2

\* The elements of a sequence of current packets carry the generation.
LEMMA CurrentElements ==
  ASSUME NEW s \in Seq(CurrentPackets)
  PROVE  s \in Seq(Packet) /\ \A i \in DOMAIN s : s[i].gen = generation
<1>1. CurrentPackets \subseteq Packet
  BY Zenon DEF CurrentPackets
<1>2. s \in Seq(Packet)
  BY Zenon, <1>1, SeqWider
<1>3. \A i \in DOMAIN s : s[i] \in CurrentPackets
  BY Zenon, SeqShape
<1>4. QED
  BY Zenon, <1>2, <1>3 DEF CurrentPackets

\* The silences due fit in the sender's queue and in what is left of the bound.
LEMMA SilencesDueBound ==
  ASSUME NEW commands \in Seq(Packet), NEW queued \in 0..CommandCap, TypeOK, CountsTyped
  PROVE  /\ SilencesDue(commands, queued) \in 0..(CommandCap - queued)
         /\ silenced + SilencesDue(commands, queued) \in 0..MaxSilence
<1> DEFINE scheduled == {i \in DOMAIN commands : commands[i].kind = "ScheduledSilence"}
<1>3. Cardinality(scheduled) \in Nat
  BY Zenon DEF CountsTyped
<1>4. silenced \in 0..MaxSilence
  BY Zenon DEF TypeOK
<1> DEFINE c == Cardinality(scheduled)
<1>5. SilencesDue(commands, queued)
        = Least(Most(UnderrunAhead - c, 0), Least(CommandCap - queued, MaxSilence - silenced))
  BY Zenon DEF SilencesDue
<1>6. c \in Nat
  BY Zenon, <1>3
<1> HIDE DEF c, scheduled
<1>7. QED
  BY SMTT(60), <1>4, <1>5, <1>6, ConstantTypes DEF Least, Most

\* Reserving k silences.
LEMMA SilencesType ==
  ASSUME NEW k \in Nat, NEW c \in Nat, generation \in Nat
  PROVE  Silences(k, c) \in Seq(CurrentPackets) /\ Len(Silences(k, c)) = k
<1>1. ASSUME NEW i \in 1..k
      PROVE  NewPacket("ScheduledSilence", NoFrame, Advance(c, i - 1), generation) \in CurrentPackets
  <2>1. Advance(c, i - 1) \in Nat
    <3>1. i - 1 \in Nat
      OBVIOUS
    <3>2. QED
      BY Zenon, <3>1, AdvanceNat
  <2>2. QED
    BY Zenon, <2>1 DEF NewPacket, NoFrame, CurrentPackets, Packet, Kinds
<1>2. Silences(k, c) \in [1..k -> CurrentPackets]
  BY Zenon, <1>1 DEF Silences
<1>3. QED
  BY <1>2

\* Reserving n tracks for the frames of a pool.
LEMMA TracksType ==
  ASSUME NEW pool \in Seq(Frames), NEW n \in 0..Len(pool), generation \in Nat, reserved \in Nat
  PROVE  [i \in 1..n |-> NewPacket("Track", pool[i], Advance(reserved, i - 1), generation)]
           \in Seq(CurrentPackets)
<1>1. Len(pool) \in Nat
  OBVIOUS
<1>2. ASSUME NEW i \in 1..n
      PROVE  NewPacket("Track", pool[i], Advance(reserved, i - 1), generation) \in CurrentPackets
  <2>1. pool[i] \in Frames
    BY <1>1, SeqElement
  <2>2. Advance(reserved, i - 1) \in Nat
    <3>1. i - 1 \in Nat
      BY <1>1
    <3>2. QED
      BY Zenon, <3>1, AdvanceNat
  <2>3. QED
    BY Zenon, <2>1, <2>2 DEF NewPacket, CurrentPackets, Packet, Kinds
<1>3. QED
  BY <1>1, <1>2

\* ConcatTwice for packets.
LEMMA PacketsAssociate ==
  \A s, t, u \in Seq(Packet) : s \o (t \o u) = (s \o t) \o u
<1>1. TAKE s, t, u \in Seq(Packet)
<1>2. QED
  BY SMTT(60), ConcatTwice

\* The senders there were, the last one dropped.
LEMMA RetiredBase ==
  ASSUME TypeOK, HoldsItsCommand, NEW base,
         base = [senders EXCEPT ![live] = Retired(Live)]
  PROVE  /\ base \in Seq(Sender)
         /\ \A s \in 1..Len(base) :
              /\ base[s].pc \in {"loop", "tick"} => base[s].cmd = <<>>
              /\ base[s].pc \in {"holding", "sending", "transmitted"} => Len(base[s].cmd) = 1
<1> DEFINE r == Retired(Live)
<1>1. live \in 1..live /\ Live \in Sender /\ senders \in Seq(Sender)
  BY Zenon, LiveIsSender DEF TypeOK
<1>2. <<>> \in Seq(Packet)
  OBVIOUS
<1>3. r \in Sender /\ r.pc = Live.pc /\ r.cmd = Live.cmd
  BY Zenon, <1>1, <1>2 DEF Retired, Sender
<1>4. base = [senders EXCEPT ![live] = r]
  OBVIOUS
<1> HIDE DEF r
<1>5. /\ base \in Seq(Sender) /\ Len(base) = live
      /\ \A j \in 1..live : base[j] = IF j = live THEN r ELSE senders[j]
  BY SMTT(60), <1>1, <1>3, <1>4, SeqReplaced DEF live
<1>6. QED
  BY SMTT(60), <1>1, <1>3, <1>5 DEF HoldsItsCommand, Live

\* A freshly spawned sender has nothing to send and nothing to report.
LEMMA FreshSender ==
  ASSUME NEW own \in BOOLEAN
  PROVE  LET r == NewSender(own)
         IN  /\ r \in Sender /\ Retired(r) \in Sender
             /\ r.pc = "loop" /\ Retired(r).pc = "loop"
             /\ r.cmd = <<>> /\ Retired(r).cmd = <<>>
             /\ r.queue = <<>> /\ r.sent = <<>> /\ r.drops = <<>> /\ r.own = own
<1>1. <<>> \in Seq(Packet)
  OBVIOUS
<1>2. QED
  BY Zenon, <1>1 DEF NewSender, Retired, Sender

-----------------------------------------------------------------------------
(* The steps of the deadline sender threads.                               *)

\* A thread moves its cursor and its history, nothing of the driver's.
LEMMA SenderTypes ==
  ASSUME TypeOK, NEW s \in 1..live, NEW r \in Sender,
         senders' = [senders EXCEPT ![s] = r],
         cursor' \in Nat, tail' \in Seq(Kinds), wire' \in SUBSET Frames,
         faults' \in 0..MaxFaults,
         UNCHANGED <<srcVars, loopVars, queueVars, boundVars, cmdVars, pumpVars,
                     issued, daves, silenced, pcVars, generation, reserved, speaking>>
  PROVE  TypeOK'
<1>1. senders' \in Seq(Sender) /\ senders' # <<>>
  BY Zenon, SenderUpdate DEF TypeOK
<1>2. QED
  BY SMTT(60), <1>1 DEF TypeOK, srcVars, loopVars, queueVars, boundVars, cmdVars, pumpVars, pcVars

\* Every step of a thread that keeps what passes through the live sender in
\* order, and leaves the driver alone, preserves the invariant.
LEMMA SenderStep ==
  ASSUME MirrorInv, TypeOK', NEW s \in 1..live, NEW r \in Sender,
         senders' = [senders EXCEPT ![s] = r],
         r.pc \in {"loop", "tick"} => r.cmd = <<>>,
         r.pc \in {"holding", "sending", "transmitted"} => Len(r.cmd) = 1,
         r.own = senders[s].own,
         s = live /\ Attached =>
            /\ r.drops = <<>>
            /\ InSender(r) = InSender(Live)
            /\ Len(r.queue) <= Len(Live.queue)
            /\ \A i \in DOMAIN r.queue : \E j \in DOMAIN Live.queue : r.queue[i] = Live.queue[j],
         UNCHANGED <<source, dpc, ret, why, paused, pending, prepared, boundary, generation>>
  PROVE  MirrorInv'
<1>0. live \in 1..live /\ live \in Nat /\ Live \in Sender
  BY Zenon, LiveIsSender DEF MirrorInv, TypeOK
<1>1. /\ live' = live /\ senders'[s] = r
      /\ \A j \in 1..live : j # s => senders'[j] = senders[j]
  BY Zenon, SenderUpdate DEF MirrorInv, TypeOK
<1>2. SourceFits' /\ ControlPoints' /\ FlushedIsEmpty'
  BY Zenon DEF MirrorInv, SourceFits, ControlPoints, FlushedIsEmpty, Flushed, Attached
<1>3. HoldsItsCommand'
  BY SMTT(60), <1>1 DEF MirrorInv, HoldsItsCommand
<1>4. Attached' = Attached
  BY Zenon DEF Attached
<1>5. Live' = IF s = live THEN r ELSE Live
  BY Zenon, <1>0, <1>1 DEF Live
<1>6. Mirrored' /\ ActiveGenerations'
  <2>1. CASE s # live
    BY ZenonT(60), <2>1, <1>4, <1>5 DEF MirrorInv, Mirrored, ActiveGenerations, ActiveGeneration, InSender
  <2>2. CASE s = live
    <3>1. Live.own = senders[s].own /\ Live' = r
      BY Zenon, <2>2, <1>5 DEF Live
    <3>2. Mirrored'
      <4>1. Len(r.queue) \in Nat /\ Len(Live.queue) \in Nat
        BY SMTT(60), <1>0 DEF Sender
      <4>2. Attached => (InSender(Live) = (IF ret = "cleanup" THEN <<>> ELSE pending) \o boundary)'
        BY Zenon, <3>1, <2>2 DEF MirrorInv, Mirrored, InSender
      <4>3. Attached => (Len(Live.queue) <= CommandCap)'
        BY SMTT(60), <3>1, <4>1, <2>2, ConstantTypes DEF MirrorInv, Mirrored
      <4>4. Attached => (Live.own = (ret = "cleanup"))'
        BY Zenon, <3>1, <2>2 DEF MirrorInv, Mirrored
      <4>5. QED
        BY ZenonT(60), <3>1, <4>2, <4>3, <4>4, <2>2, <1>4 DEF Mirrored
    <3>3. ActiveGenerations'
      BY Zenon, <3>1, <2>2, <1>4 DEF MirrorInv, ActiveGenerations, ActiveGeneration
    <3>4. QED
      BY Zenon, <3>2, <3>3
  <2>3. QED
    BY Zenon, <2>1, <2>2
<1>7. QED
  BY Zenon, <1>2, <1>3, <1>6 DEF MirrorInv

\* What a sender thread does preserves the invariant.
LEMMA SenderPreserves ==
  ASSUME MirrorInv, NEW s \in 1..live, SenderNext(s)
  PROVE  MirrorInv'
<1> DEFINE w == senders[s]
<1>0. TypeOK /\ w \in Sender
  BY SMTT(60) DEF MirrorInv, TypeOK, live
<1>1. /\ w.queue \in Seq(Packet) /\ w.cmd \in Seq(Packet) /\ w.sent \in Seq(Packet)
      /\ w.drops \in Seq(Packet) /\ w.retired \in BOOLEAN /\ w.own \in BOOLEAN
  BY Zenon, <1>0 DEF Sender
<1>2. /\ w.pc \in {"loop", "tick"} => w.cmd = <<>>
      /\ w.pc \in {"holding", "sending", "transmitted"} => Len(w.cmd) = 1
  BY Zenon DEF MirrorInv, HoldsItsCommand
<1>3. s = live => w = Live
  BY Zenon DEF Live
<1>4. s = live /\ Attached => w.drops = <<>>
  BY Zenon, <1>3 DEF MirrorInv, Mirrored
<1> USE DEF srcVars, loopVars, queueVars, boundVars, cmdVars, pumpVars, envVars,
            pcVars, rtpVars, histVars, SenderOnly
<1>5. ASSUME NEW pc \in {"loop", "tick", "holding", "sending", "transmitted", "exited"},
             senders' = [senders EXCEPT ![s].pc = pc],
             pc \in {"loop", "tick"} => w.cmd = <<>>,
             pc \in {"holding", "sending", "transmitted"} => Len(w.cmd) = 1,
             wire' \in SUBSET Frames, faults' \in 0..MaxFaults,
             UNCHANGED <<srcVars, loopVars, queueVars, boundVars, cmdVars, pumpVars,
                         issued, daves, silenced, pcVars, rtpVars, tail>>
      PROVE  MirrorInv'
  <2> DEFINE r == [w EXCEPT !.pc = pc]
  <2>1. r \in Sender
    BY Zenon, <1>0, <1>5 DEF Sender
  <2>2. senders' = [senders EXCEPT ![s] = r]
    BY Zenon, <1>5
  <2>3. /\ r.pc = pc /\ r.queue = w.queue /\ r.cmd = w.cmd /\ r.sent = w.sent
        /\ r.drops = w.drops /\ r.own = w.own
    BY Zenon, <1>0 DEF Sender
  <2> HIDE DEF r
  <2>4. TypeOK'
    BY Zenon, <2>1, <2>2, <1>0, <1>5, SenderTypes DEF TypeOK
  <2>5. InSender(r) = InSender(w)
    BY Zenon, <2>3 DEF InSender
  <2>6. Len(r.queue) <= Len(w.queue)
    BY SMTT(60), <2>3, <1>1
  <2>7. s = live /\ Attached =>
            /\ r.drops = <<>> /\ InSender(r) = InSender(Live) /\ Len(r.queue) <= Len(Live.queue)
            /\ \A i \in DOMAIN r.queue : \E j \in DOMAIN Live.queue : r.queue[i] = Live.queue[j]
    BY Zenon, <2>3, <2>5, <2>6, <1>3, <1>4
  <2>8. UNCHANGED <<source, dpc, ret, why, paused, pending, prepared, boundary, generation>>
    BY Zenon, <1>5
  <2>9. QED
    BY ZenonT(60), <2>1, <2>2, <2>3, <2>4, <2>7, <2>8, <1>5, SenderStep
<1>6. CASE SenderLoop(s)
  <2>1. faults \in 0..MaxFaults /\ wire \in SUBSET Frames
    BY Zenon, <1>0 DEF TypeOK
  <2>2. QED
    BY Zenon, <2>1, <1>5, <1>6, <1>2 DEF SenderLoop
<1>7. CASE SenderEmptyTick(s)
  <2>1. faults \in 0..MaxFaults /\ wire \in SUBSET Frames
    BY Zenon, <1>0 DEF TypeOK
  <2>2. QED
    BY Zenon, <2>1, <1>5, <1>7, <1>2 DEF SenderEmptyTick
<1>8. CASE SenderCheckCursor(s)
  <2>1. faults \in 0..MaxFaults /\ wire \in SUBSET Frames
    BY Zenon, <1>0 DEF TypeOK
  <2>2. QED
    BY ZenonT(60), <2>1, <1>5, <1>8, <1>2 DEF SenderCheckCursor
<1>9. CASE SenderTransmit(s)
  <2>1. faults \in 0..MaxFaults /\ wire \in SUBSET Frames
    BY Zenon, <1>0 DEF TypeOK
  <2>2. w.cmd[1] \in Packet
    BY SMTT(60), <1>1, <1>2, <1>9, SeqElement DEF SenderTransmit
  <2>3. wire' \in SUBSET Frames
    BY Zenon, <2>1, <2>2, <1>9 DEF SenderTransmit, Packet
  <2>4. QED
    BY Zenon, <2>1, <2>3, <1>5, <1>9, <1>2 DEF SenderTransmit
<1>10. CASE SenderSocketError(s)
  <2>1. wire \in SUBSET Frames /\ faults \in 0..MaxFaults
    BY Zenon, <1>0 DEF TypeOK
  <2>2. faults' \in 0..MaxFaults
    BY SMTT(60), <2>1, <1>10, ConstantTypes DEF SenderSocketError
  <2>3. QED
    BY Zenon, <2>1, <2>2, <1>5, <1>10 DEF SenderSocketError
<1>11. CASE SenderTake(s)
  <2> DEFINE r == [w EXCEPT !.pc = "holding", !.cmd = <<Head(w.queue)>>,
                            !.queue = Tail(w.queue)]
  <2>1. w.queue # <<>> /\ Head(w.queue) \in Packet /\ Tail(w.queue) \in Seq(Packet)
    BY Zenon, <1>1, <1>11, TailShape DEF SenderTake
  <2>2. <<Head(w.queue)>> \in Seq(Packet) /\ Len(<<Head(w.queue)>>) = 1
    BY <2>1
  <2>3. r \in Sender
    BY Zenon, <2>1, <2>2, <1>0, <1>1 DEF Sender
  <2>4. senders' = [senders EXCEPT ![s] = r]
    BY Zenon, <1>11 DEF SenderTake
  <2>5. /\ r.pc = "holding" /\ r.queue = Tail(w.queue) /\ r.cmd = <<Head(w.queue)>>
        /\ r.sent = w.sent /\ r.drops = w.drops /\ r.own = w.own
    BY Zenon, <1>0 DEF Sender
  <2> HIDE DEF r
  <2>6. TypeOK'
    BY ZenonT(60), <2>3, <2>4, <1>0, <1>11, SenderTypes DEF TypeOK, SenderTake
  <2>7. w.cmd = <<>>
    BY Zenon, <1>2, <1>11 DEF SenderTake
  <2>8. InSender(r) = InSender(w)
    <3>1. (w.sent \o <<>>) \o w.queue = (w.sent \o <<Head(w.queue)>>) \o Tail(w.queue)
      BY Zenon, <2>1, <1>1, HeadMoves
    <3>2. QED
      BY Zenon, <3>1, <2>5, <2>7 DEF InSender
  <2>9. /\ Len(r.queue) <= Len(w.queue)
        /\ \A i \in DOMAIN r.queue : \E j \in DOMAIN w.queue : r.queue[i] = w.queue[j]
    BY SMTT(60), <2>1, <2>5, <1>1, TailShape
  <2>10. s = live /\ Attached =>
            /\ r.drops = <<>> /\ InSender(r) = InSender(Live) /\ Len(r.queue) <= Len(Live.queue)
            /\ \A i \in DOMAIN r.queue : \E j \in DOMAIN Live.queue : r.queue[i] = Live.queue[j]
    BY Zenon, <2>5, <2>8, <2>9, <1>3, <1>4
  <2>11. UNCHANGED <<source, dpc, ret, why, paused, pending, prepared, boundary, generation>>
    BY Zenon, <1>11 DEF SenderTake
  <2>12. QED
    BY ZenonT(60), <2>2, <2>3, <2>4, <2>5, <2>6, <2>10, <2>11, SenderStep
<1>12. CASE SenderDrop(s)
  <2> DEFINE full == w.retired \/ Len(w.drops) >= RecordCap
             r == [w EXCEPT !.pc = IF full THEN "exited" ELSE "loop",
                            !.queue = Tail(w.queue),
                            !.drops = IF full THEN w.drops ELSE Append(w.drops, Head(w.queue))]
  <2>1. w.queue # <<>> /\ Head(w.queue) \in Packet /\ Tail(w.queue) \in Seq(Packet)
    BY Zenon, <1>1, <1>12, TailShape DEF SenderDrop
  <2>2. Append(w.drops, Head(w.queue)) \in Seq(Packet)
    BY SMTT(60), <2>1, <1>1
  <2> HIDE DEF full
  <2>3. r \in Sender
    BY Zenon, <2>1, <2>2, <1>0, <1>1 DEF Sender
  <2>4. senders' = [senders EXCEPT ![s] = r]
    BY Zenon, <1>12 DEF SenderDrop, full
  <2>5. r.pc \in {"exited", "loop"} /\ r.cmd = w.cmd /\ r.own = w.own
    BY Zenon, <1>0 DEF Sender
  <2> HIDE DEF r
  <2>6. TypeOK'
    BY ZenonT(60), <2>3, <2>4, <1>0, <1>12, SenderTypes DEF TypeOK, SenderDrop
  <2>7. w.cmd = <<>>
    BY Zenon, <1>2, <1>12 DEF SenderDrop
  \* The live sender's packets are of the active generation, unless an
  \* interruption is between its two steps and its flush is still to come.
  <2>8. ~(s = live /\ Attached)
    <3>1. SUFFICES ASSUME s = live, Attached PROVE FALSE
      BY Zenon
    <3>2. CASE dpc # "rebase"
      <4>1. \A i \in DOMAIN w.queue : w.queue[i].gen = ActiveGeneration(w)
        BY Zenon, <3>1, <3>2, <1>3 DEF MirrorInv, ActiveGenerations
      <4>2. 1 \in DOMAIN w.queue /\ Head(w.queue) = w.queue[1]
        BY SMTT(60), <2>1, <1>1
      <4>3. QED
        BY Zenon, <4>1, <4>2, <1>12 DEF SenderDrop
    <3>3. CASE dpc = "rebase"
      <4>1. pending = <<>> /\ boundary = <<>> /\ ret # "cleanup"
        BY Zenon, <3>1, <3>3 DEF MirrorInv, FlushedIsEmpty, Flushed, ControlPoints, Attached
      <4>2. InSender(w) = <<>>
        BY SMTT(60), <3>1, <4>1, <1>3 DEF MirrorInv, Mirrored
      <4>3. w.queue = <<>>
        <5>1. w.sent \o w.cmd \in Seq(Packet)
          BY SMTT(60), <1>1
        <5>2. QED
          BY SMTT(60), <5>1, <4>2, <1>1, ConcatEmpty DEF InSender
      <4>4. QED
        BY Zenon, <4>3, <2>1
    <3>4. QED
      BY Zenon, <3>2, <3>3
  <2>9. QED
    BY ZenonT(60), <2>3, <2>4, <2>5, <2>6, <2>7, <2>8, <1>12, SenderStep DEF SenderDrop
<1>13. CASE SenderCommit(s)
  <2>1. w.pc = "transmitted" /\ w.cmd[1] \in Packet /\ w.cmd = <<w.cmd[1]>>
    BY SMTT(60), <1>1, <1>2, <1>13, SeqElement DEF SenderCommit
  <2>2. CASE w.cmd[1].seq # cursor
    <3>1. faults \in 0..MaxFaults /\ wire \in SUBSET Frames
      BY Zenon, <1>0 DEF TypeOK
    <3>2. QED
      BY Zenon, <2>2, <3>1, <1>5, <1>13 DEF SenderCommit
  <2>3. CASE w.cmd[1].seq = cursor
    <3> DEFINE full == w.retired \/ Len(w.sent) >= RecordCap
               r == [w EXCEPT !.pc = IF full THEN "exited" ELSE "loop",
                              !.cmd = IF full THEN w.cmd ELSE <<>>,
                              !.sent = IF full THEN w.sent ELSE Append(w.sent, w.cmd[1])]
    <3>1. Append(w.sent, w.cmd[1]) \in Seq(Packet) /\ <<>> \in Seq(Packet)
      BY SMTT(60), <2>1, <1>1
    <3>2. senders' = [senders EXCEPT ![s] = r]
      BY Zenon, <2>3, <1>13 DEF SenderCommit
    <3> HIDE DEF full
    <3>3. r \in Sender
      BY Zenon, <3>1, <1>0, <1>1 DEF Sender
    <3>4. /\ r.pc = IF full THEN "exited" ELSE "loop"
          /\ r.cmd = IF full THEN w.cmd ELSE <<>>
          /\ r.sent = IF full THEN w.sent ELSE Append(w.sent, w.cmd[1])
          /\ r.queue = w.queue /\ r.drops = w.drops /\ r.own = w.own
      BY Zenon, <1>0 DEF Sender
    <3> HIDE DEF r
    <3>5. tail' \in Seq(Kinds)
      <4>1. tail \in Seq(Kinds) /\ w.cmd[1].kind \in Kinds
        BY Zenon, <2>1, <1>0 DEF TypeOK, Packet
      <4>2. Append(tail, w.cmd[1].kind) \in Seq(Kinds) /\ Append(tail, w.cmd[1].kind) # <<>>
        BY <4>1, AppendShape
      <4>3. Tail(Append(tail, w.cmd[1].kind)) \in Seq(Kinds)
        BY Zenon, <4>2, TailShape
      <4>4. QED
        BY ZenonT(60), <4>2, <4>3, <2>3, <1>13 DEF SenderCommit
    <3>6. cursor' \in Nat /\ UNCHANGED <<generation, reserved, speaking, wire>>
      <4>1. cursor \in Nat
        BY Zenon, <1>0 DEF TypeOK
      <4>2. QED
        BY SMTT(60), <4>1, <2>3, <1>13, AdvanceNat DEF SenderCommit
    <3>7. TypeOK'
      BY ZenonT(60), <3>2, <3>3, <3>5, <3>6, <1>0, <1>13, SenderTypes DEF TypeOK, SenderCommit
    <3>8. InSender(r) = InSender(w)
      <4>1. CASE full
        BY Zenon, <4>1, <3>4 DEF InSender
      <4>2. CASE ~full
        <5>1. Append(w.sent, w.cmd[1]) = w.sent \o w.cmd
          BY ZenonT(60), <2>1, <1>1, AppendLast
        <5>2. (w.sent \o w.cmd) \o <<>> = w.sent \o w.cmd
          BY Zenon, <1>1, ConcatNothing, ConcatShape
        <5>3. QED
          BY ZenonT(60), <4>2, <5>1, <5>2, <3>4 DEF InSender
      <4>3. QED
        BY Zenon, <4>1, <4>2
    <3>9. Len(r.queue) <= Len(w.queue)
      BY SMTT(60), <3>4, <1>1
    <3>10. QED
      BY ZenonT(60), <3>2, <3>3, <3>4, <3>6, <3>7, <3>8, <3>9, <1>3, <1>4, <1>13, SenderStep
      DEF SenderCommit
  <2>4. QED
    BY Zenon, <2>2, <2>3
<1>14. QED
  BY Zenon, <1>6, <1>7, <1>8, <1>9, <1>10, <1>11, <1>12, <1>13 DEF SenderNext

-----------------------------------------------------------------------------
(* The producer, the metrics pump and the callers.                         *)

\* What the producer task does preserves the invariant.
LEMMA ProducerPreserves ==
  ASSUME MirrorInv, ProducerNext
  PROVE  MirrorInv'
<1> USE DEF srcVars, loopVars, queueVars, boundVars, cmdVars, pumpVars,
            pcVars, rtpVars, histVars, ProducerOnly
<1>0. TypeOK /\ SourceFits /\ ControlPoints
  BY Zenon DEF MirrorInv
<1>1. source \in Seq(Frames) /\ Len(source) \in Nat /\ Len(source) <= SourceTarget
  BY SMTT(60), <1>0 DEF TypeOK, SourceFits
<1>2. UNCHANGED <<senders, pending, prepared, boundary, generation, dpc, ret, why, paused>>
  BY Zenon DEF ProducerNext, ProducerCheck, ProducerAwait, ProducerRefill, ProducerError
<1>3. ControlPoints' /\ (Attached' <=> Attached) /\ (Flushed' <=> Flushed)
  BY Zenon, <1>0, <1>2 DEF ControlPoints, Attached, Flushed
<1>4. SUFFICES TypeOK' /\ SourceFits'
  BY Zenon, <1>2, <1>3, QueuesUntouched
<1>5. CASE ProducerCheck
  <2>1. RefillSize \in Nat
    BY SMTT(60), <1>1, ConstantTypes DEF RefillSize, Most
  <2>2. refill' \in Nat /\ ppc' \in {"await", "done", "fill"}
    BY Zenon, <2>1, <1>0, <1>5 DEF TypeOK, ProducerCheck
  <2>3. QED
    BY SMTT(60), <2>2, <1>0, <1>5 DEF TypeOK, SourceFits, ProducerCheck
<1>6. CASE ProducerAwait
  BY SMTT(60), <1>0, <1>6 DEF TypeOK, SourceFits, ProducerAwait
<1>7. CASE ProducerError
  <2>1. faults' \in 0..MaxFaults
    <3>1. faults \in 0..MaxFaults
      BY Zenon, <1>0 DEF TypeOK
    <3>2. QED
      BY SMTT(60), <3>1, <1>7, ConstantTypes DEF ProducerError
  <2>2. QED
    BY SMTT(60), <2>1, <1>0, <1>7 DEF TypeOK, SourceFits, ProducerError
<1>8. CASE ProducerRefill
  <2> DEFINE n == Least(refill, NFrames - produced)
             fit == Least(n, SourceTarget - Len(source))
             batch == [i \in 1..fit |-> produced + i]
  <2>1. produced \in 0..NFrames /\ refill \in Nat /\ NFrames \in Nat /\ SourceTarget \in Nat
    BY Zenon, <1>0, ConstantTypes DEF TypeOK
  <2>2. n \in 0..(NFrames - produced) /\ fit \in 0..n /\ fit <= SourceTarget - Len(source)
    BY SMTT(60), <2>1, <1>1 DEF Least
  <2>3. source' = source \o batch /\ produced' = produced + n
    BY Zenon, <1>8 DEF ProducerRefill
  <2>4. /\ srcError' \in BOOLEAN /\ eos' \in BOOLEAN /\ ppc' \in {"check", "done"}
        /\ refill' = refill /\ faults' = faults
    BY SMTT(60), <1>8 DEF ProducerRefill
  <2> HIDE DEF n, fit
  <2>5. batch \in Seq(Frames) /\ Len(batch) = fit
    <3>1. fit \in Nat /\ \A i \in 1..fit : produced + i \in Frames
      BY SMTT(60), <2>1, <2>2 DEF Frames
    <3>2. batch \in [1..fit -> Frames]
      BY Zenon, <3>1
    <3>3. QED
      BY SMTT(60), <3>1, <3>2
  <2> HIDE DEF batch
  <2>6. source' \in Seq(Frames) /\ Len(source') = Len(source) + fit
    BY ZenonT(60), <2>3, <2>5, <1>1, ConcatShape
  <2>7. SourceFits'
    BY SMTT(60), <2>1, <2>2, <2>6, <1>1 DEF SourceFits
  <2>8. produced' \in 0..NFrames
    BY SMTT(60), <2>1, <2>2, <2>3
  <2>9. QED
    BY SMTT(60), <2>4, <2>6, <2>7, <2>8, <1>0, <1>8 DEF TypeOK, ProducerRefill
<1>9. QED
  BY Zenon, <1>5, <1>6, <1>7, <1>8 DEF ProducerNext

\* So do the pump of send_playback_frames and the callers' commands.
LEMMA ControlPreserves ==
  ASSUME MirrorInv, PumpNext \/ ControlNext
  PROVE  MirrorInv'
<1> USE DEF srcVars, loopVars, queueVars, boundVars, cmdVars, pumpVars, envVars,
            pcVars, rtpVars, histVars
<1>0. TypeOK /\ SourceFits /\ ControlPoints
  BY Zenon DEF MirrorInv
<1>1. UNCHANGED <<senders, pending, prepared, boundary, generation, dpc, ret, why, paused, source>>
  BY Zenon DEF PumpNext, ControlNext, PumpMetric, PumpStop, SendMediaCommand, Interrupt
<1>2. ControlPoints' /\ SourceFits' /\ (Attached' <=> Attached) /\ (Flushed' <=> Flushed)
  BY Zenon, <1>0, <1>1 DEF ControlPoints, SourceFits, Attached, Flushed
<1>3. SUFFICES TypeOK'
  BY Zenon, <1>1, <1>2, QueuesUntouched
<1>4. CASE PumpMetric
  <2>1. mq' \in Nat /\ position' \in Nat
    BY SMTT(60), <1>0, <1>4 DEF TypeOK, PumpMetric
  <2>2. QED
    BY SMTT(60), <2>1, <1>0, <1>4 DEF TypeOK, PumpMetric
<1>5. CASE PumpStop
  <2>1. cmds' \in Seq({"Pause", "Resume", "Stop"})
    BY SMTT(60), <1>0, <1>5 DEF TypeOK, PumpStop
  <2>2. QED
    BY SMTT(60), <2>1, <1>0, <1>5 DEF TypeOK, PumpStop
<1>6. ASSUME NEW command \in {"Pause", "Resume", "Stop"}, SendMediaCommand(command)
      PROVE  TypeOK'
  <2>1. cmds' \in Seq({"Pause", "Resume", "Stop"})
    BY SMTT(60), <1>0, <1>6 DEF TypeOK, SendMediaCommand
  <2>2. issued' \in 0..MaxCommands
    <3>1. issued \in 0..MaxCommands
      BY Zenon, <1>0 DEF TypeOK
    <3>2. QED
      BY SMTT(60), <3>1, <1>6, ConstantTypes DEF SendMediaCommand
  <2>3. QED
    BY SMTT(60), <2>1, <2>2, <1>0, <1>6 DEF TypeOK, SendMediaCommand
<1>7. CASE Interrupt
  <2>1. issued' \in 0..MaxCommands
    <3>1. issued \in 0..MaxCommands
      BY Zenon, <1>0 DEF TypeOK
    <3>2. QED
      BY SMTT(60), <3>1, <1>7, ConstantTypes DEF Interrupt
  <2>2. current' \in BOOLEAN
    BY ZenonT(60), <1>7 DEF Interrupt
  <2>3. UNCHANGED <<srcVars, loopVars, queueVars, boundVars, cmds, rtpVars, senders,
                    pumpVars, daves, faults, silenced, histVars, pcVars>>
    BY Zenon, <1>7 DEF Interrupt
  <2>4. QED
    BY SMTT(60), <2>1, <2>2, <2>3, <1>0 DEF TypeOK
<1>8. QED
  BY Zenon, <1>4, <1>5, <1>6, <1>7 DEF PumpNext, ControlNext

-----------------------------------------------------------------------------
(* The driver's steps that only move its control point.                    *)

\* Types of what most driver steps leave alone or set to a constant.
LEMMA DriverMovesPreserve ==
  ASSUME MirrorInv,
         DriverTop \/ DriverDrained \/ DriverCommandsDone \/ DriverSlot
           \/ DriverRecheck \/ ObserveExit \/ DriverCommand
  PROVE  MirrorInv'
<1> USE DEF srcVars, loopVars, queueVars, boundVars, cmdVars, pumpVars, envVars,
            pcVars, rtpVars, histVars, DriverOnly
<1>0. TypeOK /\ SourceFits /\ ControlPoints
  BY Zenon DEF MirrorInv
<1>1. CASE DriverTop
  <2>1. TypeOK' /\ SourceFits'
    BY SMTT(60), <1>0, <1>1 DEF TypeOK, SourceFits, DriverTop
  <2>2. ControlPoints'
    BY Zenon, <1>0, <1>1 DEF ControlPoints, DriverTop
  <2>3. Flushed' => Flushed
    BY Zenon, <1>0, <1>1 DEF Flushed, Attached, ControlPoints, DriverTop
  <2>4. QED
    BY ZenonT(60), <2>1, <2>2, <2>3, <1>0, <1>1, QueuesUntouched DEF Attached, ControlPoints, DriverTop
<1>2. CASE DriverDrained
  <2>1. TypeOK' /\ SourceFits'
    BY SMTT(60), <1>0, <1>2 DEF TypeOK, SourceFits, DriverDrained
  <2>2. /\ dpc = "drain" /\ UNCHANGED <<ret, paused, boundary>>
        /\ \/ ret = "rebuild" /\ dpc' = "invalidate" /\ why' = "dave"
           \/ ret # "rebuild" /\ dpc' = "cmd1" /\ why' = why
    BY ZenonT(60), <1>2 DEF DriverDrained
  <2>3. ControlPoints'
    BY Zenon, <2>2, <1>0 DEF ControlPoints
  <2>4. Flushed' => Flushed
    <3>1. SUFFICES ASSUME Flushed' PROVE Flushed
      BY Zenon
    <3>2. paused' /\ ret' # "cleanup"
      BY Zenon, <3>1, <2>2 DEF Flushed
    <3>3. QED
      BY Zenon, <3>2, <2>2 DEF Flushed, Attached
  <2>5. UNCHANGED <<senders, pending, prepared, boundary, generation>>
    BY Zenon, <1>2 DEF DriverDrained
  <2>6. Attached /\ dpc # "rebase" /\ ret' = ret
    BY Zenon, <2>2 DEF Attached
  <2>7. QED
    BY ZenonT(60), <2>1, <2>3, <2>4, <2>5, <2>6, QueuesUntouched
<1>3. CASE DriverCommandsDone
  <2>1. TypeOK' /\ SourceFits'
    <3>1. sourceEnded' \in BOOLEAN /\ dpc' \in {"paused", "slot"}
      BY Zenon, <1>3 DEF DriverCommandsDone
    <3>2. QED
      BY SMTT(60), <3>1, <1>0, <1>3 DEF TypeOK, SourceFits, DriverCommandsDone
  <2>2. ControlPoints'
    BY Zenon, <1>0, <1>3 DEF ControlPoints, DriverCommandsDone
  <2>3. Flushed' => Flushed
    BY Zenon, <1>0, <1>3 DEF Flushed, Attached, ControlPoints, DriverCommandsDone
  <2>4. QED
    BY ZenonT(60), <2>1, <2>2, <2>3, <1>0, <1>3, QueuesUntouched
    DEF Attached, ControlPoints, DriverCommandsDone
<1>4. CASE DriverSlot
  <2>1. TypeOK' /\ SourceFits'
    <3>1. daves' \in 0..MaxDave
      <4>1. daves \in 0..MaxDave
        BY Zenon, <1>0 DEF TypeOK
      <4>2. QED
        BY SMTT(60), <4>1, <1>4, ConstantTypes DEF DriverSlot
    <3>2. settled' \in BOOLEAN /\ dpc' \in {"fill", "drain"} /\ ret' \in {ret, "rebuild"}
      BY ZenonT(60), <1>4 DEF DriverSlot
    <3>3. UNCHANGED <<srcVars, paused, sourceEnded, underrun, result, queueVars, boundVars,
                      cmdVars, rtpVars, senders, pumpVars, issued, faults, silenced, histVars,
                      why>>
      BY ZenonT(60), <1>4 DEF DriverSlot
    <3>4. QED
      BY SMTT(60), <3>1, <3>2, <3>3, <1>0 DEF TypeOK, SourceFits
  <2>2. ControlPoints'
    BY Zenon, <1>0, <1>4 DEF ControlPoints, DriverSlot
  <2>3. Flushed' => Flushed
    BY Zenon, <1>0, <1>4 DEF Flushed, Attached, ControlPoints, DriverSlot
  <2>4. QED
    BY ZenonT(60), <2>1, <2>2, <2>3, <1>0, <1>4, QueuesUntouched DEF Attached, ControlPoints, DriverSlot
<1>5. CASE DriverRecheck
  <2>1. TypeOK' /\ SourceFits'
    BY SMTT(60), <1>0, <1>5 DEF TypeOK, SourceFits, DriverRecheck
  <2>2. ControlPoints'
    BY Zenon, <1>0, <1>5 DEF ControlPoints, DriverRecheck
  <2>3. Flushed' => Flushed
    BY Zenon, <1>0, <1>5 DEF Flushed, Attached, ControlPoints, DriverRecheck
  <2>4. QED
    BY ZenonT(60), <2>1, <2>2, <2>3, <1>0, <1>5, QueuesUntouched DEF Attached, ControlPoints, DriverRecheck
<1>6. CASE ObserveExit
  <2>1. TypeOK' /\ SourceFits'
    BY SMTT(60), <1>0, <1>6 DEF TypeOK, SourceFits, ObserveExit
  <2>2. HoldsItsCommand' /\ boundary' = <<>> /\ ret # "cleanup"
    BY ZenonT(60), <1>0, <1>6 DEF MirrorInv, HoldsItsCommand, live, ControlPoints, ObserveExit
  <2>3. QED
    BY ZenonT(60), <2>1, <2>2, <1>6, Detached DEF ObserveExit
<1>7. CASE DriverCommand
  <2>1. /\ cmds' \in Seq({"Pause", "Resume", "Stop"})
        /\ Head(cmds) \in {"Pause", "Resume", "Stop"}
    BY ZenonT(60), <1>0, <1>7, TailShape DEF TypeOK, DriverCommand
  <2>2. ret' = (IF dpc = "select" THEN "top" ELSE dpc)
    BY Zenon, <1>7 DEF DriverCommand
  <2>3. /\ paused' \in BOOLEAN /\ speaking' \in BOOLEAN
        /\ why' \in {"pause", "stop", why}
        /\ dpc' \in {"invalidate", "top", dpc}
    BY ZenonT(60), <1>0, <1>7 DEF TypeOK, DriverCommand
  <2>4. dpc \in {"cmd1", "cmd2", "select", "paused"}
    BY ZenonT(60), <1>7 DEF DriverCommand
  <2>5. TypeOK' /\ SourceFits'
    <3>1. UNCHANGED <<srcVars, sourceEnded, underrun, settled, result, queueVars, boundVars,
                      current, generation, reserved, cursor, senders, pumpVars, envVars, histVars>>
      BY ZenonT(60), <1>7 DEF DriverCommand
    <3>2. ret' \in {"cmd1", "cmd2", "top", "paused"}
      BY Zenon, <2>2, <2>4
    <3>3. QED
      BY SMTT(60), <3>1, <3>2, <2>1, <2>3, <2>4, <1>0 DEF TypeOK, SourceFits
  <2>6. ret # "cleanup" /\ ret' # "cleanup"
    BY ZenonT(60), <2>2, <2>4, <1>0 DEF ControlPoints
  <2>7. /\ dpc' \in {"invalidate", "top", "cmd1", "cmd2", "paused"}
        /\ dpc' = "invalidate" => why' \in {"pause", "stop"} /\ UNCHANGED paused
        /\ paused' => paused
    BY SMTT(60), <2>4, <1>7 DEF DriverCommand
  <2>8. ControlPoints'
    BY ZenonT(60), <2>2, <2>4, <2>6, <2>7, <1>0, <1>7 DEF ControlPoints, DriverCommand
  <2>9. Attached /\ (Flushed' => Flushed)
    BY Zenon, <2>4, <2>6, <2>7 DEF Flushed, Attached
  <2>10. UNCHANGED <<senders, pending, prepared, boundary, generation>>
    BY Zenon, <1>7 DEF DriverCommand
  <2>11. QED
    BY Zenon, <2>4, <2>5, <2>6, <2>8, <2>9, <2>10, QueuesUntouched
<1>8. QED
  BY Zenon, <1>1, <1>2, <1>3, <1>4, <1>5, <1>6, <1>7

-----------------------------------------------------------------------------
(* The driver's steps that end run_loop.                                   *)

\* The ends of run_loop that follow from an error or from staleness alone.
LEMMA DriverEndsPreserve ==
  ASSUME MirrorInv,
         DriverSourceError \/ DriverSenderGone \/ DriverPausedStale
  PROVE  MirrorInv'
<1> USE DEF srcVars, loopVars, queueVars, boundVars, cmdVars, pumpVars, envVars,
            pcVars, rtpVars, histVars, DriverOnly
<1>0. TypeOK /\ SourceFits /\ ControlPoints
  BY Zenon DEF MirrorInv
<1>1. dpc \in {"drain", "fill", "select", "paused"}
  BY Zenon DEF DriverSourceError, DriverSenderGone, DriverPausedStale
<1>2. boundary = <<>> /\ ret # "cleanup"
  BY Zenon, <1>0, <1>1 DEF ControlPoints
<1>3. \E outcome \in {"natural", "stopped", "error"} : Exit(outcome)
  BY Zenon DEF DriverSourceError, DriverSenderGone, DriverPausedStale
<1>4. /\ srcError' \in BOOLEAN
      /\ UNCHANGED <<source, ppc, paused, sourceEnded, underrun, settled, egress, prepared,
                     pending, boundary, bsent, generation, reserved, speaking, mq, discarded,
                     daves, faults, cmds, produced, refill, eos, current, cursor, position,
                     issued, silenced, wire, tail>>
  BY ZenonT(60), <1>0 DEF DriverSourceError, DriverSenderGone, DriverPausedStale, TypeOK
<1>5. /\ source' \in Seq(Frames) /\ Len(source') <= SourceTarget
      /\ ppc' \in {"check", "await", "waiting", "fill", "done"}
      /\ egress' \in Seq(Frames) /\ prepared' \in Seq(Packet) /\ pending' \in Seq(Packet)
      /\ bsent' \in Nat /\ cmds' \in Seq({"Pause", "Resume", "Stop"}) /\ reserved' \in Nat
      /\ faults' \in 0..MaxFaults /\ silenced' \in 0..MaxSilence
      /\ boundary' = <<>>
  BY Zenon, <1>0, <1>2, <1>4 DEF TypeOK, SourceFits
<1>6. paused' \in BOOLEAN /\ sourceEnded' \in BOOLEAN /\ underrun' \in BOOLEAN
      /\ speaking' \in BOOLEAN
  BY Zenon, <1>0, <1>4 DEF TypeOK
<1>7. QED
  BY Zenon, <1>2, <1>3, <1>4, <1>5, <1>6, ExitPreserves

\* The gateway fails under the driver or under the cleanup's boundary.
LEMMA GatewayErrorPreserves ==
  ASSUME MirrorInv, DriverGatewayError
  PROVE  MirrorInv'
<1> USE DEF srcVars, loopVars, queueVars, boundVars, cmdVars, pumpVars, envVars,
            pcVars, rtpVars, histVars, DriverOnly
<1>0. TypeOK /\ SourceFits /\ ControlPoints /\ HoldsItsCommand
  BY Zenon DEF MirrorInv
<1>1. boundary = <<>> /\ (dpc # "bound" => ret # "cleanup")
  BY Zenon, <1>0 DEF ControlPoints, DriverGatewayError
<1>2. UNCHANGED <<source, ppc, sourceEnded, underrun, settled, egress, prepared,
                  pending, boundary, bsent, generation, reserved, speaking, mq, discarded,
                  daves, produced, refill, eos, srcError, current, cursor, position,
                  issued, silenced, wire, tail>>
  BY Zenon DEF DriverGatewayError
<1>3. /\ source' \in Seq(Frames) /\ Len(source') <= SourceTarget
      /\ ppc' \in {"check", "await", "waiting", "fill", "done"}
      /\ egress' \in Seq(Frames) /\ prepared' \in Seq(Packet) /\ pending' \in Seq(Packet)
      /\ bsent' \in Nat /\ reserved' \in Nat
      /\ silenced' \in 0..MaxSilence /\ boundary' = <<>>
  BY Zenon, <1>0, <1>1, <1>2 DEF TypeOK, SourceFits
<1>4. /\ sourceEnded' \in BOOLEAN /\ underrun' \in BOOLEAN
      /\ speaking' \in BOOLEAN /\ srcError' \in BOOLEAN
  BY Zenon, <1>0, <1>2 DEF TypeOK
<1>5. faults' \in 0..MaxFaults
  <2>1. faults \in 0..MaxFaults
    BY Zenon, <1>0 DEF TypeOK
  <2>2. QED
    BY SMTT(60), <2>1, ConstantTypes DEF DriverGatewayError
<1>6. cmds' \in Seq({"Pause", "Resume", "Stop"}) /\ paused' \in BOOLEAN
  <2>1. cmds \in Seq({"Pause", "Resume", "Stop"}) /\ paused \in BOOLEAN
    BY Zenon, <1>0 DEF TypeOK
  <2>2. cmds' = cmds \/ (cmds # <<>> /\ cmds' = Tail(cmds))
    BY Zenon DEF DriverGatewayError
  <2>3. paused' = paused \/ paused' = FALSE
    BY Zenon DEF DriverGatewayError
  <2>4. QED
    BY ZenonT(60), <2>1, <2>2, <2>3, TailShape
<1>7. CASE Exit("error") /\ ret # "cleanup"
  BY Zenon, <1>2, <1>3, <1>4, <1>5, <1>6, <1>7, ExitPreserves
<1>8. CASE BoundaryFails /\ ret = "cleanup"
  <2>1. /\ senders' = [senders EXCEPT ![live] = Retired(@)]
        /\ dpc' = "returned" /\ UNCHANGED <<ret, why, result>>
    BY Zenon, <1>8 DEF BoundaryFails
  <2>2. senders' \in Seq(Sender) /\ senders' # <<>> /\ HoldsItsCommand'
    BY Zenon, <2>1, <1>0, RetiredLive
  <2>3. <<>> \in Seq(Packet)
    BY SMTT(60)
  <2>4. TypeOK'
    <3>1. dpc' = "returned" /\ UNCHANGED <<ret, why, result>>
      BY ZenonT(60), <2>1
    <3>2. QED
      BY SMTT(60), <3>1, <2>2, <2>3, <1>0, <1>2, <1>3, <1>4, <1>5, <1>6 DEF TypeOK
  <2>5. QED
    BY Zenon, <2>1, <2>2, <2>4, <1>3, Detached DEF SourceFits
<1>9. QED
  BY Zenon, <1>1, <1>7, <1>8 DEF DriverGatewayError, BoundaryFails

\* A step that changes nothing.
LEMMA StutterPreserves ==
  ASSUME MirrorInv, UNCHANGED vars
  PROVE  MirrorInv'
<1>1. UNCHANGED <<source, eos, srcError, produced, ppc, refill, dpc, ret, why, paused,
                  sourceEnded, underrun, settled, result, egress, prepared, pending, boundary,
                  bsent, cmds, current, generation, reserved, cursor, speaking, senders, mq,
                  position, discarded, issued, daves, faults, silenced, wire, tail>>
  BY Zenon DEF vars, srcVars, loopVars, queueVars, boundVars, cmdVars, rtpVars, pumpVars,
                  envVars, histVars, pcVars
<1>2. TypeOK' /\ SourceFits' /\ ControlPoints'
  <2>1. TypeOK /\ SourceFits /\ ControlPoints
    BY Zenon DEF MirrorInv
  <2>2. TypeOK'
    BY SMTT(60), <2>1, <1>1 DEF TypeOK
  <2>3. SourceFits' /\ ControlPoints'
    BY Zenon, <2>1, <1>1 DEF SourceFits, ControlPoints
  <2>4. QED
    BY Zenon, <2>2, <2>3
<1>3. (Attached' <=> Attached) /\ (Flushed' <=> Flushed)
  BY Zenon, <1>1 DEF Attached, Flushed
<1>4. QED
  BY Zenon, <1>1, <1>2, <1>3, QueuesUntouched

-----------------------------------------------------------------------------
(* Accounting the sender's outcomes.                                       *)

\* A record is accounted against the head of the pending commands: the two
\* always match, so the error branch of account_deadline_outcome is not taken.
LEMMA OutcomePreserves ==
  ASSUME MirrorInv, DriverDrainOutcome \/ DriverSelectOutcome
  PROVE  MirrorInv'
<1> USE DEF srcVars, loopVars, queueVars, boundVars, cmdVars, pumpVars, envVars,
            pcVars, rtpVars, histVars, DriverOnly, OutcomeOnly
<1>0. TypeOK /\ SourceFits /\ ControlPoints
  BY Zenon DEF MirrorInv
<1>1. dpc \in {"drain", "select"} /\ Attached /\ ret # "cleanup"
  BY Zenon, <1>0 DEF DriverDrainOutcome, DriverSelectOutcome, Attached, ControlPoints
<1>2. /\ Live \in Sender /\ Live.sent \in Seq(Packet) /\ Live.cmd \in Seq(Packet)
      /\ Live.queue \in Seq(Packet) /\ Live.drops = <<>>
      /\ pending \in Seq(Packet) /\ boundary = <<>>
      /\ InSender(Live) = pending /\ Len(Live.queue) <= CommandCap
  BY ZenonT(60), <1>1, AttachedFacts
<1>3. AccountSent /\ OutcomeOnly
  BY Zenon, <1>2 DEF DriverDrainOutcome, DriverSelectOutcome, AccountDropped
<1>4. Live.sent # <<>>
  BY Zenon, <1>3 DEF AccountSent
<1>5. /\ pending # <<>> /\ Head(pending) = Head(Live.sent)
      /\ Tail(pending) = (Tail(Live.sent) \o Live.cmd) \o Live.queue
  <2> DEFINE a == Live.sent
             b == Live.cmd
             c == Live.queue
  <2>1. pending = (a \o b) \o c
    BY Zenon, <1>2 DEF InSender
  <2>2. a \in Seq(Packet) /\ b \in Seq(Packet) /\ c \in Seq(Packet) /\ a # <<>>
    BY Zenon, <1>2, <1>4
  <2>3. SUFFICES /\ pending # <<>> /\ Head(pending) = Head(a)
                 /\ Tail(pending) = (Tail(a) \o b) \o c
    BY ZenonT(60)
  <2> HIDE DEF a, b, c
  <2>4. /\ (a \o b) \o c # <<>> /\ Head((a \o b) \o c) = Head(a)
        /\ Tail((a \o b) \o c) = (Tail(a) \o b) \o c
    BY SMTT(60), <2>2, HeadLeaves
  <2>5. QED
    BY Zenon, <2>1, <2>4
<1>6. /\ senders' = [senders EXCEPT ![live].sent = Tail(@)]
      /\ pending' = Tail(pending) /\ mq' \in {mq, mq + 1}
      /\ dpc' \in {dpc, "top"} /\ dpc' # "select"
      /\ UNCHANGED <<ret, why, result, egress, source, ppc, discarded>>
  BY Zenon, <1>1, <1>3, <1>5 DEF AccountSent, MatchesSent
<1> DEFINE r == [Live EXCEPT !.sent = Tail(Live.sent)]
<1>7. Tail(Live.sent) \in Seq(Packet) /\ Tail(pending) \in Seq(Packet)
  BY Zenon, <1>2, <1>4, <1>5, TailShape
<1>8. /\ r \in Sender /\ r.sent = Tail(Live.sent) /\ r.pc = Live.pc /\ r.cmd = Live.cmd
      /\ r.queue = Live.queue /\ r.drops = Live.drops /\ r.own = Live.own
  BY Zenon, <1>2, <1>7 DEF Sender
<1>9. senders' = [senders EXCEPT ![live] = r]
  BY Zenon, <1>6 DEF Live
<1> HIDE DEF r
<1>10. senders' \in Seq(Sender) /\ senders' # <<>>
  BY ZenonT(60), <1>0, <1>8, <1>9, LiveUpdate
<1>11. TypeOK'
  <2>1. mq' \in Nat
    <3>1. mq \in Nat
      BY Zenon, <1>0 DEF TypeOK
    <3>2. QED
      BY <3>1, <1>6
  <2>2. dpc' \in {"drain", "top"} /\ pending' \in Seq(Packet)
    BY Zenon, <1>1, <1>6, <1>7
  <2>3. UNCHANGED <<ret, why, result, egress, source, ppc, discarded>>
    BY Zenon, <1>6
  <2>4. QED
    BY SMTT(60), <2>1, <2>2, <2>3, <1>0, <1>3, <1>10 DEF TypeOK
<1>12. SourceFits' /\ ControlPoints'
  BY Zenon, <1>0, <1>1, <1>3, <1>6 DEF SourceFits, ControlPoints
<1>13. InSender(r) = pending' \o <<>>
  <2>1. pending' \o <<>> = pending'
    BY Zenon, <1>6, <1>7, ConcatNothing
  <2>2. QED
    BY Zenon, <2>1, <1>5, <1>6, <1>8 DEF InSender
<1>14. Flushed' => pending' = <<>> /\ prepared' = <<>>
  <2>1. ~Flushed
    BY Zenon, <1>5 DEF MirrorInv, FlushedIsEmpty
  <2>2. Flushed' => Flushed
    BY Zenon, <1>1, <1>3, <1>6 DEF Flushed, Attached
  <2>3. QED
    BY Zenon, <2>1, <2>2
<1>15. /\ \A i \in DOMAIN Live.queue : Live.queue[i].gen = ActiveGeneration(Live)
       /\ \A i \in DOMAIN prepared : prepared[i].gen = generation
  BY Zenon, <1>1 DEF MirrorInv, ActiveGenerations
<1>16. dpc # "rebase" /\ dpc' # "rebase" /\ ret' = ret /\ boundary' = <<>>
       /\ UNCHANGED <<generation, prepared>>
  BY Zenon, <1>1, <1>2, <1>3, <1>6
<1>17. QED
  BY ZenonT(60), <1>1, <1>2, <1>8, <1>9, <1>11, <1>12, <1>13, <1>14, <1>15, <1>16, LiveStep

-----------------------------------------------------------------------------
(* Filling the sender's queue.                                             *)

\* A batch goes behind the queued commands and behind the pending ones.
LEMMA EnqueueMirrors ==
  ASSUME MirrorInv, Attached, ret # "cleanup", dpc # "boundWait", dpc # "rebase",
         NEW batch \in Seq(CurrentPackets), Len(Live.queue) + Len(batch) <= CommandCap,
         senders' = [senders EXCEPT ![live].queue = @ \o batch],
         pending' = pending \o batch, boundary' = boundary,
         prepared' \in Seq(CurrentPackets), ~Flushed',
         senders' \in Seq(Sender) /\ senders' # <<>> => TypeOK',
         SourceFits', ControlPoints', dpc' # "rebase", ret' = ret, generation' = generation
  PROVE  MirrorInv'
<1>1. /\ Live \in Sender /\ Live.sent \in Seq(Packet) /\ Live.cmd \in Seq(Packet)
      /\ Live.queue \in Seq(Packet) /\ Live.drops = <<>> /\ Live.own = FALSE
      /\ pending \in Seq(Packet) /\ boundary = <<>> /\ InSender(Live) = pending
  BY Zenon, AttachedFacts
<1>2. batch \in Seq(Packet)
  BY Zenon, CurrentElements
<1> DEFINE q == Live.queue \o batch
           r == [Live EXCEPT !.queue = q]
<1>3. q \in Seq(Packet) /\ Len(q) = Len(Live.queue) + Len(batch)
  BY SMTT(60), <1>1, <1>2, ConcatShape
<1>4. senders' = [senders EXCEPT ![live] = r]
  BY Zenon DEF Live
<1> HIDE DEF q
<1>5. /\ r \in Sender /\ r.queue = q /\ r.pc = Live.pc /\ r.cmd = Live.cmd
      /\ r.sent = Live.sent /\ r.drops = Live.drops /\ r.own = Live.own
  BY Zenon, <1>1, <1>3 DEF Sender
<1> HIDE DEF r
<1>6. TypeOK'
  BY ZenonT(60), <1>4, <1>5, LiveUpdate DEF MirrorInv
<1>7. InSender(r) = pending' \o boundary'
  <2> DEFINE a == Live.sent \o Live.cmd
             c == Live.queue
  <2>1. a \in Seq(Packet) /\ c \in Seq(Packet)
    BY Zenon, <1>1, ConcatShape
  <2>2. InSender(r) = a \o (c \o batch) /\ pending = a \o c
    BY Zenon, <1>1, <1>5 DEF InSender, q
  <2> HIDE DEF a, c
  <2>3. a \o (c \o batch) = (a \o c) \o batch
    BY SMTT(60), <2>1, <1>2, PacketsAssociate
  <2>4. pending' \in Seq(Packet)
    BY Zenon, <1>1, <1>2, ConcatShape
  <2>5. pending' \o <<>> = pending'
    BY Zenon, <2>4, ConcatNothing
  <2>6. QED
    BY Zenon, <2>2, <2>3, <2>5, <1>1
<1>8. \A i \in DOMAIN r.queue : r.queue[i].gen = ActiveGeneration(Live)
  <2>1. ActiveGeneration(Live) = generation
    BY Zenon, <1>1 DEF ActiveGeneration
  <2>2. Live.queue \in Seq(CurrentPackets)
    <3>1. \A i \in DOMAIN Live.queue : Live.queue[i].gen = generation
      BY Zenon, <2>1 DEF MirrorInv, ActiveGenerations
    <3>2. \A i \in DOMAIN Live.queue : Live.queue[i] \in CurrentPackets
      BY Zenon, <3>1, <1>1, SeqShape DEF CurrentPackets
    <3>3. QED
      BY Zenon, <3>2, <1>1, SeqNarrows
  <2>3. q \in Seq(CurrentPackets)
    BY Zenon, <2>2, ConcatShape DEF q
  <2>4. QED
    BY Zenon, <2>1, <2>3, <1>5, CurrentElements
<1>9. \A i \in DOMAIN prepared' : prepared'[i].gen = generation
  BY Zenon, CurrentElements
<1>10. QED
  BY Zenon, <1>1, <1>3, <1>4, <1>5, <1>6, <1>7, <1>8, <1>9, LiveStep

\* fill_prepared_playout_queue and what follows it.
LEMMA FillPreserves ==
  ASSUME MirrorInv, DriverFill, FramesTyped, CountsTyped
  PROVE  MirrorInv'
<1> DEFINE room == Room
           pool == Pool
           n == Least(room, Len(pool))
           popped == Most(n - Len(egress), 0)
           polled == ~sourceEnded /\ Len(egress) < room
           ended == sourceEnded \/ (eos /\ n < room)
           starved == underrun /\ popped = 0
           tracks == [i \in 1..n |->
                        NewPacket("Track", pool[i], Advance(reserved, i - 1), generation)]
           ready == prepared \o tracks
           m == Least(Len(ready), CommandCap - Len(Live.queue))
           pumped == FirstN(ready, m)
           k == IF starved /\ ~ended
                THEN SilencesDue(pending \o pumped, Len(Live.queue) + m) ELSE 0
           batch == pumped \o Silences(k, Advance(reserved, n))
           closed == Live.pc = "exited" /\ batch # <<>>
<1>1. /\ dpc = "fill"
      /\ egress' = AfterN(egress, Least(n, Len(egress)))
      /\ source' = AfterN(source, popped)
      /\ ppc' = IF polled THEN Notified(ppc) ELSE ppc
      /\ prepared' = AfterN(ready, m)
      /\ sourceEnded' = ended
      /\ underrun' = starved
      /\ speaking' = (speaking \/ n > 0 \/ k > 0)
      /\ silenced' = silenced + k
      /\ IF closed
         THEN /\ Exit("error")
              /\ reserved' = Advance(reserved, IF m > 0 THEN n ELSE n + 1)
              /\ UNCHANGED pending
         ELSE /\ dpc' = IF settled THEN "top" ELSE "check2"
              /\ reserved' = Advance(reserved, n + k)
              /\ pending' = pending \o batch
              /\ senders' = [senders EXCEPT ![live].queue = @ \o batch]
              /\ UNCHANGED <<ret, why, result>>
  BY ZenonT(60) DEF DriverFill
<1>2. UNCHANGED <<produced, refill, eos, current, cursor, position, issued, wire, tail,
                  srcError, paused, settled, boundary, bsent, generation, mq, discarded,
                  daves, faults, cmds>>
  BY Zenon DEF DriverFill, DriverOnlyBut, boundVars, histVars
<1>3. TypeOK /\ SourceFits /\ ControlPoints
  BY Zenon DEF MirrorInv
<1>4. Attached /\ ret # "cleanup" /\ ~paused /\ boundary = <<>>
  BY ZenonT(60), <1>1, <1>3 DEF Attached, ControlPoints
<1>5. /\ Live.queue \in Seq(Packet) /\ Live.own = FALSE
      /\ pending \in Seq(Packet) /\ Len(Live.queue) <= CommandCap
  BY ZenonT(60), <1>1, <1>4, AttachedFacts
<1>6. /\ source \in Seq(Frames) /\ egress \in Seq(Frames) /\ generation \in Nat
      /\ reserved \in Nat /\ Len(source) <= SourceTarget
      /\ Len(source) \in Nat /\ Len(egress) \in Nat /\ Len(Live.queue) \in Nat
  BY SMTT(60), <1>3, <1>5 DEF TypeOK, SourceFits
<1>7. prepared \in Seq(CurrentPackets)
  <2>1. \A i \in DOMAIN prepared : prepared[i].gen = generation
    BY Zenon, <1>1, <1>4 DEF MirrorInv, ActiveGenerations
  <2>2. prepared \in Seq(Packet)
    BY Zenon, <1>3 DEF TypeOK
  <2>3. \A i \in DOMAIN prepared : prepared[i] \in CurrentPackets
    BY Zenon, <2>1, <2>2, SeqShape DEF CurrentPackets
  <2>4. QED
    BY Zenon, <2>2, <2>3, SeqNarrows
<1>8. room \in Nat
  <2>1. FramesOf(pending) \in Seq(Frames) /\ prepared \in Seq(Packet)
    BY Zenon, <1>3, <1>5 DEF TypeOK, FramesTyped
  <2>2. Len(FramesOf(pending)) \in Nat /\ Len(prepared) \in Nat
    BY <2>1
  <2>3. QED
    BY SMTT(60), <2>2, ConstantTypes DEF Room, Most
<1>9. pool \in Seq(Frames) /\ Len(pool) \in Nat
      /\ Len(pool) = IF sourceEnded THEN Len(egress) ELSE Len(egress) + Len(source)
  BY <1>6, ConcatShape DEF Pool
<1> HIDE DEF room, pool
<1>10. /\ n \in 0..Len(pool) /\ popped \in 0..Len(source)
       /\ Least(n, Len(egress)) \in 0..Len(egress)
  BY SMTT(60), <1>6, <1>8, <1>9 DEF Least, Most
<1>11. tracks \in Seq(CurrentPackets)
  BY Zenon, <1>6, <1>9, <1>10, TracksType
<1> HIDE DEF n, tracks
<1>12. ready \in Seq(CurrentPackets)
  BY Zenon, <1>7, <1>11, ConcatShape
<1> HIDE DEF ready
<1>13. Len(ready) \in Nat
  BY <1>12
<1>14. m \in 0..Len(ready) /\ Len(Live.queue) + m \in 0..CommandCap
  <2> DEFINE x == Len(ready)
             y == Len(Live.queue)
  <2>1. x \in Nat /\ y \in Nat /\ y <= CommandCap /\ m = Least(x, CommandCap - y)
    BY Zenon, <1>5, <1>6, <1>13
  <2>2. SUFFICES m \in 0..x /\ y + m \in 0..CommandCap
    OBVIOUS
  <2> HIDE DEF x, y, m
  <2>3. CommandCap \in Nat
    BY Zenon, ConstantTypes
  <2>4. QED
    BY <2>1, <2>3 DEF Least
<1> HIDE DEF m
<1>15. /\ pumped \in Seq(CurrentPackets) /\ Len(pumped) = m
       /\ AfterN(ready, m) \in Seq(CurrentPackets)
  BY Zenon, <1>12, <1>14, FirstNType, AfterNType
<1> HIDE DEF pumped
<1>16. /\ k \in 0..(CommandCap - (Len(Live.queue) + m))
       /\ silenced + k \in 0..MaxSilence /\ k \in Nat
  <2>1. pumped \in Seq(Packet)
    BY Zenon, <1>15, CurrentElements
  <2>2. pending \o pumped \in Seq(Packet)
    BY Zenon, <2>1, <1>5, ConcatShape
  <2> DEFINE due == SilencesDue(pending \o pumped, Len(Live.queue) + m)
  <2>3. due \in 0..(CommandCap - (Len(Live.queue) + m)) /\ silenced + due \in 0..MaxSilence
    BY Zenon, <2>2, <1>3, <1>14, SilencesDueBound
  <2>4. k = due \/ k = 0
    OBVIOUS
  <2>5. silenced \in 0..MaxSilence
    BY Zenon, <1>3 DEF TypeOK
  <2> HIDE DEF due, k
  <2>6. QED
    BY SMTT(60), <2>3, <2>4, <2>5, <1>6, <1>14, ConstantTypes
<1>17. starved \in BOOLEAN /\ ended \in BOOLEAN
  OBVIOUS
<1> HIDE DEF k, popped, starved, ended
<1>18. /\ Silences(k, Advance(reserved, n)) \in Seq(CurrentPackets)
       /\ Len(Silences(k, Advance(reserved, n))) = k
  <2>1. Advance(reserved, n) \in Nat
    <3>1. n \in Nat /\ reserved \in Nat
      BY SMTT(60), <1>6, <1>9, <1>10
    <3>2. QED
      BY Zenon, <3>1, AdvanceNat
  <2>2. QED
    BY Zenon, <2>1, <1>6, <1>16, SilencesType
<1>19. batch \in Seq(CurrentPackets) /\ Len(batch) = m + k
  BY ZenonT(60), <1>15, <1>18, ConcatShape
<1> HIDE DEF batch
<1>20. /\ egress' \in Seq(Frames) /\ source' \in Seq(Frames) /\ Len(source') <= SourceTarget
       /\ prepared' \in Seq(Packet) /\ prepared' \in Seq(CurrentPackets)
  <2>1. egress' \in Seq(Frames)
    BY Zenon, <1>1, <1>6, <1>10, AfterNType
  <2>2. source' \in Seq(Frames) /\ Len(source') = Len(source) - popped
    BY Zenon, <1>1, <1>6, <1>10, AfterNType
  <2>3. Len(source') <= SourceTarget
    BY SMTT(60), <2>2, <1>6, <1>10, ConstantTypes
  <2>4. QED
    BY Zenon, <2>1, <2>2, <2>3, <1>1, <1>15, CurrentElements
<1>21. /\ sourceEnded' \in BOOLEAN /\ underrun' \in BOOLEAN /\ speaking' \in BOOLEAN
       /\ silenced' \in 0..MaxSilence
       /\ ppc' \in {"check", "await", "waiting", "fill", "done"}
  <2>1. ppc \in {"check", "await", "waiting", "fill", "done"}
    BY Zenon, <1>3 DEF TypeOK
  <2>2. ppc' \in {"check", "await", "waiting", "fill", "done"}
    BY Zenon, <2>1, <1>1 DEF Notified
  <2>3. QED
    BY Zenon, <2>2, <1>1, <1>16, <1>17
<1>22. /\ m \in Nat /\ n \in Nat
       /\ Advance(reserved, IF m > 0 THEN n ELSE n + 1) \in Nat
       /\ Advance(reserved, n + k) \in Nat
  <2>1. m \in Nat /\ n \in Nat /\ n + 1 \in Nat /\ n + k \in Nat /\ reserved \in Nat
    BY SMTT(60), <1>6, <1>9, <1>10, <1>13, <1>14, <1>16
  <2>2. /\ Advance(reserved, n) \in Nat /\ Advance(reserved, n + 1) \in Nat
        /\ Advance(reserved, n + k) \in Nat
    BY Zenon, <2>1, AdvanceNat
  <2>3. QED
    BY Zenon, <2>1, <2>2
<1>23. CASE closed
  <2>1. Exit("error") /\ reserved' \in Nat /\ pending' = pending
    BY Zenon, <1>1, <1>22, <1>23
  <2>2. boundary' = <<>> /\ bsent' \in Nat /\ cmds' \in Seq({"Pause", "Resume", "Stop"})
        /\ faults' \in 0..MaxFaults
    BY Zenon, <1>2, <1>3, <1>4 DEF TypeOK
  <2>3. srcError' \in BOOLEAN /\ paused' \in BOOLEAN
    BY Zenon, <1>2, <1>3 DEF TypeOK
  <2>4. QED
    BY Zenon, <2>1, <2>2, <2>3, <1>2, <1>4, <1>5, <1>20, <1>21, ExitPreserves
<1>24. CASE ~closed
  <2>1. /\ dpc' \in {"top", "check2"} /\ reserved' \in Nat /\ pending' = pending \o batch
        /\ senders' = [senders EXCEPT ![live].queue = @ \o batch]
        /\ UNCHANGED <<ret, why, result>>
    BY Zenon, <1>1, <1>22, <1>24
  <2>2. batch \in Seq(Packet)
    BY Zenon, <1>19, CurrentElements
  <2>3. pending' \in Seq(Packet)
    BY Zenon, <2>1, <2>2, <1>5, ConcatShape
  <2>4. senders' \in Seq(Sender) /\ senders' # <<>> => TypeOK'
    BY ZenonT(60), <2>1, <2>3, <1>2, <1>3, <1>20, <1>21 DEF TypeOK
  <2>5. SourceFits' /\ ControlPoints' /\ ~Flushed'
    BY Zenon, <2>1, <1>1, <1>2, <1>3, <1>4, <1>20 DEF SourceFits, ControlPoints, Flushed, Attached
  <2>6. Len(Live.queue) + Len(batch) <= CommandCap
    <3> DEFINE y == Len(Live.queue)
    <3>1. y \in Nat /\ m \in Nat /\ k \in 0..(CommandCap - (y + m)) /\ Len(batch) = m + k
      BY Zenon, <1>6, <1>16, <1>19, <1>22
    <3>2. CommandCap \in Nat
      BY Zenon, ConstantTypes
    <3> HIDE DEF y
    <3>3. y + Len(batch) <= CommandCap
      BY SMTT(60), <3>1, <3>2
    <3>4. QED
      BY Zenon, <3>3 DEF y
  <2>7. dpc # "boundWait" /\ dpc # "rebase" /\ dpc' # "rebase" /\ boundary' = boundary
        /\ ret' = ret /\ generation' = generation
    BY Zenon, <2>1, <1>1, <1>2
  <2>8. QED
    BY ZenonT(60), <2>1, <2>4, <2>5, <2>6, <2>7, <1>4, <1>19, <1>20, EnqueueMirrors
<1>25. QED
  BY Zenon, <1>23, <1>24

\* After the second drain_commands.
LEMMA CommandsDone2Preserves ==
  ASSUME MirrorInv, DriverCommandsDone2, CountsTyped
  PROVE  MirrorInv'
<1> DEFINE k == SilencesDue(<<>>, Len(Live.queue))
           batch == Silences(k, reserved)
<1>1. UNCHANGED <<produced, refill, eos, current, cursor, position, issued, wire, tail,
                  source, srcError, ppc, paused, sourceEnded, settled, egress, prepared,
                  boundary, bsent, generation, mq, discarded, daves, faults, cmds>>
  BY Zenon DEF DriverCommandsDone2, DriverOnlyBut, boundVars, histVars
<1>2. TypeOK /\ SourceFits /\ ControlPoints /\ dpc = "cmd2"
  BY Zenon DEF MirrorInv, DriverCommandsDone2
<1>3. Attached /\ ret # "cleanup" /\ boundary = <<>>
  BY Zenon, <1>2 DEF Attached, ControlPoints
<1>4. Live.queue \in Seq(Packet) /\ pending \in Seq(Packet) /\ Len(Live.queue) <= CommandCap
  BY Zenon, <1>2, <1>3, AttachedFacts
<1>5. Len(Live.queue) \in 0..CommandCap
  BY <1>4, ConstantTypes
<1>6. k \in 0..(CommandCap - Len(Live.queue)) /\ silenced + k \in 0..MaxSilence
  <2>1. <<>> \in Seq(Packet)
    OBVIOUS
  <2>2. QED
    BY Zenon, <2>1, <1>2, <1>5, SilencesDueBound
<1>7. generation \in Nat /\ reserved \in Nat /\ k \in Nat
  BY SMTT(60), <1>2, <1>5, <1>6, ConstantTypes DEF TypeOK
<1>8. batch \in Seq(CurrentPackets) /\ Len(batch) = k
  <2> HIDE DEF k
  <2>1. QED
    BY Zenon, <1>7, SilencesType
<1>9. Advance(reserved, 1) \in Nat /\ Advance(reserved, k) \in Nat
  <2> HIDE DEF k
  <2>1. 1 \in Nat
    OBVIOUS
  <2>2. QED
    BY Zenon, <2>1, <1>7, AdvanceNat
<1>10. /\ source' \in Seq(Frames) /\ Len(source') <= SourceTarget
       /\ ppc' \in {"check", "await", "waiting", "fill", "done"}
       /\ egress' \in Seq(Frames) /\ prepared' \in Seq(Packet)
       /\ bsent' \in Nat /\ cmds' \in Seq({"Pause", "Resume", "Stop"})
       /\ faults' \in 0..MaxFaults /\ boundary' = <<>>
  BY Zenon, <1>1, <1>2, <1>3 DEF TypeOK, SourceFits
<1>11. paused' \in BOOLEAN /\ sourceEnded' \in BOOLEAN /\ srcError' \in BOOLEAN
  BY Zenon, <1>1, <1>2 DEF TypeOK
<1>12. \/ /\ paused /\ dpc' = "invalidate" /\ why' = "repause"
          /\ UNCHANGED <<ret, result, pending, senders, reserved, underrun, speaking, silenced>>
       \/ /\ Exit("natural")
          /\ UNCHANGED <<pending, reserved, underrun, speaking, silenced>>
       \/ /\ ~paused /\ pending = <<>>
          /\ underrun' = TRUE /\ speaking' = (speaking \/ k > 0) /\ silenced' = silenced + k
          /\ \/ /\ Exit("error") /\ reserved' = Advance(reserved, 1) /\ UNCHANGED pending
             \/ /\ dpc' \in {"select", "top"} /\ reserved' = Advance(reserved, k)
                /\ pending' = batch
                /\ senders' = [senders EXCEPT ![live].queue = @ \o batch]
                /\ UNCHANGED <<ret, why, result>>
       \/ /\ ~paused /\ dpc' = "select"
          /\ UNCHANGED <<ret, why, result, pending, senders, reserved, underrun, speaking, silenced>>
  BY ZenonT(60) DEF DriverCommandsDone2
<1> HIDE DEF k, batch
<1>13. CASE /\ \/ paused /\ dpc' = "invalidate" /\ why' = "repause"
               \/ ~paused /\ dpc' = "select" /\ UNCHANGED why
            /\ UNCHANGED <<ret, result, pending, senders, reserved, underrun, speaking, silenced>>
  <2>1. TypeOK' /\ SourceFits'
    BY SMTT(60), <1>1, <1>2, <1>13 DEF TypeOK, SourceFits
  <2>2. ControlPoints' /\ (Flushed' => Flushed)
    BY Zenon, <1>1, <1>2, <1>3, <1>13 DEF ControlPoints, Flushed, Attached
  <2>3. QED
    BY Zenon, <2>1, <2>2, <1>1, <1>2, <1>3, <1>13, QueuesUntouched
<1>14. CASE Exit("natural") /\ UNCHANGED <<pending, reserved, underrun, speaking, silenced>>
  <2>1. reserved' \in Nat /\ silenced' \in 0..MaxSilence /\ pending' \in Seq(Packet)
    BY Zenon, <1>2, <1>14 DEF TypeOK
  <2>2. underrun' \in BOOLEAN /\ speaking' \in BOOLEAN
    BY Zenon, <1>2, <1>14 DEF TypeOK
  <2>3. QED
    BY Zenon, <2>1, <2>2, <1>1, <1>3, <1>10, <1>11, <1>14, ExitPreserves
<1>15. CASE /\ Exit("error") /\ reserved' = Advance(reserved, 1) /\ UNCHANGED pending
            /\ underrun' = TRUE /\ speaking' = (speaking \/ k > 0) /\ silenced' = silenced + k
  <2>1. reserved' \in Nat /\ silenced' \in 0..MaxSilence /\ pending' \in Seq(Packet)
    BY Zenon, <1>4, <1>6, <1>9, <1>15
  <2>2. underrun' \in BOOLEAN /\ speaking' \in BOOLEAN
    BY Zenon, <1>15
  <2>3. QED
    BY Zenon, <2>1, <2>2, <1>1, <1>3, <1>10, <1>11, <1>15, ExitPreserves
<1>16. CASE /\ ~paused /\ pending = <<>> /\ dpc' \in {"select", "top"}
            /\ reserved' = Advance(reserved, k) /\ pending' = batch
            /\ senders' = [senders EXCEPT ![live].queue = @ \o batch]
            /\ underrun' = TRUE /\ speaking' = (speaking \/ k > 0) /\ silenced' = silenced + k
            /\ UNCHANGED <<ret, why, result>>
  <2>1. reserved' \in Nat /\ silenced' \in 0..MaxSilence
    BY Zenon, <1>6, <1>9, <1>16
  <2>2. underrun' \in BOOLEAN /\ speaking' \in BOOLEAN
    BY Zenon, <1>16
  <2>3. batch \in Seq(Packet) /\ pending' = pending \o batch
    <3>1. batch \in Seq(Packet)
      BY Zenon, <1>8, CurrentElements
    <3>2. QED
      BY Zenon, <3>1, <1>16, ConcatNothing
  <2>4. senders' \in Seq(Sender) /\ senders' # <<>> => TypeOK'
    BY ZenonT(60), <2>1, <2>2, <2>3, <1>1, <1>2, <1>16 DEF TypeOK
  <2>5. SourceFits' /\ ControlPoints' /\ ~Flushed'
    BY Zenon, <1>1, <1>2, <1>3, <1>16 DEF SourceFits, ControlPoints, Flushed, Attached
  <2>6. Len(Live.queue) + Len(batch) <= CommandCap
    BY SMTT(60), <1>5, <1>6, <1>8, ConstantTypes
  <2>7. prepared' \in Seq(CurrentPackets)
    <3>1. \A i \in DOMAIN prepared : prepared[i].gen = generation
      BY Zenon, <1>2, <1>3 DEF MirrorInv, ActiveGenerations
    <3>2. prepared \in Seq(Packet)
      BY Zenon, <1>2 DEF TypeOK
    <3>3. \A i \in DOMAIN prepared : prepared[i] \in CurrentPackets
      BY Zenon, <3>1, <3>2, SeqShape DEF CurrentPackets
    <3>4. QED
      BY Zenon, <3>2, <3>3, <1>1, SeqNarrows
  <2>8. dpc # "boundWait" /\ dpc # "rebase" /\ dpc' # "rebase" /\ boundary' = boundary
        /\ ret' = ret /\ generation' = generation
    BY Zenon, <1>1, <1>2, <1>16
  <2>9. QED
    BY ZenonT(60), <2>3, <2>4, <2>5, <2>6, <2>7, <2>8, <1>3, <1>8, <1>16, EnqueueMirrors
<1>17. QED
  BY ZenonT(60), <1>12, <1>13, <1>14, <1>15, <1>16

-----------------------------------------------------------------------------
(* Invalidating a generation and replacing its sender.                     *)

\* Once flushed, the sender has nothing left.
LEMMA FlushedSender ==
  ASSUME MirrorInv, Flushed, dpc # "boundWait"
  PROVE  /\ Live \in Sender /\ Live.sent = <<>> /\ Live.cmd = <<>> /\ Live.queue = <<>>
         /\ pending = <<>> /\ prepared = <<>> /\ boundary = <<>>
<1>1. /\ Live \in Sender /\ Live.sent \in Seq(Packet) /\ Live.cmd \in Seq(Packet)
      /\ Live.queue \in Seq(Packet) /\ boundary = <<>> /\ InSender(Live) = pending
  BY Zenon, AttachedFacts DEF Flushed
<1>2. pending = <<>> /\ prepared = <<>>
  BY Zenon DEF MirrorInv, FlushedIsEmpty
<1>3. Live.sent = <<>> /\ Live.cmd = <<>> /\ Live.queue = <<>>
  <2> DEFINE a == Live.sent
             b == Live.cmd
             c == Live.queue
  <2>1. a \in Seq(Packet) /\ b \in Seq(Packet) /\ c \in Seq(Packet) /\ (a \o b) \o c = <<>>
    BY Zenon, <1>1, <1>2 DEF InSender
  <2> HIDE DEF a, b, c
  <2>2. a = <<>> /\ b = <<>> /\ c = <<>>
    BY Zenon, <2>1, AllEmpty
  <2>3. QED
    BY Zenon, <2>2 DEF a, b, c
<1>4. QED
  BY Zenon, <1>1, <1>2, <1>3

\* invalidate_prepared_playout_generation; afterwards only a flushed playout is
\* still compared with its sender.
LEMMA InvalidatePreserves ==
  ASSUME MirrorInv, DriverInvalidate
  PROVE  MirrorInv'
<1>1. /\ dpc = "invalidate" /\ dpc' = "rebase" /\ generation' = generation + 1
      /\ UNCHANGED <<source, srcError, ppc, paused, sourceEnded, underrun, settled, result,
                     egress, prepared, pending, boundary, bsent, reserved, speaking, senders,
                     mq, discarded, daves, faults, cmds, ret, why, produced, refill, eos,
                     current, cursor, position, issued, silenced, wire, tail>>
  BY Zenon DEF DriverInvalidate, DriverOnly, loopVars, queueVars, boundVars, histVars
<1>2. TypeOK /\ SourceFits /\ ControlPoints /\ HoldsItsCommand
  BY Zenon DEF MirrorInv
<1>3. TypeOK' /\ SourceFits'
  <2>1. generation' \in Nat
    <3>1. generation \in Nat
      BY Zenon, <1>2 DEF TypeOK
    <3>2. QED
      BY SMTT(60), <3>1, <1>1
  <2>2. QED
    BY SMTT(60), <2>1, <1>1, <1>2 DEF TypeOK, SourceFits
<1>4. ControlPoints' /\ HoldsItsCommand' /\ Live' = Live
  BY Zenon, <1>1, <1>2 DEF ControlPoints, HoldsItsCommand, live, Live
<1>5. (Attached' => Attached) /\ (Flushed' => Flushed) /\ ret # "cleanup"
  BY Zenon, <1>1, <1>2 DEF Attached, Flushed, ControlPoints
<1>6. FlushedIsEmpty' /\ ActiveGenerations'
  BY Zenon, <1>1, <1>5 DEF MirrorInv, FlushedIsEmpty, ActiveGenerations
<1>7. Mirrored'
  <2>1. Attached' => (InSender(Live) = (IF ret = "cleanup" THEN <<>> ELSE pending) \o boundary)'
    BY Zenon, <1>1, <1>4, <1>5 DEF MirrorInv, Mirrored, InSender
  <2>2. Attached' => (Live.own = (ret = "cleanup"))'
    BY Zenon, <1>1, <1>4, <1>5 DEF MirrorInv, Mirrored
  <2>3. QED
    BY Zenon, <2>1, <2>2, <1>4, <1>5 DEF MirrorInv, Mirrored
<1>8. QED
  BY Zenon, <1>3, <1>4, <1>6, <1>7 DEF MirrorInv

\* discard_unsent_prepared_packets alone.
LEMMA RebaseOnlyPreserves ==
  ASSUME MirrorInv, DriverRebaseOnly
  PROVE  MirrorInv'
<1>1. /\ dpc = "rebase" /\ why \in {"repause", "restop"} /\ reserved' = cursor
      /\ UNCHANGED <<source, srcError, ppc, paused, sourceEnded, underrun, settled,
                     egress, prepared, pending, boundary, bsent, generation, speaking,
                     mq, discarded, daves, faults, cmds, produced, refill, eos,
                     current, cursor, position, issued, silenced, wire, tail>>
  BY Zenon DEF DriverRebaseOnly, DriverOnly, queueVars, boundVars, histVars
<1>2. TypeOK /\ SourceFits /\ ControlPoints /\ HoldsItsCommand
  BY Zenon DEF MirrorInv
<1>3. Attached /\ ret # "cleanup" /\ Flushed
  BY Zenon, <1>1, <1>2 DEF Attached, ControlPoints, Flushed
<1>4. /\ Live \in Sender /\ Live.queue = <<>> /\ Live.sent = <<>> /\ Live.cmd = <<>>
      /\ pending = <<>> /\ prepared = <<>> /\ boundary = <<>>
  BY Zenon, <1>1, <1>3, FlushedSender
<1>5. reserved' \in Nat
  BY Zenon, <1>1, <1>2 DEF TypeOK
<1>6. CASE why = "repause"
  <2>1. dpc' = "paused" /\ UNCHANGED <<ret, why, result, senders>>
    BY Zenon, <1>6 DEF DriverRebaseOnly
  <2>2. TypeOK' /\ SourceFits'
    BY SMTT(60), <2>1, <1>1, <1>2, <1>5 DEF TypeOK, SourceFits
  <2>3. ControlPoints' /\ HoldsItsCommand' /\ Live' = Live
    BY Zenon, <2>1, <1>1, <1>2, <1>4 DEF ControlPoints, HoldsItsCommand, live, Live
  <2>4. FlushedIsEmpty' /\ ActiveGenerations'
    <3>1. pending' = <<>> /\ prepared' = <<>> /\ Live'.queue = <<>>
      BY Zenon, <2>3, <1>1, <1>4
    <3>2. QED
      BY SMTT(60), <3>1 DEF FlushedIsEmpty, ActiveGenerations
  <2>5. Mirrored'
    <3>1. (InSender(Live) = (IF ret = "cleanup" THEN <<>> ELSE pending) \o boundary)'
      BY Zenon, <2>1, <2>3, <1>1, <1>3 DEF MirrorInv, Mirrored, InSender
    <3>2. (Live.own = (ret = "cleanup"))'
      BY ZenonT(60), <2>1, <2>3, <1>3 DEF MirrorInv, Mirrored
    <3>3. QED
      BY Zenon, <3>1, <3>2, <2>3, <1>3 DEF MirrorInv, Mirrored
  <2>6. QED
    BY Zenon, <2>2, <2>3, <2>4, <2>5 DEF MirrorInv
<1>7. CASE why = "restop"
  <2>1. Exit("stopped")
    BY Zenon, <1>7 DEF DriverRebaseOnly
  <2>2. /\ source' \in Seq(Frames) /\ Len(source') <= SourceTarget
        /\ ppc' \in {"check", "await", "waiting", "fill", "done"}
        /\ egress' \in Seq(Frames) /\ prepared' \in Seq(Packet) /\ pending' \in Seq(Packet)
        /\ bsent' \in Nat /\ cmds' \in Seq({"Pause", "Resume", "Stop"})
        /\ faults' \in 0..MaxFaults /\ silenced' \in 0..MaxSilence /\ boundary' = <<>>
    BY Zenon, <1>1, <1>2, <1>4 DEF TypeOK, SourceFits
  <2>3. /\ paused' \in BOOLEAN /\ sourceEnded' \in BOOLEAN /\ underrun' \in BOOLEAN
        /\ speaking' \in BOOLEAN /\ srcError' \in BOOLEAN
    BY Zenon, <1>1, <1>2 DEF TypeOK
  <2>4. QED
    BY Zenon, <2>1, <2>2, <2>3, <1>1, <1>3, <1>5, ExitPreserves
<1>8. QED
  BY Zenon, <1>1, <1>6, <1>7

\* A new sender is started behind the ones there were.
LEMMA SpawnedSender ==
  ASSUME NEW base \in Seq(Sender), NEW r \in Sender, senders' = Append(base, r),
         r.pc = "loop", r.cmd = <<>>,
         \A s \in 1..Len(base) :
            /\ base[s].pc \in {"loop", "tick"} => base[s].cmd = <<>>
            /\ base[s].pc \in {"holding", "sending", "transmitted"} => Len(base[s].cmd) = 1
  PROVE  senders' \in Seq(Sender) /\ senders' # <<>> /\ Live' = r /\ HoldsItsCommand'
<1>1. /\ senders' \in Seq(Sender) /\ senders' # <<>> /\ Len(senders') = Len(base) + 1
      /\ \A i \in 1..Len(base) : senders'[i] = base[i]
      /\ senders'[Len(base) + 1] = r
  BY SMTT(60), AppendShape
<1>2. Len(base) \in Nat
  OBVIOUS
<1>3. Live' = r
  BY Zenon, <1>1 DEF Live, live
<1>4. HoldsItsCommand'
  BY SMTT(60), <1>1, <1>2 DEF HoldsItsCommand, live
<1>5. QED
  BY Zenon, <1>1, <1>3, <1>4

\* The driver waits on a fresh sender, with nothing pending.
LEMMA FreshMirrors ==
  ASSUME TypeOK', SourceFits', ControlPoints', HoldsItsCommand',
         Live'.sent = <<>>, Live'.cmd = <<>>, Live'.queue = <<>>, Live'.drops = <<>>,
         Live'.own = (ret' = "cleanup"),
         boundary' = <<>>, ret' # "cleanup" => pending' = <<>> /\ prepared' = <<>>
  PROVE  MirrorInv'
<1>1. InSender(Live)' = <<>>
  BY DEF InSender
<1>2. (IF ret' = "cleanup" THEN <<>> ELSE pending') \o boundary' = <<>>
  OBVIOUS
<1>3. Mirrored'
  <2>1. Len(<<>>) <= CommandCap
    BY SMTT(60), ConstantTypes
  <2>2. (Len(Live.queue) <= CommandCap)'
    BY Zenon, <2>1
  <2>3. QED
    BY Zenon, <1>1, <1>2, <2>2 DEF Mirrored
<1>4. ActiveGenerations' /\ FlushedIsEmpty'
  BY DEF ActiveGenerations, FlushedIsEmpty, Flushed
<1>5. QED
  BY Zenon, <1>3, <1>4 DEF MirrorInv

\* The interruption's second step: rebase, replace the sender, flush.
LEMMA RebasePreserves ==
  ASSUME MirrorInv, DriverRebase, FramesTyped
  PROVE  MirrorInv'
<1> DEFINE frames == InterruptedFrames
           kept == Least(Len(frames), EgressHigh)
           over == AfterN(frames, kept)
           fit == Least(Len(over), SourceTarget - Len(source))
           leaving == why = "stale" \/ (why = "stop" /\ ret # "cmd2")
<1>1. /\ dpc = "rebase" /\ why \in {"pause", "stop", "stale", "dave"} /\ reserved' = cursor
      /\ egress' = FirstN(frames, kept)
      /\ source' = AfterN(over, Len(over) - fit) \o source
      /\ ppc' = IF fit > 0 THEN Notified(ppc) ELSE ppc
      /\ discarded' = discarded + Len(over) - fit
      /\ senders' = Replaced(leaving)
      /\ result' = IF leaving THEN "stopped" ELSE result
      /\ why' = IF why = "stop" /\ ret = "cmd2" THEN "restop" ELSE why
      /\ pending' = <<>> /\ prepared' = <<>> /\ bsent' = 0
      /\ speaking' = (speaking \/ why = "pause")
  BY Zenon DEF DriverRebase
<1>2. dpc' = CASE leaving -> "exited"
             [] why = "stop" /\ ret = "cmd2" -> "invalidate"
             [] why = "pause" -> "bound"
             [] why = "dave" -> "fill"
  BY Zenon DEF DriverRebase
<1>3. UNCHANGED <<produced, refill, eos, current, cursor, position, issued, silenced, wire,
                  tail, srcError, paused, sourceEnded, underrun, settled, boundary,
                  generation, mq, daves, faults, cmds, ret>>
  BY Zenon DEF DriverRebase, DriverOnly, histVars
<1>4. TypeOK /\ SourceFits /\ ControlPoints /\ HoldsItsCommand
  BY Zenon DEF MirrorInv
<1>5. ret # "cleanup" /\ boundary = <<>>
  BY Zenon, <1>1, <1>4 DEF ControlPoints
<1>6. frames \in Seq(Frames)
  <2>1. /\ FramesOf(pending) \in Seq(Frames) /\ FramesOf(prepared) \in Seq(Frames)
        /\ egress \in Seq(Frames)
    BY Zenon, <1>4 DEF TypeOK, FramesTyped
  <2>2. FramesOf(pending) \o FramesOf(prepared) \in Seq(Frames)
    BY Zenon, <2>1, ConcatShape
  <2>3. QED
    BY Zenon, <2>1, <2>2, ConcatShape DEF InterruptedFrames
<1> HIDE DEF frames
<1>7. kept \in 0..Len(frames)
  <2>1. Len(frames) \in Nat
    BY SMTT(60), <1>6
  <2>2. QED
    BY SMTT(60), <2>1, ConstantTypes DEF Least
<1> HIDE DEF kept
<1>8. over \in Seq(Frames) /\ FirstN(frames, kept) \in Seq(Frames)
  BY Zenon, <1>6, <1>7, AfterNType, FirstNType
<1> HIDE DEF over
<1>9. /\ source \in Seq(Frames) /\ Len(source) \in Nat /\ Len(source) <= SourceTarget
      /\ Len(over) \in Nat /\ discarded \in Nat
  BY SMTT(60), <1>4, <1>8 DEF TypeOK, SourceFits
<1>10. fit \in 0..Len(over) /\ fit <= SourceTarget - Len(source)
  <2> DEFINE x == Len(over)
             y == Len(source)
  <2>1. x \in Nat /\ y \in Nat /\ y <= SourceTarget /\ fit = Least(x, SourceTarget - y)
    BY Zenon, <1>9
  <2>2. SUFFICES fit \in 0..x /\ fit <= SourceTarget - y
    OBVIOUS
  <2> HIDE DEF x, y, fit
  <2>3. SourceTarget \in Nat
    BY Zenon, ConstantTypes
  <2>4. QED
    BY SMTT(60), <2>1, <2>3 DEF Least
<1> HIDE DEF fit
<1>11. /\ AfterN(over, Len(over) - fit) \in Seq(Frames)
       /\ Len(AfterN(over, Len(over) - fit)) = fit
  <2>1. Len(over) - fit \in 0..Len(over) /\ Len(over) - (Len(over) - fit) = fit
    BY SMTT(60), <1>9, <1>10
  <2> DEFINE n == Len(over) - fit
  <2>2. n \in 0..Len(over) /\ Len(over) - n = fit
    BY Zenon, <2>1
  <2> HIDE DEF n
  <2>3. AfterN(over, n) \in Seq(Frames) /\ Len(AfterN(over, n)) = Len(over) - n
    BY Zenon, <2>2, <1>8, AfterNType
  <2>4. Len(AfterN(over, n)) = fit
    BY Zenon, <2>2, <2>3
  <2>5. QED
    BY Zenon, <2>3, <2>4 DEF n
<1>12. source' \in Seq(Frames) /\ Len(source') = fit + Len(source)
  BY Zenon, <1>1, <1>9, <1>11, ConcatShape
<1>13. SourceFits'
  BY SMTT(60), <1>9, <1>10, <1>12, ConstantTypes DEF SourceFits
<1>14. discarded' \in Nat /\ reserved' \in Nat /\ bsent' \in Nat
  <2>1. cursor \in Nat
    BY Zenon, <1>4 DEF TypeOK
  <2>2. QED
    BY SMTT(60), <2>1, <1>1, <1>9, <1>10
<1>15. /\ ppc' \in {"check", "await", "waiting", "fill", "done"}
       /\ speaking' \in BOOLEAN
       /\ result' \in {"none", "natural", "stopped", "error"}
       /\ why' \in {"pause", "stop", "stale", "dave", "restop"}
       /\ dpc' \in {"exited", "invalidate", "bound", "fill"}
  <2>1. ppc \in {"check", "await", "waiting", "fill", "done"}
        /\ result \in {"none", "natural", "stopped", "error"}
    BY Zenon, <1>4 DEF TypeOK
  <2>2. dpc' \in {"exited", "invalidate", "bound", "fill"}
    BY Zenon, <1>1, <1>2
  <2>3. QED
    BY Zenon, <2>1, <2>2, <1>1 DEF Notified
<1> DEFINE base == [senders EXCEPT ![live] = Retired(Live)]
           r == IF leaving THEN Retired(NewSender(FALSE)) ELSE NewSender(FALSE)
<1>16. senders' = Append(base, r)
  BY Zenon, <1>1 DEF Replaced, Live
<1>17. /\ base \in Seq(Sender)
       /\ \A s \in 1..Len(base) :
            /\ base[s].pc \in {"loop", "tick"} => base[s].cmd = <<>>
            /\ base[s].pc \in {"holding", "sending", "transmitted"} => Len(base[s].cmd) = 1
  BY Zenon, <1>4, RetiredBase
<1>18. r \in Sender /\ r.pc = "loop" /\ r.cmd = <<>>
  BY Zenon, FreshSender
<1> HIDE DEF base, r
<1>19. senders' \in Seq(Sender) /\ senders' # <<>> /\ Live' = r /\ HoldsItsCommand'
  BY ZenonT(60), <1>16, <1>17, <1>18, SpawnedSender
<1>20. TypeOK'
  <2>1. <<>> \in Seq(Packet)
    OBVIOUS
  <2>2. egress' \in Seq(Frames) /\ pending' \in Seq(Packet) /\ prepared' \in Seq(Packet)
    BY Zenon, <2>1, <1>1, <1>8
  <2>3. QED
    BY SMTT(60), <2>2, <1>3, <1>4, <1>12, <1>14, <1>15, <1>19 DEF TypeOK
<1>21. CASE leaving
  BY Zenon, <1>2, <1>3, <1>5, <1>13, <1>19, <1>20, <1>21, Detached
<1>22. CASE ~leaving
  <2>1. ControlPoints'
    <3>1. \/ why = "stop" /\ dpc' = "invalidate" /\ why' = "restop"
          \/ why = "pause" /\ dpc' = "bound" /\ why' = "pause"
          \/ why = "dave" /\ dpc' = "fill" /\ why' = "dave"
      BY Zenon, <1>1, <1>2, <1>22
    <3>2. QED
      BY Zenon, <3>1, <1>1, <1>3, <1>4, <1>5 DEF ControlPoints
  <2>2. r = NewSender(FALSE)
    BY Zenon, <1>22 DEF r
  <2>3. /\ Live'.sent = <<>> /\ Live'.cmd = <<>> /\ Live'.queue = <<>> /\ Live'.drops = <<>>
        /\ Live'.own = FALSE
    BY Zenon, <2>2, <1>19, FreshSender
  <2>4. Live'.own = (ret' = "cleanup")
    BY Zenon, <2>3, <1>3, <1>5
  <2>5. QED
    BY Zenon, <2>1, <2>3, <2>4, <1>1, <1>3, <1>5, <1>13, <1>19, <1>20, FreshMirrors
<1>23. QED
  BY Zenon, <1>21, <1>22

-----------------------------------------------------------------------------
(* The stop-audio boundary.                                                *)

\* The boundary is given up, by run_loop or by the cleanup.
LEMMA BoundaryFailsPreserves ==
  ASSUME MirrorInv, BoundaryFails, dpc \in {"bound", "boundWait"}, boundary' = <<>>,
         paused' = paused, bsent' = bsent, speaking' = speaking, reserved' \in Nat,
         UNCHANGED <<source, srcError, ppc, sourceEnded, underrun, settled, egress, prepared,
                     pending, generation, mq, discarded, daves, faults, cmds, produced,
                     refill, eos, current, cursor, position, issued, silenced, wire, tail>>
  PROVE  MirrorInv'
<1>1. TypeOK /\ SourceFits /\ HoldsItsCommand
  BY Zenon DEF MirrorInv
<1>2. /\ source' \in Seq(Frames) /\ Len(source') <= SourceTarget
      /\ ppc' \in {"check", "await", "waiting", "fill", "done"}
      /\ egress' \in Seq(Frames) /\ prepared' \in Seq(Packet) /\ pending' \in Seq(Packet)
      /\ bsent' \in Nat /\ cmds' \in Seq({"Pause", "Resume", "Stop"})
      /\ faults' \in 0..MaxFaults /\ silenced' \in 0..MaxSilence
  BY Zenon, <1>1 DEF TypeOK, SourceFits
<1>3. /\ paused' \in BOOLEAN /\ sourceEnded' \in BOOLEAN /\ underrun' \in BOOLEAN
      /\ speaking' \in BOOLEAN /\ srcError' \in BOOLEAN
  BY Zenon, <1>1 DEF TypeOK
<1>4. CASE ret # "cleanup"
  BY Zenon, <1>2, <1>3, <1>4, ExitPreserves DEF BoundaryFails
<1>5. CASE ret = "cleanup"
  <2>1. /\ senders' = [senders EXCEPT ![live] = Retired(@)]
        /\ dpc' = "returned" /\ UNCHANGED <<ret, why, result>>
    BY Zenon, <1>5 DEF BoundaryFails
  <2>2. senders' \in Seq(Sender) /\ senders' # <<>> /\ HoldsItsCommand'
    BY Zenon, <2>1, <1>1, RetiredLive
  <2>3. <<>> \in Seq(Packet)
    BY SMTT(60)
  <2>4. TypeOK'
    BY SMTT(60), <2>1, <2>2, <2>3, <1>1, <1>2 DEF TypeOK
  <2>5. QED
    BY Zenon, <2>1, <2>2, <2>4, <1>2, Detached DEF SourceFits
<1>6. QED
  BY Zenon, <1>4, <1>5

\* One more boundary silence, or the end of the boundary.
LEMMA BoundaryStepPreserves ==
  ASSUME MirrorInv, BoundaryStep
  PROVE  MirrorInv'
<1>1. /\ dpc = "bound"
      /\ UNCHANGED <<source, srcError, ppc, sourceEnded, underrun, settled, egress, prepared,
                     pending, bsent, generation, mq, discarded, daves, faults, cmds, produced,
                     refill, eos, current, cursor, position, issued, silenced, wire, tail>>
  BY Zenon DEF BoundaryStep, DriverOnly, queueVars, histVars
<1>2. TypeOK /\ SourceFits /\ ControlPoints /\ HoldsItsCommand
  BY Zenon DEF MirrorInv
<1>3. boundary = <<>> /\ ret # "rebuild" /\ Attached
  BY Zenon, <1>1, <1>2 DEF ControlPoints, Attached
<1>4. ret # "cleanup" => Flushed
  BY Zenon, <1>1, <1>3 DEF Flushed
<1>5. CASE BoundaryComplete /\ ret = "cleanup"
  <2>1. /\ dpc' = "returned" /\ senders' = [senders EXCEPT ![live] = Retired(@)]
        /\ speaking' = FALSE /\ UNCHANGED <<paused, ret, why, result, boundary, reserved>>
    BY Zenon, <1>5 DEF BoundaryStep
  <2>2. senders' \in Seq(Sender) /\ senders' # <<>> /\ HoldsItsCommand'
    BY ZenonT(60), <2>1, <1>2, RetiredLive
  <2>3. TypeOK' /\ SourceFits'
    <3>1. speaking' \in BOOLEAN /\ UNCHANGED <<paused, ret, why, result, boundary, reserved>>
      BY Zenon, <2>1
    <3>2. dpc' = "returned"
      BY Zenon, <2>1
    <3>3. QED
      BY SMTT(60), <3>1, <3>2, <2>2, <1>1, <1>2 DEF TypeOK, SourceFits
  <2>4. QED
    BY Zenon, <2>1, <2>2, <2>3, <1>3, Detached
<1>6. CASE BoundaryComplete /\ ret # "cleanup"
  <2>1. /\ dpc' = ret /\ paused' = TRUE /\ speaking' = FALSE
        /\ UNCHANGED <<senders, ret, why, result, boundary, reserved>>
    BY Zenon, <1>6 DEF BoundaryStep
  <2>2. ret \in {"cmd1", "cmd2", "top", "paused"}
    BY ZenonT(60), <1>2, <1>3, <1>6 DEF TypeOK
  <2>3. TypeOK' /\ SourceFits'
    <3>1. dpc' \in {"cmd1", "cmd2", "top", "paused"} /\ paused' \in BOOLEAN /\ speaking' \in BOOLEAN
      BY Zenon, <2>1, <2>2
    <3>2. QED
      BY SMTT(60), <3>1, <2>1, <1>1, <1>2 DEF TypeOK, SourceFits
  <2>4. ControlPoints'
    BY Zenon, <2>1, <2>2, <1>3 DEF ControlPoints
  <2>5. QED
    BY ZenonT(60), <2>1, <2>2, <2>3, <2>4, <1>1, <1>3, <1>4, <1>6, QueuesUntouched
<1>7. CASE ~BoundaryComplete
  <2> DEFINE packet == NewPacket("BoundarySilence", NoFrame, reserved, ActiveGeneration(Live))
  <2>1. Live \in Sender /\ reserved \in Nat /\ generation \in Nat
    BY Zenon, <1>2, LiveIsSender DEF TypeOK
  <2>2. packet \in Packet /\ packet.gen = ActiveGeneration(Live)
    BY Zenon, <2>1 DEF NewPacket, NoFrame, ActiveGeneration, Packet, Kinds
  <2>3. /\ reserved' = Advance(reserved, 1) /\ UNCHANGED <<paused, speaking>>
        /\ IF Live.pc = "exited"
           THEN BoundaryFails /\ UNCHANGED boundary
           ELSE /\ senders' = [senders EXCEPT ![live].queue = Append(@, packet)]
                /\ boundary' = <<packet>> /\ dpc' = "boundWait"
                /\ UNCHANGED <<ret, why, result>>
    BY Zenon, <1>7 DEF BoundaryStep
  <2>4. reserved' \in Nat
    BY Zenon, <2>1, <2>3, AdvanceNat
  <2> HIDE DEF packet
  <2>5. CASE Live.pc = "exited"
    BY Zenon, <2>3, <2>4, <2>5, <1>1, <1>3, BoundaryFailsPreserves
  <2>6. CASE Live.pc # "exited"
    \* Nothing is with the sender when the silence is queued.
    <3>1. Live.sent = <<>> /\ Live.cmd = <<>> /\ Live.queue = <<>> /\ Live.drops = <<>>
      <4>1. CASE ret # "cleanup"
        BY Zenon, <4>1, <1>1, <1>3, <1>4, FlushedSender DEF MirrorInv, Mirrored
      <4>2. CASE ret = "cleanup"
        <5>1. InSender(Live) = <<>> /\ Live.drops = <<>>
          BY SMTT(60), <4>2, <1>3 DEF MirrorInv, Mirrored
        <5> DEFINE a == Live.sent
                   b == Live.cmd
                   c == Live.queue
        <5>2. a \in Seq(Packet) /\ b \in Seq(Packet) /\ c \in Seq(Packet) /\ (a \o b) \o c = <<>>
          BY Zenon, <5>1, <2>1 DEF InSender, Sender
        <5> HIDE DEF a, b, c
        <5>3. a = <<>> /\ b = <<>> /\ c = <<>>
          BY Zenon, <5>2, AllEmpty
        <5>4. QED
          BY Zenon, <5>1, <5>3 DEF a, b, c
      <4>3. QED
        BY Zenon, <4>1, <4>2
    <3> DEFINE r == [Live EXCEPT !.queue = <<packet>>]
    <3>2. Append(Live.queue, packet) = <<packet>> /\ <<packet>> \in Seq(Packet) /\ Len(<<packet>>) = 1
      BY SMTT(60), <3>1, <2>2
    <3>3. senders' = [senders EXCEPT ![live] = r]
      BY Zenon, <3>2, <2>3, <2>6 DEF Live
    <3>4. /\ r \in Sender /\ r.queue = <<packet>> /\ r.pc = Live.pc /\ r.cmd = Live.cmd
          /\ r.sent = Live.sent /\ r.drops = Live.drops /\ r.own = Live.own
      BY Zenon, <3>2, <2>1 DEF Sender
    <3> HIDE DEF r
    <3>5. /\ boundary' = <<packet>> /\ dpc' = "boundWait" /\ UNCHANGED <<ret, why, result, paused, speaking>>
      BY Zenon, <2>3, <2>6
    <3>6. senders' \in Seq(Sender) /\ senders' # <<>>
      BY ZenonT(60), <3>3, <3>4, <1>2, LiveUpdate
    <3>7. TypeOK' /\ SourceFits'
      <4>1. boundary' \in Seq(Packet)
        BY Zenon, <3>2, <3>5
      <4>2. QED
        BY SMTT(60), <4>1, <3>5, <3>6, <2>4, <1>1, <1>2 DEF TypeOK, SourceFits
    <3>8. ControlPoints'
      BY Zenon, <3>2, <3>5, <1>1, <1>2, <1>3 DEF ControlPoints
    <3>9. ret # "cleanup" => pending = <<>> /\ prepared = <<>>
      BY Zenon, <1>4 DEF MirrorInv, FlushedIsEmpty
    <3>10. InSender(r) = (IF ret = "cleanup" THEN <<>> ELSE pending') \o boundary'
      <4>1. InSender(r) = <<packet>>
        BY SMTT(60), <3>1, <3>2, <3>4 DEF InSender
      <4>2. (IF ret = "cleanup" THEN <<>> ELSE pending') = <<>>
        BY Zenon, <3>9, <1>1
      <4>3. <<>> \o <<packet>> = <<packet>>
        BY Zenon, <3>2, ConcatNothing
      <4>4. QED
        BY ZenonT(60), <4>1, <4>2, <4>3, <3>5
    <3>11. \A i \in DOMAIN r.queue : r.queue[i].gen = ActiveGeneration(Live)
      <4>1. r.queue[1] = packet /\ DOMAIN r.queue = {1}
        BY SMTT(60), <3>2, <3>4
      <4>2. QED
        BY Zenon, <4>1, <2>2
    <3>12. Len(r.queue) <= CommandCap
      BY SMTT(60), <3>2, <3>4, ConstantTypes
    <3>13. /\ ret # "cleanup" => \A i \in DOMAIN prepared' : prepared'[i].gen = generation
           /\ Flushed' => pending' = <<>> /\ prepared' = <<>>
      BY SMTT(60), <3>5, <3>9, <1>1 DEF Flushed
    <3>14. dpc # "rebase" /\ dpc' # "rebase" /\ ret' = ret /\ generation' = generation
      BY Zenon, <3>5, <1>1
    <3>15. QED
      BY ZenonT(60), <3>1, <3>3, <3>4, <3>7, <3>8, <3>10, <3>11, <3>12, <3>13, <3>14, <1>3, LiveStep
  <2>7. QED
    BY Zenon, <2>5, <2>6
<1>8. QED
  BY Zenon, <1>5, <1>6, <1>7

\* The outcome of a boundary silence.
LEMMA BoundaryOutcomePreserves ==
  ASSUME MirrorInv, BoundaryOutcome
  PROVE  MirrorInv'
<1>1. /\ dpc = "boundWait" /\ boundary' = <<>>
      /\ UNCHANGED <<source, srcError, ppc, paused, sourceEnded, underrun, settled, egress,
                     prepared, pending, generation, reserved, speaking, mq, discarded, daves,
                     faults, cmds, produced, refill, eos, current, cursor, position, issued,
                     silenced, wire, tail>>
  BY Zenon DEF BoundaryOutcome, DriverOnly, queueVars, histVars
<1>2. TypeOK /\ SourceFits /\ ControlPoints /\ HoldsItsCommand
  BY Zenon DEF MirrorInv
<1>3. ret # "rebuild" /\ Attached /\ Len(boundary) = 1
  BY Zenon, <1>1, <1>2 DEF ControlPoints, Attached
<1>4. ret # "cleanup" => pending = <<>> /\ prepared = <<>>
  BY Zenon, <1>1, <1>3 DEF MirrorInv, FlushedIsEmpty, Flushed
<1>5. CASE BoundaryFails /\ bsent' = bsent
  <2>1. reserved' \in Nat
    BY Zenon, <1>1, <1>2 DEF TypeOK
  <2>2. QED
    BY Zenon, <2>1, <1>1, <1>5, BoundaryFailsPreserves
<1>6. CASE /\ Live.sent # <<>> /\ bsent' = bsent + 1
           /\ senders' = [senders EXCEPT ![live].sent = Tail(@)]
           /\ dpc' = "bound" /\ UNCHANGED <<ret, why, result>>
  <2>1. /\ Live \in Sender /\ boundary \in Seq(Packet) /\ bsent \in Nat
    BY Zenon, <1>2, LiveIsSender DEF TypeOK
  <2> DEFINE a == Live.sent
             b == Live.cmd
             c == Live.queue
  <2>2. a \in Seq(Packet) /\ b \in Seq(Packet) /\ c \in Seq(Packet) /\ a # <<>>
    BY Zenon, <2>1, <1>6 DEF Sender
  <2>3. (a \o b) \o c = boundary
    <3>1. InSender(Live) = <<>> \o boundary
      BY ZenonT(60), <1>3, <1>4 DEF MirrorInv, Mirrored
    <3>2. <<>> \o boundary = boundary
      BY Zenon, <2>1, ConcatNothing
    <3>3. QED
      BY Zenon, <3>1, <3>2 DEF InSender
  <2>4. (Tail(a) \o b) \o c = <<>> /\ Tail(a) \in Seq(Packet)
    <3> HIDE DEF a, b, c
    <3>1. Tail((a \o b) \o c) = (Tail(a) \o b) \o c
      BY ZenonT(60), <2>2, HeadLeaves
    <3>2. Tail(boundary) = <<>>
      <4>1. boundary # <<>>
        BY <1>3
      <4>2. Tail(boundary) \in Seq(Packet) /\ Len(Tail(boundary)) = 0
        BY <4>1, <2>1, <1>3, TailShape
      <4>3. QED
        BY Zenon, <4>2, SeqNothing
    <3>3. Tail(a) \in Seq(Packet)
      BY Zenon, <2>2, TailShape
    <3>4. QED
      BY ZenonT(60), <3>1, <3>2, <3>3, <2>3
  <2>5. c = <<>>
    <3> HIDE DEF a, b, c
    <3>1. QED
      BY Zenon, <2>2, <2>4, AllEmpty
  <2> DEFINE r == [Live EXCEPT !.sent = Tail(Live.sent)]
  <2>6. /\ r \in Sender /\ r.sent = Tail(Live.sent) /\ r.pc = Live.pc /\ r.cmd = Live.cmd
        /\ r.queue = Live.queue /\ r.drops = Live.drops /\ r.own = Live.own
    BY Zenon, <2>1, <2>4 DEF Sender
  <2>7. senders' = [senders EXCEPT ![live] = r]
    BY Zenon, <1>6 DEF Live
  <2> HIDE DEF r
  <2>8. senders' \in Seq(Sender) /\ senders' # <<>>
    BY ZenonT(60), <2>6, <2>7, <1>2, LiveUpdate
  <2>9. TypeOK' /\ SourceFits'
    <3>1. bsent' \in Nat /\ <<>> \in Seq(Packet)
      BY SMTT(60), <2>1, <1>6
    <3>2. dpc' = "bound" /\ UNCHANGED <<ret, why, result>>
      BY Zenon, <1>6
    <3>3. QED
      BY SMTT(60), <3>1, <3>2, <2>8, <1>1, <1>2 DEF TypeOK, SourceFits
  <2>10. ControlPoints'
    BY Zenon, <1>1, <1>2, <1>3, <1>6 DEF ControlPoints
  <2>11. InSender(r) = (IF ret = "cleanup" THEN <<>> ELSE pending') \o boundary'
    <3>1. InSender(r) = <<>>
      BY Zenon, <2>4, <2>6 DEF InSender
    <3>2. (IF ret = "cleanup" THEN <<>> ELSE pending') = <<>>
      BY Zenon, <1>1, <1>4
    <3>3. QED
      BY SMTT(60), <3>1, <3>2, <1>1
  <2>12. /\ r.drops = <<>> /\ Len(r.queue) <= CommandCap
         /\ \A i \in DOMAIN r.queue : r.queue[i].gen = ActiveGeneration(Live)
    <3>1. Live.drops = <<>> /\ Len(Live.queue) <= CommandCap
      BY Zenon, <1>3 DEF MirrorInv, Mirrored
    <3>2. r.drops = <<>> /\ Len(r.queue) <= CommandCap
      BY Zenon, <2>6, <3>1
    <3>3. DOMAIN r.queue = {}
      BY SMTT(60), <2>5, <2>6
    <3>4. QED
      BY Zenon, <3>2, <3>3
  <2>13. /\ ret # "cleanup" => \A i \in DOMAIN prepared' : prepared'[i].gen = generation
         /\ Flushed' => pending' = <<>> /\ prepared' = <<>>
    <3>1. ret # "cleanup" => pending' = <<>> /\ prepared' = <<>>
      BY Zenon, <1>1, <1>4
    <3>2. Flushed' => ret # "cleanup"
      BY Zenon, <1>6 DEF Flushed
    <3>3. ret # "cleanup" => \A i \in DOMAIN prepared' : prepared'[i].gen = generation
      BY SMTT(60), <3>1
    <3>4. QED
      BY ZenonT(60), <3>1, <3>2, <3>3
  <2>14. dpc # "rebase" /\ dpc' # "rebase" /\ ret' = ret /\ generation' = generation
    BY Zenon, <1>1, <1>6
  <2>15. QED
    BY ZenonT(60), <2>6, <2>7, <2>9, <2>10, <2>11, <2>12, <2>13, <2>14, <1>3, LiveStep
<1>7. QED
  BY Zenon, <1>5, <1>6 DEF BoundaryOutcome

\* The cleanup after the driver: a boundary through a sender of its own.
LEMMA CleanupPreserves ==
  ASSUME MirrorInv, Cleanup
  PROVE  MirrorInv'
<1>1. /\ dpc = "cleanup"
      /\ UNCHANGED <<source, srcError, ppc, paused, sourceEnded, underrun, settled, result,
                     egress, prepared, pending, boundary, generation, reserved, mq, discarded,
                     daves, faults, cmds, why, produced, refill, eos, current, cursor,
                     position, issued, silenced, wire, tail>>
  BY Zenon DEF Cleanup, DriverOnly, loopVars, queueVars, histVars
<1>2. TypeOK /\ SourceFits /\ ControlPoints /\ HoldsItsCommand
  BY Zenon DEF MirrorInv
<1>3. ret # "cleanup" /\ boundary = <<>>
  BY Zenon, <1>1, <1>2 DEF ControlPoints
<1>4. CASE /\ senders' = Append(senders, NewSender(TRUE))
           /\ dpc' = "bound" /\ ret' = "cleanup" /\ bsent' = 0 /\ speaking' = TRUE
  <2> DEFINE r == NewSender(TRUE)
  <2>1. /\ r \in Sender /\ r.pc = "loop" /\ r.cmd = <<>> /\ r.queue = <<>> /\ r.sent = <<>>
        /\ r.drops = <<>> /\ r.own = TRUE
    BY Zenon, FreshSender
  <2>2. senders' = Append(senders, r)
    BY Zenon, <1>4
  <2> HIDE DEF r
  <2>3. senders \in Seq(Sender)
    BY Zenon, <1>2 DEF TypeOK
  <2>4. senders' \in Seq(Sender) /\ senders' # <<>> /\ Live' = r /\ HoldsItsCommand'
    BY ZenonT(60), <2>1, <2>2, <2>3, <1>2, SpawnedSender DEF HoldsItsCommand, live
  <2>5. TypeOK' /\ SourceFits'
    <3>1. speaking' \in BOOLEAN /\ dpc' = "bound" /\ ret' = "cleanup" /\ bsent' = 0
      BY Zenon, <1>4
    <3>2. QED
      BY SMTT(60), <3>1, <2>4, <1>1, <1>2 DEF TypeOK, SourceFits
  <2>6. ControlPoints'
    BY Zenon, <1>1, <1>3, <1>4 DEF ControlPoints
  <2>7. Live'.own = (ret' = "cleanup")
    BY ZenonT(60), <2>1, <2>4, <1>4
  <2>8. QED
    BY ZenonT(60), <2>1, <2>4, <2>5, <2>6, <2>7, <1>1, <1>3, <1>4, FreshMirrors
<1>5. CASE /\ dpc' = "returned" /\ speaking' = (speaking /\ current)
           /\ UNCHANGED <<senders, ret, bsent>>
  <2>1. TypeOK' /\ SourceFits'
    <3>1. speaking' \in BOOLEAN /\ dpc' = "returned" /\ UNCHANGED <<senders, ret, bsent>>
      BY Zenon, <1>5
    <3>2. QED
      BY SMTT(60), <3>1, <1>1, <1>2 DEF TypeOK, SourceFits
  <2>2. HoldsItsCommand'
    BY Zenon, <1>2, <1>5 DEF HoldsItsCommand, live
  <2>3. QED
    BY ZenonT(60), <2>1, <2>2, <1>1, <1>3, <1>5, Detached
<1>6. QED
  BY ZenonT(60), <1>4, <1>5 DEF Cleanup

-----------------------------------------------------------------------------
(* The initial states.                                                     *)

\* The playback starts with a sender that has nothing and a source filled to
\* its target.
LEMMA InitEstablishes == Init => MirrorInv
<1>1. SUFFICES ASSUME Init PROVE MirrorInv
  OBVIOUS
<1> DEFINE n == Least(NFrames, SourceTarget)
           r == NewSender(FALSE)
<1>2. n \in 0..NFrames /\ n <= SourceTarget
  BY SMTT(60), ConstantTypes DEF Least
<1>3. source \in Seq(Frames) /\ Len(source) = n
  <2>1. source = [i \in 1..n |-> i] /\ n \in Nat
    BY SMTT(60), <1>1, <1>2, ConstantTypes DEF Init
  <2> HIDE DEF n
  <2>2. \A i \in 1..n : i \in Frames
    BY SMTT(60), <2>1, <1>2, ConstantTypes DEF Frames
  <2>3. source \in [1..n -> Frames]
    BY Zenon, <2>1, <2>2
  <2>4. QED
    BY SMTT(60), <2>1, <2>3
<1>4. produced \in 0..NFrames /\ SourceFits
  BY Zenon, <1>1, <1>2, <1>3 DEF Init, SourceFits
<1>5. /\ r \in Sender /\ r.pc = "loop" /\ r.cmd = <<>> /\ r.queue = <<>> /\ r.sent = <<>>
      /\ r.drops = <<>> /\ r.own = FALSE
  BY ZenonT(60), FreshSender
<1>6. senders = <<r>>
  BY Zenon, <1>1 DEF Init
<1> HIDE DEF r
<1>7. senders \in Seq(Sender) /\ senders # <<>> /\ live = 1 /\ Live = r /\ senders[1] = r
  BY SMTT(60), <1>5, <1>6 DEF live, Live
<1>8. TypeOK
  <2>1. eos \in BOOLEAN /\ srcError \in BOOLEAN /\ paused \in BOOLEAN /\ sourceEnded \in BOOLEAN
    <3>1. eos = (n < SourceTarget) /\ srcError = FALSE /\ paused = FALSE /\ sourceEnded = FALSE
      BY Zenon, <1>1 DEF Init, SourceEndedBeforePlaying
    <3>2. (n < SourceTarget) \in BOOLEAN
      OBVIOUS
    <3> HIDE DEF n
    <3>3. QED
      BY Zenon, <3>1, <3>2
  <2>2. underrun \in BOOLEAN /\ settled \in BOOLEAN /\ current \in BOOLEAN /\ speaking \in BOOLEAN
    BY ZenonT(60), <1>1 DEF Init
  <2>3. /\ egress = <<>> /\ prepared = <<>> /\ pending = <<>> /\ boundary = <<>> /\ cmds = <<>>
        /\ wire = {} /\ tail = <<>> /\ refill = 0 /\ bsent = 0 /\ generation = 0 /\ reserved = 0
        /\ cursor = 0 /\ mq = 0 /\ position = 0 /\ discarded = 0
        /\ issued = 0 /\ daves = 0 /\ faults = 0 /\ silenced = 0
        /\ ppc = "check" /\ dpc = "top" /\ ret = "cmd1" /\ why = "none" /\ result = "none"
    BY Zenon, <1>1 DEF Init
  <2>4. /\ <<>> \in Seq(Frames) /\ <<>> \in Seq(Packet) /\ <<>> \in Seq({"Pause", "Resume", "Stop"})
        /\ <<>> \in Seq(Kinds)
    OBVIOUS
  <2>5. 0 \in 0..MaxCommands /\ 0 \in 0..MaxDave /\ 0 \in 0..MaxFaults /\ 0 \in 0..MaxSilence
    BY SMTT(60), ConstantTypes
  <2>6. QED
    BY ZenonT(60), <2>1, <2>2, <2>3, <2>4, <2>5, <1>3, <1>4, <1>7 DEF TypeOK
<1>9. HoldsItsCommand
  BY SMTT(60), <1>5, <1>7 DEF HoldsItsCommand
<1>10. dpc = "top" /\ ret = "cmd1" /\ boundary = <<>> /\ pending = <<>> /\ prepared = <<>> /\ ~paused
  BY Zenon, <1>1 DEF Init
<1>11. ControlPoints /\ FlushedIsEmpty
  BY Zenon, <1>10 DEF ControlPoints, FlushedIsEmpty
<1>12. Mirrored
  <2>1. InSender(Live) = <<>> /\ pending \o boundary = <<>>
    BY SMTT(60), <1>5, <1>7, <1>10 DEF InSender
  <2>2. Len(Live.queue) <= CommandCap
    BY SMTT(60), <1>5, <1>7, ConstantTypes
  <2>3. QED
    BY ZenonT(60), <2>1, <2>2, <1>5, <1>7, <1>10 DEF Mirrored
<1>13. ActiveGenerations
  BY SMTT(60), <1>5, <1>7, <1>10 DEF ActiveGenerations
<1>14. QED
  BY Zenon, <1>4, <1>8, <1>9, <1>11, <1>12, <1>13 DEF MirrorInv

-----------------------------------------------------------------------------
(* All steps.                                                             *)

\* Every step of every thread preserves the invariant.
LEMMA NextPreserves ==
  ASSUME FramesTyped, CountsTyped, MirrorInv, [Next]_vars
  PROVE  MirrorInv'
<1>1. MirrorInv /\ FramesTyped /\ CountsTyped
  OBVIOUS
<1>2. CASE DriverNext
  BY ZenonT(60), <1>1, <1>2, DriverMovesPreserve, DriverEndsPreserve, GatewayErrorPreserves,
     OutcomePreserves, FillPreserves, CommandsDone2Preserves, InvalidatePreserves,
     RebaseOnlyPreserves, RebasePreserves, BoundaryStepPreserves, BoundaryOutcomePreserves,
     CleanupPreserves
  DEF DriverNext
<1>3. CASE ProducerNext
  BY Zenon, <1>1, <1>3, ProducerPreserves
<1>4. CASE \E s \in 1..live : SenderNext(s)
  BY Zenon, <1>1, <1>4, SenderPreserves
<1>5. CASE PumpNext \/ ControlNext
  BY Zenon, <1>1, <1>5, ControlPreserves
<1>6. CASE UNCHANGED vars
  BY Zenon, <1>1, <1>6, StutterPreserves
<1>7. QED
  BY Zenon, <1>1, <1>2, <1>3, <1>4, <1>5, <1>6 DEF Next, Finished

=============================================================================
