---------------------------- MODULE MediaPlayout ----------------------------
(***************************************************************************)
(* The media path of one playback: the source producer task, the live      *)
(* media driver thread, the deadline sender threads it spawns and replaces,*)
(* the RTP cursors of the UDP transport they share, and the part of        *)
(* send_playback_frames that pumps metrics and cleans up after the driver. *)
(*                                                                         *)
(* A source frame is its index in the track; every frame lasts 20 ms, so   *)
(* the watermarks of the code, in milliseconds, are counted in frames.     *)
(***************************************************************************)
EXTENDS Integers, Sequences, FiniteSets

CONSTANTS
    NFrames,          \* frames of the track
    SourceTarget,     \* PLAYBACK_SOURCE_BUFFER_TARGET_MS (250 frames)
    SourceLow,        \* PLAYBACK_SOURCE_BUFFER_LOW_WATERMARK_MS (200)
    RefillBatch,      \* PLAYBACK_SOURCE_BUFFER_REFILL_BATCH_MS (50)
    EgressTarget,     \* DISCORD_EGRESS_BUFFER_TARGET_MS (20)
    EgressHigh,       \* DISCORD_EGRESS_BUFFER_HIGH_WATERMARK_MS (25)
    BoundaryPackets,  \* STOP_AUDIO_BOUNDARY_SILENCE_PACKETS (5)
    UnderrunAhead,    \* SOURCE_UNDERRUN_DEADLINE_AHEAD_PACKETS (3)
    CommandCap,       \* LIVE_DEADLINE_COMMAND_CHANNEL_CAPACITY (25)
    RecordCap,        \* LIVE_DEADLINE_RECORD_CHANNEL_CAPACITY (64)
    CursorPeriod,     \* packets after which an RTP cursor repeats (2^26)
    MetricsCap,       \* PLAYBACK_PIPELINE_METRICS_CHANNEL_CAPACITY (1024)
    MaxCommands,      \* bound: control commands and interruptions issued
    MaxDave,          \* bound: DAVE transitions met by the driver
    MaxSilence,       \* bound: underrun silences modelled one by one
    MaxFaults         \* bound: source errors and gateway failures

ASSUME MediaConstants ==
    /\ {NFrames, SourceLow, MaxCommands, MaxDave, MaxSilence, MaxFaults} \subseteq Nat
    /\ {SourceTarget, RefillBatch, EgressTarget, EgressHigh, BoundaryPackets,
        UnderrunAhead, CommandCap, RecordCap, CursorPeriod, MetricsCap}
          \subseteq Nat \ {0}

ASSUME WatermarksOrdered ==
    /\ EgressTarget <= EgressHigh
    /\ EgressTarget + UnderrunAhead < RecordCap /\ RecordCap < CursorPeriod
    /\ SourceLow + RefillBatch <= SourceTarget

VARIABLES
    \* SharedSourceBuffer, and the producer task that fills it
    source, eos, srcError, produced, ppc, refill,
    \* LiveMediaDriver: program counter, where a command returns to, why the
    \* generation is being invalidated, and the locals of run_loop
    dpc, ret, why, paused, sourceEnded, underrun, settled, result,
    egress, prepared, pending,
    \* the stop-audio boundary in progress: packet awaiting its outcome, sent
    boundary, bsent,
    \* MediaCommand channel; playback_epoch still the driver's
    cmds, current,
    \* playout generation, reserved cursor, send cursor, speaking_started
    generation, reserved, cursor, speaking,
    \* deadline sender threads, the driver's own one last
    senders,
    \* SenderSent metrics in flight, the shared position, discarded frames
    mq, position, discarded,
    \* bounds used up
    issued, daves, faults, silenced,
    \* history: frames put on the wire, kinds of the last committed packets
    wire, tail

srcVars   == <<source, eos, srcError, produced, ppc, refill>>
loopVars  == <<paused, sourceEnded, underrun, settled, result>>
queueVars == <<egress, prepared, pending>>
boundVars == <<boundary, bsent>>
cmdVars   == <<cmds, current>>
rtpVars   == <<generation, reserved, cursor, speaking>>
pumpVars  == <<mq, position, discarded>>
envVars   == <<issued, daves, faults, silenced>>
histVars  == <<wire, tail>>
pcVars    == <<dpc, ret, why>>
vars == <<srcVars, loopVars, queueVars, boundVars, cmdVars, rtpVars, senders,
          pumpVars, envVars, histVars, pcVars>>

-----------------------------------------------------------------------------
(* Packets and RTP cursors.                                                *)

Frames == 1..NFrames
NoFrame == 0
Kinds == {"Track", "ScheduledSilence", "BoundarySilence"}

Packet == [kind : Kinds, frame : Frames \cup {NoFrame}, seq : Nat, gen : Nat]

\* The cursor k reservations after c.  The code's cursor is a u16 sequence and
\* a u32 timestamp that wrap; as a pair they repeat after 2^26 packets.
Advance(c, k) == (c + k) % CursorPeriod

NewPacket(kind, frame, c, gen) ==
    [kind |-> kind, frame |-> frame, seq |-> c, gen |-> gen]

\* The source frames among packets, in order: silence carries none.
FramesOf(packets) ==
    LET upTo[i \in 0..Len(packets)] ==
            IF i = 0 THEN <<>>
            ELSE IF packets[i].frame = NoFrame THEN upTo[i - 1]
            ELSE Append(upTo[i - 1], packets[i].frame)
    IN  upTo[Len(packets)]

\* The first n elements of a sequence and the rest of it.
FirstN(s, n) == SubSeq(s, 1, n)
AfterN(s, n) == SubSeq(s, n + 1, Len(s))

Least(a, b) == IF a < b THEN a ELSE b
Most(a, b) == IF a > b THEN a ELSE b

-----------------------------------------------------------------------------
(* Deadline sender threads.                                                *)

\* A freshly spawned LiveDeadlineSender: an own one compares generations with
\* a counter of its own that stays 0, the others with the driver's.
NewSender(own) ==
    [pc |-> "loop", queue |-> <<>>, cmd |-> <<>>, sent |-> <<>>,
     drops |-> <<>>, retired |-> FALSE, own |-> own]

live == Len(senders)
Live == senders[live]

\* Dropping a LiveDeadlineSender raises its shutdown flag, closes its command
\* channel and loses the records still in its record channels.
Retired(sender) ==
    [sender EXCEPT !.retired = TRUE, !.sent = <<>>, !.drops = <<>>]

ActiveGeneration(sender) == IF sender.own THEN 0 ELSE generation

\* A packet that is on its way through the live sender, in order.
InSender(sender) == sender.sent \o sender.cmd \o sender.queue

\* Only the thread's own state changes.
SenderOnly ==
    UNCHANGED <<srcVars, loopVars, queueVars, boundVars, cmdVars, pumpVars,
                envVars, pcVars>>

\* run: the shutdown flag is read before each tick, not inside it.
SenderLoop(s) ==
    /\ senders[s].pc = "loop"
    /\ senders' = [senders EXCEPT ![s].pc =
                       IF senders[s].retired THEN "exited" ELSE "tick"]
    /\ SenderOnly
    /\ UNCHANGED <<rtpVars, histVars>>

\* tick_once on an empty channel: nothing to send in this slot, or shutdown
\* when the channel is closed too.
SenderEmptyTick(s) ==
    /\ senders[s].pc = "tick"
    /\ senders[s].queue = <<>>
    /\ senders' = [senders EXCEPT ![s].pc =
                       IF senders[s].retired THEN "exited" ELSE "loop"]
    /\ SenderOnly
    /\ UNCHANGED <<rtpVars, histVars>>

\* tick_once takes a command whose generation is the active one.
SenderTake(s) ==
    /\ senders[s].pc = "tick"
    /\ senders[s].queue # <<>>
    /\ Head(senders[s].queue).gen = ActiveGeneration(senders[s])
    /\ senders' = [senders EXCEPT ![s].pc = "holding",
                                  ![s].cmd = <<Head(senders[s].queue)>>,
                                  ![s].queue = Tail(@)]
    /\ SenderOnly
    /\ UNCHANGED <<rtpVars, histVars>>

\* tick_once takes a command of another generation: it is dropped, with a
\* record; the thread ends when the record channel is closed or full.
SenderDrop(s) ==
    /\ senders[s].pc = "tick"
    /\ senders[s].queue # <<>>
    /\ Head(senders[s].queue).gen # ActiveGeneration(senders[s])
    /\ LET full == senders[s].retired \/ Len(senders[s].drops) >= RecordCap
       IN  senders' = [senders EXCEPT
                ![s].pc = IF full THEN "exited" ELSE "loop",
                ![s].queue = Tail(@),
                ![s].drops = IF full THEN @ ELSE Append(@, Head(senders[s].queue))]
    /\ SenderOnly
    /\ UNCHANGED <<rtpVars, histVars>>

\* send_prepared_packet: the packet must carry the send cursor.
SenderCheckCursor(s) ==
    /\ senders[s].pc = "holding"
    /\ senders' = [senders EXCEPT ![s].pc =
                       IF senders[s].cmd[1].seq = cursor
                       THEN "sending" ELSE "exited"]
    /\ SenderOnly
    /\ UNCHANGED <<rtpVars, histVars>>

\* send_prepared_packet: the datagram leaves the socket.
SenderTransmit(s) ==
    /\ senders[s].pc = "sending"
    /\ senders' = [senders EXCEPT ![s].pc = "transmitted"]
    /\ wire' = wire \cup ({senders[s].cmd[1].frame} \ {NoFrame})
    /\ SenderOnly
    /\ UNCHANGED <<rtpVars, tail>>

\* send_prepared_packet: the socket reports an error, and the thread ends.
SenderSocketError(s) ==
    /\ senders[s].pc = "sending"
    /\ faults < MaxFaults
    /\ faults' = faults + 1
    /\ senders' = [senders EXCEPT ![s].pc = "exited"]
    /\ UNCHANGED <<srcVars, loopVars, queueVars, boundVars, cmdVars, pumpVars,
                   issued, daves, silenced, pcVars, rtpVars, histVars>>

\* send_prepared_packet advances the shared cursor by compare-and-exchange,
\* then tick_once reports the send; the thread ends when either one fails.
SenderCommit(s) ==
    /\ senders[s].pc = "transmitted"
    /\ LET packet == senders[s].cmd[1]
           full == senders[s].retired \/ Len(senders[s].sent) >= RecordCap
           kinds == Append(tail, packet.kind)
       IN  IF packet.seq # cursor
           THEN /\ senders' = [senders EXCEPT ![s].pc = "exited"]
                /\ UNCHANGED <<rtpVars, tail>>
           ELSE /\ cursor' = Advance(cursor, 1)
                /\ tail' = IF Len(kinds) > BoundaryPackets THEN Tail(kinds) ELSE kinds
                /\ senders' = [senders EXCEPT
                        ![s].pc = IF full THEN "exited" ELSE "loop",
                        ![s].cmd = IF full THEN @ ELSE <<>>,
                        ![s].sent = IF full THEN @ ELSE Append(@, packet)]
                /\ UNCHANGED <<generation, reserved, speaking>>
    /\ SenderOnly
    /\ UNCHANGED wire

SenderNext(s) ==
    \/ SenderLoop(s)
    \/ SenderEmptyTick(s)
    \/ SenderTake(s)
    \/ SenderDrop(s)
    \/ SenderCheckCursor(s)
    \/ SenderTransmit(s)
    \/ SenderSocketError(s)
    \/ SenderCommit(s)

-----------------------------------------------------------------------------
(* The source producer task.                                               *)

\* Notify::notify_waiters wakes the producer only if it is already waiting.
Notified(pc) == IF pc = "waiting" THEN "check" ELSE pc

ProducerOnly ==
    UNCHANGED <<loopVars, queueVars, boundVars, cmdVars, rtpVars, senders,
                pumpVars, issued, daves, silenced, histVars, pcVars>>

\* The size of the next batch, from the depth at the time of the check.
RefillSize == Most(SourceTarget - Len(source), RefillBatch)

\* Mutant: the producer waits only while the buffer is past its target.
ProducerCheckEager ==
    /\ ppc = "check"
    /\ ppc' = CASE eos \/ srcError -> "done"
              [] ~(eos \/ srcError) /\ Len(source) > SourceTarget -> "await"
              [] OTHER -> "fill"
    /\ refill' = IF ppc' = "fill" THEN RefillSize ELSE refill
    /\ ProducerOnly
    /\ UNCHANGED <<source, eos, srcError, produced, faults>>

\* Under the buffer's lock: stop at the end or after an error, else decide
\* between waiting for room and refilling.
ProducerCheck ==
    /\ ppc = "check"
    /\ ppc' = CASE eos \/ srcError -> "done"
              [] ~(eos \/ srcError) /\ Len(source) >= SourceLow -> "await"
              [] OTHER -> "fill"
    /\ refill' = IF ppc' = "fill" THEN RefillSize ELSE refill
    /\ ProducerOnly
    /\ UNCHANGED <<source, eos, srcError, produced, faults>>

\* The lock is released before the Notified future exists: a notification
\* sent in between is lost.
ProducerAwait ==
    /\ ppc = "await"
    /\ ppc' = "waiting"
    /\ ProducerOnly
    /\ UNCHANGED <<source, eos, srcError, produced, refill, faults>>

\* producer_refill_reached_end_of_stream: a batch of n shorter than asked for.
ReachedEndOfStream(n) == n < refill

\* fill_queue_to_duration_ms produced a batch, pushed under the lock; a short
\* batch is the end of the stream, and a frame that does not fit is an error.
ProducerRefill ==
    /\ ppc = "fill"
    /\ LET n == Least(refill, NFrames - produced)
           fit == Least(n, SourceTarget - Len(source))
       IN  /\ source' = source \o [i \in 1..fit |-> produced + i]
           /\ produced' = produced + n
           /\ srcError' = (fit < n)
           /\ eos' = (fit = n /\ ReachedEndOfStream(n))
           /\ ppc' = IF fit < n \/ ReachedEndOfStream(n) THEN "done" ELSE "check"
    /\ ProducerOnly
    /\ UNCHANGED <<refill, faults>>

\* fill_queue_to_duration_ms failed: the error is left for the driver.
ProducerError ==
    /\ ppc = "fill"
    /\ faults < MaxFaults
    /\ faults' = faults + 1
    /\ srcError' = TRUE
    /\ ppc' = "done"
    /\ ProducerOnly
    /\ UNCHANGED <<source, eos, produced, refill>>

ProducerNext == ProducerCheck \/ ProducerAwait \/ ProducerRefill \/ ProducerError

-----------------------------------------------------------------------------
(* The live media driver: run_loop and what it calls.  Its thread gives up *)
(* control only where the threads around it can be told apart, so one      *)
(* action runs from one such point (a value of dpc) to the next.           *)

Running == dpc \notin {"exited", "cleanup", "returned"} /\ ret # "cleanup"

DriverOnly ==
    UNCHANGED <<produced, refill, eos, current, cursor, position, issued,
                silenced, histVars>>

\* The same for the two actions that schedule underrun silence.
DriverOnlyBut ==
    UNCHANGED <<produced, refill, eos, current, cursor, position, issued,
                histVars>>

\* run_loop returns: the LiveDeadlineSender local to it is dropped.
Exit(outcome) ==
    /\ dpc' = "exited"
    /\ result' = outcome
    /\ senders' = [senders EXCEPT ![live] = Retired(@)]
    /\ UNCHANGED <<ret, why>>

\* run_loop starts over: is the playback still the current one?
DriverTop ==
    /\ dpc = "top"
    /\ IF current
       THEN /\ dpc' = "drain"
            /\ ret' = "cmd1"
            /\ UNCHANGED why
       ELSE /\ dpc' = "invalidate"
            /\ why' = "stale"
            /\ UNCHANGED ret
    /\ DriverOnly
    /\ UNCHANGED <<source, srcError, ppc, loopVars, queueVars, boundVars,
                   generation, reserved, speaking, senders, mq, discarded,
                   daves, faults, cmds>>

\* Any look at the source buffer takes the error the producer left there.
DriverSourceError ==
    /\ dpc \in {"drain", "fill"}
    /\ srcError
    /\ srcError' = FALSE
    /\ Exit("error")
    /\ DriverOnly
    /\ UNCHANGED <<source, ppc, paused, sourceEnded, underrun, settled,
                   queueVars, boundVars, generation, reserved, speaking, mq,
                   discarded, daves, faults, cmds>>

\* Mutant: silence counts as heard media.
CommittedIsTrackAlways(record) == TRUE

\* A send counts as heard media when it carried a source frame.
CommittedIsTrack(record) == record.frame # NoFrame

\* matches_sent_record compares everything but the generation.
MatchesSent(p, record) ==
    p.kind = record.kind /\ p.frame = record.frame /\ p.seq = record.seq

\* matches_drop_record compares the generation too.
MatchesDropped(p, record) == p = record

\* account_deadline_outcome for a send: the pending command leaves the queue
\* and a track send is reported, unless the metrics channel is full.
AccountSent ==
    LET record == Head(Live.sent)
        ok == pending # <<>> /\ MatchesSent(Head(pending), record)
    IN  /\ Live.sent # <<>>
        /\ IF ok
           THEN /\ senders' = [senders EXCEPT ![live].sent = Tail(@)]
                /\ pending' = Tail(pending)
                /\ mq' = IF CommittedIsTrack(record) /\ mq < MetricsCap
                         THEN mq + 1 ELSE mq
                /\ dpc' = IF dpc = "select" THEN "top" ELSE dpc
                /\ UNCHANGED <<ret, why, result>>
           ELSE /\ Exit("error")
                /\ UNCHANGED <<pending, mq>>
        /\ UNCHANGED <<egress, source, ppc, discarded>>

\* account_deadline_outcome for a drop: account_unsent_egress_frame puts the
\* frame back in front of the egress buffer, else of the source, else away.
AccountDropped ==
    LET record == Head(Live.drops)
        ok == pending # <<>> /\ MatchesDropped(Head(pending), record)
        restored == ok /\ record.frame # NoFrame
        toEgress == restored /\ Len(egress) < EgressHigh
        toSource == restored /\ ~toEgress /\ Len(source) < SourceTarget
    IN  /\ Live.drops # <<>>
        /\ IF ok
           THEN /\ senders' = [senders EXCEPT ![live].drops = Tail(@)]
                /\ pending' = Tail(pending)
                /\ dpc' = IF dpc = "select" THEN "top" ELSE dpc
                /\ UNCHANGED <<ret, why, result>>
           ELSE /\ Exit("error")
                /\ UNCHANGED pending
        /\ egress' = IF toEgress THEN <<record.frame>> \o egress ELSE egress
        /\ source' = IF toSource THEN <<record.frame>> \o source ELSE source
        /\ ppc' = IF toSource THEN Notified(ppc) ELSE ppc
        /\ discarded' = IF restored /\ ~toEgress /\ ~toSource
                      THEN discarded + 1 ELSE discarded
        /\ UNCHANGED mq

OutcomeOnly ==
    /\ DriverOnly
    /\ UNCHANGED <<srcError, paused, sourceEnded, underrun, settled, prepared,
                   boundVars, generation, reserved, speaking, daves, faults, cmds>>

\* drain_ready_deadline_outcomes: try_next_outcome looks at sends first.
DriverDrainOutcome ==
    /\ dpc = "drain"
    /\ ~srcError
    /\ Live.pc = "exited" => Live.sent # <<>>
    /\ IF Live.sent # <<>> THEN AccountSent ELSE AccountDropped
    /\ OutcomeOnly

\* The thread is gone: try_next_outcome fails once the sends are read, and
\* next_outcome as soon as either record channel is empty.
SenderGone ==
    /\ Live.pc = "exited"
    /\ Live.sent = <<>> \/ (dpc # "drain" /\ Live.drops = <<>>)

DriverSenderGone ==
    /\ dpc \in {"drain", "select"}
    /\ dpc = "drain" => ~srcError
    /\ SenderGone
    /\ Exit("error")
    /\ DriverOnly
    /\ UNCHANGED <<source, srcError, ppc, paused, sourceEnded, underrun,
                   settled, queueVars, boundVars, generation, reserved,
                   speaking, mq, discarded, daves, faults, cmds>>

\* Nothing is left to account: on to the commands, or to the DAVE rebuild.
DriverDrained ==
    /\ dpc = "drain"
    /\ ~srcError
    /\ Live.sent = <<>> /\ Live.drops = <<>> /\ Live.pc # "exited"
    /\ IF ret = "rebuild"
       THEN dpc' = "invalidate" /\ why' = "dave"
       ELSE dpc' = "cmd1" /\ UNCHANGED why
    /\ UNCHANGED ret
    /\ DriverOnly
    /\ UNCHANGED <<source, srcError, ppc, loopVars, queueVars, boundVars,
                   generation, reserved, speaking, senders, mq, discarded,
                   daves, faults, cmds>>

\* apply_command does nothing for a pause when paused or a resume when not.
Redundant(command) == command = IF paused THEN "Pause" ELSE "Resume"

\* apply_command, from drain_commands (cmd1, cmd2), from the select at the end
\* of the loop, or from wait_while_paused.
DriverCommand ==
    /\ dpc \in {"cmd1", "cmd2", "select", "paused"}
    /\ cmds # <<>>
    /\ cmds' = Tail(cmds)
    /\ LET back == IF dpc = "select" THEN "top" ELSE dpc
           command == Head(cmds)
       IN  /\ ret' = back
           /\ \/ /\ command = "Pause" /\ ~paused
                 /\ dpc' = "invalidate" /\ why' = "pause"
                 /\ UNCHANGED <<paused, speaking>>
              \/ /\ command = "Stop"
                 /\ dpc' = "invalidate" /\ why' = "stop"
                 /\ UNCHANGED <<paused, speaking>>
              \/ /\ command = "Resume" /\ paused
                 /\ paused' = FALSE /\ speaking' = TRUE
                 /\ dpc' = IF dpc = "paused" THEN "top" ELSE back
                 /\ UNCHANGED why
              \/ /\ Redundant(command)
                 /\ dpc' = back
                 /\ UNCHANGED <<why, paused, speaking>>
    /\ DriverOnly
    /\ UNCHANGED <<source, srcError, ppc, sourceEnded, underrun, settled,
                   result, queueVars, boundVars, generation, reserved, senders,
                   mq, discarded, daves, faults>>

\* drain_commands found the channel empty the first time round the loop.
DriverCommandsDone ==
    /\ dpc = "cmd1"
    /\ cmds = <<>>
    /\ dpc' = IF paused THEN "paused" ELSE "slot"
    /\ sourceEnded' = (sourceEnded /\ (paused \/ source = <<>>))
    /\ DriverOnly
    /\ UNCHANGED <<source, srcError, ppc, paused, underrun, settled, result,
                   queueVars, boundVars, generation, reserved, speaking,
                   senders, mq, discarded, daves, faults, cmds, ret, why>>

\* wait_while_paused notices that another playback has taken over.
DriverPausedStale ==
    /\ dpc = "paused"
    /\ ~current
    /\ Exit("stopped")
    /\ DriverOnly
    /\ UNCHANGED <<source, srcError, ppc, paused, sourceEnded, underrun,
                   settled, queueVars, boundVars, generation, reserved,
                   speaking, mq, discarded, daves, faults, cmds>>

\* prepare_media_state_before_slot: no DAVE transition, or one that was
\* executed (settled is FALSE), or one that had to be settled after an error.
DriverSlot ==
    /\ dpc = "slot"
    /\ \/ /\ dpc' = "fill" /\ settled' = FALSE
          /\ UNCHANGED <<ret, daves>>
       \/ /\ daves < MaxDave /\ daves' = daves + 1
          /\ settled' \in BOOLEAN
          /\ dpc' = "drain" /\ ret' = "rebuild"
    /\ UNCHANGED why
    /\ DriverOnly
    /\ UNCHANGED <<source, srcError, ppc, paused, sourceEnded, underrun, result,
                   queueVars, boundVars, generation, reserved, speaking,
                   senders, mq, discarded, faults, cmds>>

\* fill_source_underrun_silence_deadline_queue: how many more silences may be
\* scheduled behind the given pending commands and queued packets, while the
\* bound on them lasts.
SilencesDue(commands, queued) ==
    LET scheduled == {i \in DOMAIN commands : commands[i].kind = "ScheduledSilence"}
    IN  Least(Most(UnderrunAhead - Cardinality(scheduled), 0),
              Least(CommandCap - queued, MaxSilence - silenced))

Silences(k, c) ==
    [i \in 1..k |-> NewPacket("ScheduledSilence", NoFrame, Advance(c, i - 1), generation)]

\* Frames that may still be prepared: the target, less what is pending with the
\* sender and what is prepared already.
Room == Most(EgressTarget - Len(FramesOf(pending)) - Len(prepared), 0)

\* Mutant: fresh frames overtake the ones restored by an interruption.
PoolFreshFirst == IF sourceEnded THEN egress ELSE source \o egress

\* Where the next frames come from: first what an interruption restored to the
\* egress buffer, then the source, until it has ended.
Pool == IF sourceEnded THEN egress ELSE egress \o source

\* fill_prepared_playout_queue, then pump_prepared_playout_to_deadline_sender,
\* then scheduled silence during a source underrun.  Room frames may be
\* prepared: first the ones restored to the egress buffer, then fresh ones,
\* which end the underrun; a source that runs dry after its end has ended.
DriverFill ==
    /\ dpc = "fill"
    /\ ~srcError
    /\ LET room == Room
           pool == Pool
           n == Least(room, Len(pool))
           popped == Most(n - Len(egress), 0)
           polled == ~sourceEnded /\ Len(egress) < room
           ended == sourceEnded \/ (eos /\ n < room)
           starved == underrun /\ popped = 0
           tracks == [i \in 1..n |->
                        NewPacket("Track", pool[i], Advance(reserved, i - 1), generation)]
           ready == prepared \o tracks
           m == Least(Len(ready), CommandCap - Len(Live.queue))
           pumped == FirstN(ready, m)
           k == IF starved /\ ~ended
                THEN SilencesDue(pending \o pumped, Len(Live.queue) + m) ELSE 0
           batch == pumped \o Silences(k, Advance(reserved, n))
           closed == Live.pc = "exited" /\ batch # <<>>
       IN  /\ egress' = AfterN(egress, Least(n, Len(egress)))
           /\ source' = AfterN(source, popped)
           /\ ppc' = IF polled THEN Notified(ppc) ELSE ppc
           /\ prepared' = AfterN(ready, m)
           /\ sourceEnded' = ended
           /\ underrun' = starved
           /\ speaking' = (speaking \/ n > 0 \/ k > 0)
           /\ silenced' = silenced + k
           /\ IF closed
              THEN /\ Exit("error")
                   /\ reserved' = Advance(reserved, IF m > 0 THEN n ELSE n + 1)
                   /\ UNCHANGED pending
              ELSE /\ dpc' = IF settled THEN "top" ELSE "check2"
                   /\ reserved' = Advance(reserved, n + k)
                   /\ pending' = pending \o batch
                   /\ senders' = [senders EXCEPT ![live].queue = @ \o batch]
                   /\ UNCHANGED <<ret, why, result>>
    /\ DriverOnlyBut
    /\ UNCHANGED <<srcError, paused, settled, boundVars, generation, mq, discarded,
                   daves, faults, cmds>>

\* The epoch is looked at once more before the commands are drained again.
DriverRecheck ==
    /\ dpc = "check2"
    /\ IF current
       THEN dpc' = "cmd2" /\ UNCHANGED why
       ELSE dpc' = "invalidate" /\ why' = "stale"
    /\ DriverOnly
    /\ UNCHANGED <<source, srcError, ppc, loopVars, queueVars, boundVars,
                   generation, reserved, speaking, senders, mq, discarded,
                   daves, faults, cmds, ret>>

\* After the second drain_commands: pause, finish, or go and wait for an
\* outcome, with silence scheduled when nothing is pending.
DriverCommandsDone2 ==
    /\ dpc = "cmd2"
    /\ cmds = <<>>
    /\ LET k == SilencesDue(<<>>, Len(Live.queue))
           batch == Silences(k, reserved)
       IN  \/ /\ paused
              /\ dpc' = "invalidate" /\ why' = "repause"
              /\ UNCHANGED <<ret, result, pending, senders, reserved, underrun, speaking, silenced>>
           \/ /\ ~paused /\ pending = <<>> /\ sourceEnded
              /\ Exit("natural")
              /\ UNCHANGED <<pending, reserved, underrun, speaking, silenced>>
           \/ /\ ~paused /\ pending = <<>> /\ ~sourceEnded
              /\ underrun' = TRUE
              /\ speaking' = (speaking \/ k > 0)
              /\ silenced' = silenced + k
              /\ IF Live.pc = "exited" /\ k > 0
                 THEN /\ Exit("error")
                      /\ reserved' = Advance(reserved, 1)
                      /\ UNCHANGED pending
                 ELSE /\ dpc' = IF k > 0 THEN "select" ELSE "top"
                      /\ reserved' = Advance(reserved, k)
                      /\ pending' = batch
                      /\ senders' = [senders EXCEPT ![live].queue = @ \o batch]
                      /\ UNCHANGED <<ret, why, result>>
           \/ /\ ~paused /\ pending # <<>>
              /\ dpc' = "select"
              /\ UNCHANGED <<ret, why, result, pending, senders, reserved, underrun, speaking, silenced>>
    /\ DriverOnlyBut
    /\ UNCHANGED <<source, srcError, ppc, paused, sourceEnded, settled, egress,
                   prepared, boundVars, generation, mq, discarded, daves, faults,
                   cmds>>

\* Mutant: the select listens for the dropped packets only.
DriverSelectOutcomeDeaf ==
    /\ dpc = "select"
    /\ AccountDropped
    /\ OutcomeOnly

\* The select at the end of run_loop: an outcome of either kind arrives.
DriverSelectOutcome ==
    /\ dpc = "select"
    /\ \E dropped \in BOOLEAN : IF dropped THEN AccountDropped ELSE AccountSent
    /\ OutcomeOnly

\* invalidate_prepared_playout_generation, the first step of every
\* interruption; the sender threads may run before the second one.
DriverInvalidate ==
    /\ dpc = "invalidate"
    /\ generation' = generation + 1
    /\ dpc' = "rebase"
    /\ DriverOnly
    /\ UNCHANGED <<source, srcError, ppc, loopVars, queueVars, boundVars,
                   reserved, speaking, senders, mq, discarded, daves, faults,
                   cmds, ret, why>>

\* discard_unsent_prepared_packets alone, where the sender was replaced before.
DriverRebaseOnly ==
    /\ dpc = "rebase"
    /\ why \in {"repause", "restop"}
    /\ reserved' = cursor
    /\ \/ /\ why = "repause"
          /\ dpc' = "paused"
          /\ UNCHANGED <<ret, why, result, senders>>
       \/ /\ why = "restop"
          /\ Exit("stopped")
    /\ DriverOnly
    /\ UNCHANGED <<source, srcError, ppc, paused, sourceEnded, underrun,
                   settled, queueVars, boundVars, generation, speaking, mq,
                   discarded, daves, faults, cmds>>

\* Mutant: the old sender stays, with commands of the old generation queued.
ReplacedNot(leaving) == senders

\* replace_deadline_sender_after_invalidation: a new sender, and the old one
\* dropped; the new one is dropped at once when run_loop returns with it.
Replaced(leaving) ==
    Append([senders EXCEPT ![live] = Retired(@)],
           IF leaving THEN Retired(NewSender(FALSE)) ELSE NewSender(FALSE))

\* Mutant: the frames pending with the old sender are forgotten.
InterruptedFramesNotPending == FramesOf(prepared) \o egress

\* The frames an interruption takes back: pending, then prepared, then buffered.
InterruptedFrames == FramesOf(pending) \o FramesOf(prepared) \o egress

\* discard_unsent_prepared_packets, replace_deadline_sender_after_invalidation
\* and flush_egress_buffer_for_interruption: what was pending, prepared or
\* buffered goes back to the egress buffer in that order, the overflow to the
\* front of the source, and what fits in neither is discarded.
DriverRebase ==
    /\ dpc = "rebase"
    /\ why \in {"pause", "stop", "stale", "dave"}
    /\ reserved' = cursor
    /\ LET frames == InterruptedFrames
           kept == Least(Len(frames), EgressHigh)
           over == AfterN(frames, kept)
           fit == Least(Len(over), SourceTarget - Len(source))
           leaving == why = "stale" \/ (why = "stop" /\ ret # "cmd2")
       IN  /\ egress' = FirstN(frames, kept)
           /\ source' = AfterN(over, Len(over) - fit) \o source
           /\ ppc' = IF fit > 0 THEN Notified(ppc) ELSE ppc
           /\ discarded' = discarded + Len(over) - fit
           /\ senders' = Replaced(leaving)
           /\ result' = IF leaving THEN "stopped" ELSE result
           /\ dpc' = CASE leaving -> "exited"
                     [] why = "stop" /\ ret = "cmd2" -> "invalidate"
                     [] why = "pause" -> "bound"
                     [] why = "dave" -> "fill"
           /\ why' = IF why = "stop" /\ ret = "cmd2" THEN "restop" ELSE why
    /\ pending' = <<>>
    /\ prepared' = <<>>
    /\ bsent' = 0
    /\ speaking' = (speaking \/ why = "pause")
    /\ DriverOnly
    /\ UNCHANGED <<srcError, paused, sourceEnded, underrun, settled, boundary,
                   generation, mq, daves, faults, cmds, ret>>

\* The boundary fails: run_loop with it, or only the cleanup after it.
BoundaryFails ==
    IF ret = "cleanup"
    THEN /\ dpc' = "returned"
         /\ senders' = [senders EXCEPT ![live] = Retired(@)]
         /\ UNCHANGED <<ret, why, result>>
    ELSE Exit("error")

\* Mutant: off by one.
BoundaryCompleteEarly == bsent + 1 >= BoundaryPackets

\* All the silence of a stop boundary has been sent.
BoundaryComplete == bsent = BoundaryPackets

\* send_stop_audio_boundary_through_deadline_sender: one more silence, or the
\* last one was sent and speaking stops.
BoundaryStep ==
    /\ dpc = "bound"
    /\ IF BoundaryComplete
       THEN /\ speaking' = FALSE
            /\ IF ret = "cleanup"
               THEN /\ dpc' = "returned"
                    /\ senders' = [senders EXCEPT ![live] = Retired(@)]
                    /\ UNCHANGED paused
               ELSE /\ dpc' = ret
                    /\ paused' = TRUE
                    /\ UNCHANGED senders
            /\ UNCHANGED <<ret, why, result, boundary, reserved>>
       ELSE LET packet == NewPacket("BoundarySilence", NoFrame, reserved,
                                    ActiveGeneration(Live))
            IN  /\ reserved' = Advance(reserved, 1)
                /\ IF Live.pc = "exited"
                   THEN /\ BoundaryFails
                        /\ UNCHANGED boundary
                   ELSE /\ senders' = [senders EXCEPT ![live].queue = Append(@, packet)]
                        /\ boundary' = <<packet>>
                        /\ dpc' = "boundWait"
                        /\ UNCHANGED <<ret, why, result>>
                /\ UNCHANGED <<paused, speaking>>
    /\ DriverOnly
    /\ UNCHANGED <<source, srcError, ppc, sourceEnded, underrun, settled,
                   queueVars, bsent, generation, mq, discarded, daves, faults,
                   cmds>>

\* The outcome of the boundary silence: anything but its send is an error.
BoundaryOutcome ==
    /\ dpc = "boundWait"
    /\ boundary' = <<>>
    /\ \/ /\ Live.sent # <<>> /\ Head(Live.sent).kind = "BoundarySilence"
          /\ bsent' = bsent + 1
          /\ senders' = [senders EXCEPT ![live].sent = Tail(@)]
          /\ dpc' = "bound"
          /\ UNCHANGED <<ret, why, result>>
       \/ /\ \/ Live.sent # <<>> /\ Head(Live.sent).kind # "BoundarySilence"
             \/ Live.drops # <<>>
             \/ SenderGone
          /\ BoundaryFails
          /\ UNCHANGED bsent
    /\ DriverOnly
    /\ UNCHANGED <<source, srcError, ppc, paused, sourceEnded, underrun,
                   settled, queueVars, generation, reserved, speaking, mq,
                   discarded, daves, faults, cmds>>

\* The gateway fails: under prepare_media_state_before_slot, under the
\* prepare_speaking_before_media of a resume, or under stop_speaking.
DriverGatewayError ==
    /\ faults < MaxFaults
    /\ faults' = faults + 1
    /\ \/ /\ dpc = "slot"
          /\ Exit("error")
          /\ UNCHANGED <<cmds, paused>>
       \/ /\ dpc \in {"cmd1", "cmd2", "select", "paused"}
          /\ cmds # <<>> /\ Head(cmds) = "Resume" /\ paused
          /\ cmds' = Tail(cmds)
          /\ paused' = FALSE
          /\ Exit("error")
       \/ /\ dpc = "bound" /\ BoundaryComplete
          /\ BoundaryFails
          /\ UNCHANGED <<cmds, paused>>
    /\ DriverOnly
    /\ UNCHANGED <<source, srcError, ppc, sourceEnded, underrun, settled,
                   queueVars, boundVars, generation, reserved, speaking, mq,
                   discarded, daves>>

-----------------------------------------------------------------------------
(* send_playback_frames around the driver, and its control surface.        *)

\* The driver's result is observed: the loop ends, whatever metrics are still
\* in the channel, and the producer is aborted.
ObserveExit ==
    /\ dpc = "exited"
    /\ dpc' = "cleanup"
    /\ ppc' = "done"
    /\ DriverOnly
    /\ UNCHANGED <<source, srcError, loopVars, queueVars, boundVars, generation,
                   reserved, speaking, senders, mq, discarded, daves, faults,
                   cmds, ret, why>>

\* The boundary after a natural end or an interruption of started media goes
\* through a deadline sender of its own; other interruptions stop speaking.
Cleanup ==
    /\ dpc = "cleanup"
    /\ IF result = "natural" \/ (~current /\ speaking)
       THEN /\ senders' = Append(senders, NewSender(TRUE))
            /\ dpc' = "bound" /\ ret' = "cleanup" /\ bsent' = 0
            /\ speaking' = TRUE
       ELSE /\ dpc' = "returned"
            /\ speaking' = (speaking /\ current)
            /\ UNCHANGED <<senders, ret, bsent>>
    /\ DriverOnly
    /\ UNCHANGED <<source, srcError, ppc, loopVars, queueVars, boundary,
                   generation, reserved, mq, discarded, daves, faults, cmds, why>>

DriverNext ==
    \/ DriverTop \/ DriverSourceError \/ DriverDrainOutcome
    \/ DriverSenderGone \/ DriverDrained \/ DriverCommand
    \/ DriverCommandsDone \/ DriverPausedStale \/ DriverSlot
    \/ DriverGatewayError \/ DriverFill \/ DriverRecheck
    \/ DriverCommandsDone2 \/ DriverSelectOutcome \/ DriverInvalidate
    \/ DriverRebaseOnly \/ DriverRebase \/ BoundaryStep
    \/ BoundaryOutcome \/ ObserveExit \/ Cleanup

\* One SenderSent metric of a track packet moves the shared position.
PumpMetric ==
    /\ dpc \notin {"cleanup", "returned"} /\ ret # "cleanup"
    /\ mq > 0
    /\ mq' = mq - 1
    /\ position' = position + 1
    /\ UNCHANGED <<srcVars, loopVars, queueVars, boundVars, cmdVars, rtpVars,
                   senders, discarded, envVars, histVars, pcVars>>

\* An interrupted playback stops its driver, every 20 ms: the stops after the
\* first one are never read.
PumpStop ==
    /\ Running
    /\ ~current
    /\ \A i \in DOMAIN cmds : cmds[i] # "Stop"
    /\ cmds' = Append(cmds, "Stop")
    /\ UNCHANGED <<srcVars, loopVars, queueVars, boundVars, current, rtpVars,
                   senders, pumpVars, envVars, histVars, pcVars>>

\* send_media_command, from pause, resume, stop, leave_voice and the rollover.
SendMediaCommand(command) ==
    /\ Running
    /\ issued < MaxCommands
    /\ issued' = issued + 1
    /\ cmds' = Append(cmds, command)
    /\ UNCHANGED <<srcVars, loopVars, queueVars, boundVars, current, rtpVars,
                   senders, pumpVars, daves, faults, silenced, histVars, pcVars>>

\* begin_playback or invalidate_playback: another epoch is the current one.
Interrupt ==
    /\ dpc # "returned"
    /\ current
    /\ issued < MaxCommands
    /\ issued' = issued + 1
    /\ current' = FALSE
    /\ UNCHANGED <<srcVars, loopVars, queueVars, boundVars, cmds, rtpVars,
                   senders, pumpVars, daves, faults, silenced, histVars, pcVars>>

-----------------------------------------------------------------------------
(* play_with_epoch hands over a source filled to its target, a session that *)
(* is speaking, and a transport whose reservations start at its cursor.     *)

\* Mutant: a source filled exactly to its target is taken to have ended.
SourceEndedBeforePlayingFull(n) == n <= SourceTarget

\* source_ended_before_playing: the first fill of n frames fell short.
SourceEndedBeforePlaying(n) == n < SourceTarget

Init ==
    LET n == Least(NFrames, SourceTarget)
    IN  /\ source = [i \in 1..n |-> i]
        /\ produced = n
        /\ eos = SourceEndedBeforePlaying(n)
        /\ srcError = FALSE /\ ppc = "check" /\ refill = 0
        /\ dpc = "top" /\ ret = "cmd1" /\ why = "none"
        /\ paused = FALSE /\ sourceEnded = FALSE /\ underrun = FALSE
        /\ settled = FALSE /\ result = "none"
        /\ egress = <<>> /\ prepared = <<>> /\ pending = <<>>
        /\ boundary = <<>> /\ bsent = 0
        /\ cmds = <<>> /\ current = TRUE
        /\ generation = 0 /\ reserved = 0 /\ cursor = 0 /\ speaking = TRUE
        /\ senders = <<NewSender(FALSE)>>
        /\ mq = 0 /\ position = 0 /\ discarded = 0
        /\ issued = 0 /\ daves = 0 /\ faults = 0 /\ silenced = 0
        /\ wire = {} /\ tail = <<>>

ControlNext ==
    \/ \E command \in {"Pause", "Resume", "Stop"} : SendMediaCommand(command)
    \/ Interrupt

PumpNext == PumpMetric \/ PumpStop

\* The playback is over and so are all its threads.
Finished ==
    /\ dpc = "returned"
    /\ \A s \in 1..live : senders[s].pc = "exited"
    /\ UNCHANGED vars

Next ==
    \/ DriverNext
    \/ ProducerNext
    \/ \E s \in 1..live : SenderNext(s)
    \/ PumpNext
    \/ ControlNext
    \/ Finished

\* Every thread and task keeps running; callers need not send anything.  At
\* most one sender per command, DAVE transition and cleanup is spawned.
Fairness ==
    /\ WF_vars(DriverNext)
    /\ WF_vars(ProducerNext)
    /\ WF_vars(PumpNext)
    /\ \A s \in 1..(MaxCommands + MaxDave + 3) : WF_vars(s <= live /\ SenderNext(s))

Spec == Init /\ [][Next]_vars
FairSpec == Spec /\ Fairness


-----------------------------------------------------------------------------
(* Properties.                                                             *)

Sender == [pc : {"loop", "tick", "holding", "sending", "transmitted", "exited"},
           queue : Seq(Packet), cmd : Seq(Packet), sent : Seq(Packet),
           drops : Seq(Packet), retired : BOOLEAN, own : BOOLEAN]

\* The types of the variables.
TypeOK ==
    /\ source \in Seq(Frames) /\ eos \in BOOLEAN /\ srcError \in BOOLEAN
    /\ produced \in 0..NFrames /\ refill \in Nat
    /\ ppc \in {"check", "await", "waiting", "fill", "done"}
    /\ dpc \in {"top", "drain", "cmd1", "paused", "slot", "fill", "check2",
                "cmd2", "select", "invalidate", "rebase", "bound", "boundWait",
                "exited", "cleanup", "returned"}
    /\ ret \in {"cmd1", "cmd2", "top", "paused", "rebuild", "cleanup"}
    /\ why \in {"none", "pause", "stop", "stale", "dave", "repause", "restop"}
    /\ paused \in BOOLEAN /\ sourceEnded \in BOOLEAN /\ underrun \in BOOLEAN
    /\ settled \in BOOLEAN /\ result \in {"none", "natural", "stopped", "error"}
    /\ egress \in Seq(Frames) /\ prepared \in Seq(Packet) /\ pending \in Seq(Packet)
    /\ boundary \in Seq(Packet) /\ bsent \in Nat
    /\ cmds \in Seq({"Pause", "Resume", "Stop"}) /\ current \in BOOLEAN
    /\ generation \in Nat /\ reserved \in Nat /\ cursor \in Nat
    /\ speaking \in BOOLEAN
    /\ senders \in Seq(Sender) /\ senders # <<>>
    /\ mq \in Nat /\ position \in Nat /\ discarded \in Nat
    /\ issued \in 0..MaxCommands /\ daves \in 0..MaxDave
    /\ faults \in 0..MaxFaults /\ silenced \in 0..MaxSilence
    /\ wire \in SUBSET Frames /\ tail \in Seq(Kinds)

\* The records a live deadline sender reports, the command it holds and the
\* ones queued for it are exactly the commands the driver believes pending, in
\* order: account_deadline_outcome's three "emitted a record without a pending
\* command", "committed a different" and "dropped a different prepared command
\* than queued" errors cannot happen, whatever interrupts the playback.
SenderFifo ==
    dpc \notin {"rebase", "exited", "cleanup", "returned"}
        => /\ Live.drops = <<>>
           /\ InSender(Live) = (IF ret = "cleanup" THEN <<>> ELSE pending) \o boundary

\* From the rebase of an interruption to the replacement of its sender, and
\* once run_loop has returned, the driver's list says nothing of the sender.
Attached ==
    /\ dpc \notin {"exited", "cleanup", "returned"}
    /\ dpc = "rebase" => why \in {"repause", "restop"}

\* Nothing is pending or prepared once an interruption has flushed the playout:
\* during its boundary, while paused, and until a second rebase is done.
Flushed ==
    /\ Attached /\ ret # "cleanup"
    /\ \/ paused \/ dpc \in {"bound", "boundWait"}
       \/ dpc \in {"invalidate", "rebase"} /\ why \in {"repause", "restop"}

\* The parts of the inductive invariant.  No batch overfills the source buffer.
SourceFits == Len(source) <= SourceTarget

\* A sender thread holds one command from taking it to reporting it, else none.
HoldsItsCommand ==
    \A s \in 1..live :
        /\ senders[s].pc \in {"loop", "tick"} => senders[s].cmd = <<>>
        /\ senders[s].pc \in {"holding", "sending", "transmitted"}
              => Len(senders[s].cmd) = 1

\* What the driver sent and has not accounted is what the sender has.
Mirrored ==
    Attached =>
        /\ Live.drops = <<>>
        /\ InSender(Live) = (IF ret = "cleanup" THEN <<>> ELSE pending) \o boundary
        /\ Len(Live.queue) <= CommandCap
        /\ Live.own = (ret = "cleanup")

\* Queued and prepared packets carry the generation the sender compares with.
ActiveGenerations ==
    Attached /\ dpc # "rebase" =>
        /\ \A i \in DOMAIN Live.queue : Live.queue[i].gen = ActiveGeneration(Live)
        /\ ret # "cleanup" => \A i \in DOMAIN prepared : prepared[i].gen = generation

FlushedIsEmpty == Flushed => pending = <<>> /\ prepared = <<>>

\* Which control points exclude one another.
ControlPoints ==
    /\ dpc # "boundWait" => boundary = <<>>
    /\ dpc = "boundWait" => Len(boundary) = 1
    /\ ret = "cleanup" => dpc \in {"bound", "boundWait", "returned"}
    /\ dpc \in {"slot", "fill", "check2", "select"} => ~paused
    /\ dpc = "drain" /\ ret = "rebuild" => ~paused
    /\ dpc \in {"invalidate", "rebase"} /\ why = "dave" => ~paused
    /\ dpc \in {"bound", "boundWait"} => ret # "rebuild"
    /\ dpc \in {"invalidate", "rebase"} /\ why = "pause" => ret # "rebuild"

\* SenderFifo, strengthened until every step preserves it.
MirrorInv ==
    /\ TypeOK
    /\ SourceFits
    /\ HoldsItsCommand
    /\ Mirrored
    /\ ActiveGenerations
    /\ FlushedIsEmpty
    /\ ControlPoints

\* The number of the last frame before those still in the source, in the egress
\* buffer, prepared, and pending: each of them is where the one before it ends.
BeforeSource == produced - Len(source)
BeforeEgress == BeforeSource - Len(egress)
BeforePrepared == BeforeEgress - Len(prepared)
BeforePending == BeforePrepared - Len(FramesOf(pending))

\* A sequence of frames, or of packets with frames, that counts on from frame a.
Follows(s, a) == \A i \in DOMAIN s : s[i] = a + i
TracksFollow(s, a) == \A i \in DOMAIN s : s[i].kind = "Track" /\ s[i].frame = a + i

\* Pending, prepared, buffered and source frames follow one another up to the
\* last one produced, and all before them are on the wire; those are the frames
\* accounted, so the position counts no other.
PipelineInOrder ==
    Running =>
        /\ Follows(source, BeforeSource)
        /\ Follows(egress, BeforeEgress)
        /\ TracksFollow(prepared, BeforePrepared)
        /\ Follows(FramesOf(pending), BeforePending)
        /\ position + mq <= BeforePending
        /\ 1..BeforePending \subseteq wire

\* Pending, prepared and buffered frames stay within the egress target, and
\* pending silences within what may be scheduled ahead.
EgressBounded ==
    /\ Len(egress) <= EgressTarget
    /\ Running =>
        /\ Len(FramesOf(pending)) + Len(prepared) + Len(egress) <= EgressTarget
        /\ Len(pending) - Len(FramesOf(pending)) <= UnderrunAhead
        /\ \A i \in DOMAIN pending :
               pending[i].kind = "ScheduledSilence" <=> pending[i].frame = NoFrame

\* The refill under way still fits, and no interruption has discarded a frame.
RefillFits ==
    /\ ppc = "fill" => Len(source) + refill <= SourceTarget
    /\ srcError => faults > 0
    /\ discarded = 0

\* The command a sender holds is the next one for the wire, and what it has
\* transmitted was; when it is given up between two looks at its shutdown flag,
\* it takes the next one for the wire from its queue or drops a stale one.
InTurn(sender, gen, onWire) ==
    /\ sender.pc \in {"holding", "sending"} => 1..(sender.cmd[1].frame - 1) \subseteq onWire
    /\ sender.pc = "transmitted" => 1..sender.cmd[1].frame \subseteq onWire
    /\ \A i \in DOMAIN sender.sent : 1..sender.sent[i].frame \subseteq onWire
    /\ ~sender.own => \A i \in DOMAIN sender.queue : sender.queue[i].gen <= gen
    /\ /\ sender.retired /\ sender.pc = "tick" /\ sender.queue # <<>>
       /\ Head(sender.queue).gen = IF sender.own THEN 0 ELSE gen
       => 1..(Head(sender.queue).frame - 1) \subseteq onWire

SendersInTurn ==
    \A s \in 1..live :
        /\ InTurn(senders[s], generation, wire)
        /\ s < live => senders[s].retired

\* From its invalidation to its replacement a sender has only stale commands,
\* and no others than those pending.
StaleWhileRebasing ==
    Running /\ ~Attached =>
        /\ ~Live.own
        /\ \A i \in DOMAIN Live.queue : Live.queue[i].gen < generation
        /\ Len(InSender(Live)) <= Len(pending)

\* The last sender is given up when the driver exits, and not before.
GivenUpOnExit ==
    dpc \in {"exited", "cleanup", "returned"} <=> Live.retired

\* NothingLost, InOrderDelivery, PositionNeverAhead and BuffersFit, strengthened
\* until every step preserves them.
DeliveryInv ==
    /\ MirrorInv
    /\ PipelineInOrder /\ EgressBounded /\ RefillFits
    /\ SendersInTurn /\ StaleWhileRebasing /\ GivenUpOnExit
    /\ \A i \in DOMAIN boundary : boundary[i].frame = NoFrame
    /\ 1..(position + mq) \subseteq wire
    /\ \A f \in wire : 1..f \subseteq wire

\* Until the driver has returned, every frame the producer has decoded is on
\* the wire or still buffered: pause, stop, DAVE rebuilds and underruns put
\* frames back, they never throw one away ("zero skipped source media").
NothingLost ==
    Running => \A f \in 1..produced :
        \/ f \in wire
        \/ \E i \in DOMAIN source : source[i] = f
        \/ \E i \in DOMAIN egress : egress[i] = f
        \/ \E i \in DOMAIN prepared : prepared[i].frame = f
        \/ \E i \in DOMAIN pending : pending[i].frame = f

\* Frames come to the wire in track order, without a gap: whatever was flushed
\* and prepared again, no frame is sent before one that precedes it.
InOrderDelivery == \A f \in wire : \A g \in 1..f : g \in wire

\* Flushing pending, prepared and egress frames back never overflows the egress
\* buffer, so none is dropped, and a refill that was sized before the frames
\* came back never overflows the source buffer (PlaybackError::BufferFull).  The
\* record channels never fill either: their capacity covers every command that
\* can be pending, so try_send of a record cannot end a sender thread.
BuffersFit ==
    /\ discarded = 0
    /\ Len(source) <= SourceTarget /\ Len(egress) <= EgressHigh
    /\ srcError => faults > 0
    /\ Running => Len(InSender(Live)) < RecordCap

\* A driver that is paused has put a whole stop boundary on the wire after the
\* last track packet, and has told the gateway it stopped speaking.
PauseBoundary ==
    dpc = "paused" =>
        /\ ~speaking
        /\ Len(tail) = BoundaryPackets
        /\ \A i \in DOMAIN tail : tail[i] = "BoundarySilence"

\* The position a caller sees, and the one a resumed playback starts from,
\* never counts a frame that did not reach the wire.
PositionNeverAhead == position + mq <= Cardinality(wire)

\* A playback that nobody commanded and nothing interrupted ends only after all
\* of the track has been sent, and without a failure it ends no other way: the
\* reservations meet the send cursor packet by packet, also where both wrap.
UninterruptedEndDeliversAll ==
    issued = 0 =>
        /\ result = "natural" => wire = Frames
        /\ faults = 0 /\ daves = 0 => result \in {"none", "natural"}

\* run_loop returns unless the playback stays paused: no lost notification of
\* the producer, no underrun and no interruption leaves driver, producer and
\* sender waiting for each other.
DriverFinishes == <>(dpc = "returned") \/ <>[](dpc = "paused")

-----------------------------------------------------------------------------
(* Statements of tests and documentation that the code does not meet: TLC    *)
(* finds a behaviour against each of them (README, "Statements not met").     *)

\* tests/voice_udp_transport.rs: packets prepared after
\* discard_unsent_prepared_packets carry the next send cursor; so the sender
\* that replaces an interrupted one can send them.
RebasedSendSucceeds ==
    Live.pc = "exited" /\ ~Live.retired => Live.cmd = <<>>

\* The same when the playback is over: the session is returned with its
\* reservations at the send cursor.
SessionRebased == dpc = "returned" => reserved = cursor

\* A natural end means the whole track was sent.
NaturalEndDeliversAll == result = "natural" => wire = Frames

\* A stopped playback leaves the position at the last emitted frame.
StoppedPositionIsLastEmitted ==
    (dpc = "returned" /\ result = "stopped") => position = Cardinality(wire)

=============================================================================
