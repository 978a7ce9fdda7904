---------------------------- MODULE TrackSource ----------------------------
(***************************************************************************)
(* The playback crate: PlaybackWorker asks PlaybackRecovery for a source,  *)
(* the source reads an HTTP resource chunk by chunk, the WebM demuxer      *)
(* turns bytes into Opus packets and the normalizer turns packets into     *)
(* frames of one length, which the worker queues for the media driver.     *)
(*                                                                         *)
(* Time is counted in ticks.  Packet k of the resource holds the ticks of  *)
(* audio from its timestamp Start[k] up to the next one's, in BlockBytes   *)
(* bytes, after HeaderBytes bytes that hold no packet, and its audio is    *)
(* the run of tick numbers it stands for: a frame is right when the ticks  *)
(* in it are the ones its position claims.                                 *)
(* The HTTP server is external: it may stall, refuse, ignore a range, cut  *)
(* a body short or announce fewer bytes than the resource has, as often as *)
(* it likes.  Every variable is bounded by the resource, so no fault is    *)
(* counted.                                                                *)
(***************************************************************************)
EXTENDS Integers, Sequences

CONSTANTS
  Videos,       \* the video ids a client may play
  Encodings,    \* what a resolution may select: one resource each
  Start,        \* timestamp of each packet of the resource, then the track's length
  FrameTicks,   \* DISCORD_FRAME_SAMPLES
  HeaderBytes, BlockBytes,   \* the layout of the resource
  MaxBody,      \* most bytes one HTTP body chunk carries
  MaxRead,      \* MAX_READ_CHUNK_BYTES
  Prebuffer,    \* prebuffer_target_ms, in frames
  SourceTarget, \* PLAYBACK_SOURCE_BUFFER_TARGET_MS, in frames
  None          \* no video, no resolution, no source, no position

ASSUME LayoutAssumption ==
  /\ Start \in Seq(Nat) /\ Len(Start) > 1 /\ Start[1] = 0
  /\ \A k, l \in DOMAIN Start : k < l => Start[k] < Start[l]
  /\ FrameTicks \in Nat \ {0} /\ HeaderBytes \in Nat /\ BlockBytes \in Nat \ {0}
  /\ MaxBody \in Nat \ {0} /\ MaxRead \in Nat \ {0}
  /\ Prebuffer \in Nat \ {0} /\ SourceTarget \in Nat /\ Prebuffer <= SourceTarget

VARIABLES
  worker,    \* PlaybackWorker: current video, normalizer, pending frames,
             \* and the resolution its PlaybackRecovery remembers
  position,  \* the SharedPlaybackPosition the worker holds: ticks sent, and
             \* (for the properties) the video they were sent of
  source,    \* the PlaybackSource in use or being opened, or None
  op,        \* the prepare or fill call in progress
  out,       \* the queue that call fills
  queue,     \* frames handed over and not yet sent
  ended      \* end_of_stream, as the producer has announced it

vars == <<worker, position, source, op, out, queue, ended>>

----------------------------------------------------------------------------
LastPacket == Len(Start) - 1
Packets == 1..LastPacket
Duration(k) == Start[k + 1] - Start[k]
TrackTicks == Start[Len(Start)]
ResourceEnd == HeaderBytes + BlockBytes * LastPacket
Pad == -1                                \* a tick the flush adds
Smaller(a, b) == IF a < b THEN a ELSE b

Streams ==
  [pos : Nat, open : BOOLEAN, start : Nat, responseEnd : 0..ResourceEnd,
   resourceEnd : 0..ResourceEnd, body : 0..ResourceEnd, pending : Nat]

Sources ==
  [video : Videos, encoding : Encodings, stream : Streams, fed : Nat, torn : BOOLEAN,
   mixed : BOOLEAN, parsed : 0..LastPacket, packets : SUBSET Packets]

ASSUME NoneAssumption ==
  /\ None \notin Videos /\ None \notin Encodings /\ None \notin Nat
  /\ None \notin Sources

----------------------------------------------------------------------------
(* HttpOpusStream.  0 stands for an end the response does not announce.    *)

NewStream(offset) ==
  [pos |-> offset, open |-> FALSE, start |-> offset, responseEnd |-> 0,
   resourceEnd |-> 0, body |-> offset, pending |-> 0]

\* set_resume_offset: the response and what was read ahead of it are dropped.
SetResumeOffsetAhead(s) == NewStream(s.body)
SetResumeOffset(s) == NewStream(s.pos)

\* take_pending_chunk: at most MaxRead bytes leave the pending buffer.
TakePendingChunk(s) ==
  LET n == Smaller(s.pending, MaxRead) IN
    [res |-> "chunk", from |-> s.body - s.pending, len |-> n,
     s |-> [s EXCEPT !.pos = @ + n, !.pending = @ - n]]

Outcome(res, s) == [res |-> res, from |-> 0, len |-> 0, s |-> s]

\* validate_resume_response: a resumed read needs a 206 that starts at the
\* byte asked for; the first read takes whatever comes.
Honoured(asked, from) == asked = 0 \/ from = asked

\* What the headers announce: nothing, the length of the body, or the range
\* and the whole length.  A server that sends less than it was asked for is
\* assumed to say how long the resource is.
Extents(from) ==
  {<<0, 0>>, <<ResourceEnd, 0>>, <<ResourceEnd, ResourceEnd>>, <<from + 1, ResourceEnd>>}

\* open_response and response_extent.  A resumed read past the end is
\* answered 416 and ends the stream; a server that ignores the range sends
\* the resource from its first byte.
Opened(s) ==
  IF s.pos > 0 /\ s.pos >= ResourceEnd THEN {Outcome("end", s)}
  ELSE UNION {
         IF ~Honoured(s.pos, from) THEN {Outcome("detail", s)}
         ELSE { Outcome("again", [s EXCEPT !.open = TRUE, !.start = s.pos, !.body = from,
                         !.responseEnd = e[1], !.resourceEnd = e[2]]) : e \in Extents(s.pos) }
         : from \in {0, s.pos} }

Refused(s) == {Outcome("stale", s), Outcome("http", s)}

\* should_reopen_after_response_eof: a body that stops short of an announced
\* end is read on from there, unless this response brought nothing.
AfterEofAlways(s) ==
  LET short == s.pos < s.responseEnd \/ s.pos < s.resourceEnd
      closed == [s EXCEPT !.open = FALSE, !.responseEnd = 0] IN
    IF ~short THEN Outcome("end", [closed EXCEPT !.resourceEnd = 0])
    ELSE Outcome("again", closed)
AfterEof(s) ==
  LET short == s.pos < s.responseEnd \/ s.pos < s.resourceEnd
      closed == [s EXCEPT !.open = FALSE, !.responseEnd = 0] IN
    IF ~short THEN Outcome("end", [closed EXCEPT !.resourceEnd = 0])
    ELSE IF s.pos <= s.start
      THEN Outcome("detail", [s EXCEPT !.open = FALSE])
    ELSE Outcome("again", closed)

\* A broken body is reopened when this response had brought something.
AfterBodyError(s) ==
  LET closed == [s EXCEPT !.open = FALSE, !.responseEnd = 0] IN
    Outcome(IF s.pos > s.start THEN "again" ELSE "http", closed)

\* The body ends where the response said it would, or at the end of the
\* resource; a body whose length was announced may also stop short of it.
BodyEnd(s) == IF s.responseEnd = 0 THEN ResourceEnd ELSE s.responseEnd

Body(s) ==
  { Outcome("again", [s EXCEPT !.body = @ + n, !.pending = n])
      : n \in {m \in 1..MaxBody : s.body + m <= BodyEnd(s)} }
  \cup {AfterBodyError(s)}
  \cup (IF s.body >= BodyEnd(s) \/ s.responseEnd > 0 THEN {AfterEof(s)} ELSE {})

\* One turn of read_chunk's loop.  "again" is the loop going round; the
\* callers' timeouts cut it at an await and keep the stream as it is.
ReadTurn(s) ==
  {Outcome("timeout", s)} \cup
    (IF s.pending > 0 THEN {TakePendingChunk(s)}
     ELSE IF ~s.open THEN Opened(s) \cup Refused(s)
     ELSE Body(s))

----------------------------------------------------------------------------
(* WebmOpusDemux, PlaybackSource and the normalizer.                       *)

NewSource(video, encoding) ==
  [video |-> video, encoding |-> encoding, stream |-> NewStream(0), fed |-> 0,
   torn |-> FALSE, mixed |-> FALSE, parsed |-> 0, packets |-> {}]

\* reset_stream_to_current_byte_offset
ResetStream(src) == [src EXCEPT !.stream = SetResumeOffset(@)]

\* replace_resolved_stream_at_current_byte_offset: the new resource is read on
\* from the byte the old one had reached, whatever its encoding.
ReplaceResolvedStream(src, e) ==
  [ResetStream(src) EXCEPT !.encoding = e,
     !.mixed = @ \/ (e # src.encoding /\ src.fed > 0)]

\* The packets whose blocks are complete in the first n bytes.
Complete(n) == IF n <= HeaderBytes THEN 0 ELSE (n - HeaderBytes) \div BlockBytes

\* push_bytes and drain_packets: bytes that do not continue the ones before
\* them, or that belong to another encoding, leave nothing to parse; the rest
\* of a block waits for its bytes.
Fed(src, o) ==
  LET torn == src.torn \/ src.mixed \/ o.from # src.fed IN
    [src EXCEPT !.stream = o.s, !.fed = @ + o.len, !.torn = torn,
                !.parsed = IF torn THEN @ ELSE Complete(src.fed + o.len)]

\* Packets leave the demuxer, and the queue of packets behind it, in the order
\* of the resource, so a set of them is a queue of them.
Drained(src, o) == (src.parsed + 1)..Fed(src, o).parsed
First(packets, k) == \A l \in packets : k <= l

\* record_buffered over everything demuxed so far.
TimestampTicks(src) == Start[src.parsed + 1]

\* packet_overlaps_resume
Overlaps(k, resume) == Start[k + 1] > resume

Kept(packets, resume) == {k \in packets : Overlaps(k, resume)}

NewNormalizer == [pcm |-> <<>>, next |-> None]

Audio(k) == [i \in 1..Duration(k) |-> Start[k] + i - 1]

\* emit_ready_frames: whole frames leave the decoded samples, each at the
\* position where the one before it ended.
EmitReadyFrames(pcm, next) ==
  LET n == Len(pcm) \div FrameTicks IN
    [frames |-> [i \in 1..n |->
        [at |-> next + (i - 1) * FrameTicks,
         ticks |-> SubSeq(pcm, (i - 1) * FrameTicks + 1, i * FrameTicks)]],
     norm |-> [pcm |-> SubSeq(pcm, n * FrameTicks + 1, Len(pcm)),
               next |-> next + n * FrameTicks]]

\* is_discord_passthrough_packet, when nothing decoded is waiting before it.
PassesThroughAlways(norm, k) == Duration(k) = FrameTicks
PassesThrough(norm, k) == norm.pcm = <<>> /\ Duration(k) = FrameTicks

\* push_packet
PushPacket(norm, k) ==
  LET next == IF norm.next = None THEN Start[k] ELSE norm.next IN
    IF PassesThrough(norm, k)
      THEN [frames |-> <<[at |-> next, ticks |-> Audio(k)]>>,
            norm |-> [norm EXCEPT !.next = next + Duration(k)]]
      ELSE EmitReadyFrames(norm.pcm \o Audio(k), next)

\* flush pads what is left to one frame.
Flush(norm) ==
  IF norm.pcm = <<>> THEN [frames |-> <<>>, norm |-> norm]
  ELSE EmitReadyFrames(norm.pcm \o [i \in 1..(FrameTicks - Len(norm.pcm)) |-> Pad],
                       norm.next)

----------------------------------------------------------------------------
(* PlaybackWorker: the calls the runtime makes under the playback lock.    *)

NoOp == [kind |-> "none"]
NewPosition == [sent |-> 0, of |-> None]

Init ==
  /\ worker = [current |-> None, norm |-> NewNormalizer, pending |-> <<>>,
               lastVideo |-> None, lastEncoding |-> None]
  /\ position = NewPosition
  /\ source = None /\ op = NoOp /\ out = <<>> /\ queue = <<>> /\ ended = FALSE

\* The call returns an error, or its future is dropped: the source goes with it.
Fail ==
  /\ op' = NoOp /\ source' = None /\ out' = <<>>
  /\ UNCHANGED <<worker, position, queue, ended>>

\* Room the queue of this call has left: its duration limit is what the
\* runtime gave it, and a frame is never wider than its memory cap.
Room(frames) == op.limit - Len(frames)

\* enqueue_frames: what does not fit waits in pending_frames.
EnqueuedDropping(frames) ==
  LET n == Smaller(Room(out), Len(frames)) IN
    [out |-> out \o SubSeq(frames, 1, n), pending |-> worker.pending]
Enqueued(frames) ==
  LET n == Smaller(Room(out), Len(frames)) IN
    [out |-> out \o SubSeq(frames, 1, n),
     pending |-> worker.pending \o SubSeq(frames, n + 1, Len(frames))]

\* buffer_packet: what the normalizer made of a packet joins the queue.
Buffer(normalized) ==
  LET put == Enqueued(normalized.frames) IN
    /\ out' = put.out
    /\ worker' = [worker EXCEPT !.norm = normalized.norm, !.pending = put.pending]

\* prepare, up to its first await: resume where the same video was left,
\* otherwise start over; a deferred reset comes first.  Playing drops the
\* queue and source of whatever played before.
ResumesAt(video, reset) ==
  IF ~reset /\ worker.current = video THEN position.sent ELSE 0

Prepare(video, reset) ==
  /\ op = NoOp
  /\ LET known == ~reset /\ worker.lastVideo = video IN
       /\ op' = [kind |-> "prepare", video |-> video, limit |-> SourceTarget,
                 target |-> Prebuffer, resume |-> ResumesAt(video, reset),
                 via |-> IF known THEN "reopen" ELSE "first", tries |-> 1,
                 stage |-> IF known THEN "open" ELSE "resolve"]
       /\ source' = IF known THEN NewSource(video, worker.lastEncoding) ELSE None
  /\ worker' = [worker EXCEPT !.norm = NewNormalizer, !.pending = <<>>,
                  !.current = IF reset THEN None ELSE @,
                  !.lastVideo = IF reset THEN None ELSE @,
                  !.lastEncoding = IF reset THEN None ELSE @]
  /\ position' = IF ~reset /\ worker.current = video THEN position ELSE NewPosition
  /\ out' = <<>> /\ queue' = <<>> /\ ended' = FALSE

\* select_song_stream_format: whichever of the listed formats ranks first; the
\* list may change from one resolution to the next.
Selectable == Encodings

\* resolve_playback_source for resolve_and_open: the service fails, or the
\* selector picks one of the formats it lists.
Resolve ==
  /\ op # NoOp /\ op.stage = "resolve"
  /\ \/ Fail
     \/ \E e \in Selectable :
          /\ source' = NewSource(op.video, e)
          /\ op' = [op EXCEPT !.stage = "open", !.tries = 1]
          /\ UNCHANGED <<worker, position, out, queue, ended>>

\* An error of open_from_position: reopening falls back to a resolution, and
\* a stale or silent resource is resolved once more.
OpenFailed(err) ==
  IF op.via = "reopen" \/ (op.via = "first" /\ err \in {"stale", "openTimeout"})
    THEN /\ op' = [op EXCEPT !.via = IF @ = "reopen" THEN "first" ELSE "second",
                             !.stage = "resolve"]
         /\ source' = None
         /\ UNCHANGED <<worker, position, out, queue, ended>>
    ELSE Fail

\* The end of open_from_position: the source is far enough, so it becomes the
\* worker's and its position starts at the resume point; otherwise the track
\* ended before the resume point.
SourceOpenedAtStart(src) ==
  IF TimestampTicks(src) < op.resume THEN OpenFailed("detail")
  ELSE /\ source' = src
       /\ position' = [sent |-> 0, of |-> op.video]
       /\ worker' = IF op.via = "reopen" THEN worker
                    ELSE [worker EXCEPT !.lastVideo = op.video,
                                        !.lastEncoding = src.encoding]
       /\ op' = [op EXCEPT !.stage = "loop"]
       /\ UNCHANGED <<out, queue, ended>>
SourceOpened(src) ==
  IF TimestampTicks(src) < op.resume THEN OpenFailed("detail")
  ELSE /\ source' = src
       /\ position' = [sent |-> op.resume, of |-> op.video]
       /\ worker' = IF op.via = "reopen" THEN worker
                    ELSE [worker EXCEPT !.lastVideo = op.video,
                                        !.lastEncoding = src.encoding]
       /\ op' = [op EXCEPT !.stage = "loop"]
       /\ UNCHANGED <<out, queue, ended>>

\* read_opening_chunk tries a silent stream twice; a later read only once.
OpeningTimeout ==
  \/ /\ op.stage = "open" /\ op.tries = 1
     /\ op' = [op EXCEPT !.tries = 2]
     /\ UNCHANGED <<worker, position, source, out, queue, ended>>
  \/ /\ op.stage = "open" /\ op.tries = 2 /\ OpenFailed("openTimeout")
  \/ /\ op.stage = "seek" /\ OpenFailed("detail")

\* open_from_position: the first chunk, then the loop to the first packet that
\* reaches past the resume point.
OpenRead ==
  /\ op # NoOp /\ op.stage \in {"open", "seek"}
  /\ \E o \in ReadTurn(source.stream) :
       LET src == [source EXCEPT !.stream = o.s]
           fed == [Fed(source, o) EXCEPT
                     !.packets = @ \cup Kept(Drained(source, o), op.resume)] IN
         \/ /\ o.res = "again" /\ source' = src
            /\ UNCHANGED <<worker, position, op, out, queue, ended>>
         \/ /\ o.res = "chunk"
            /\ IF fed.packets = {} \/ TimestampTicks(fed) < op.resume
                 THEN /\ source' = fed /\ op' = [op EXCEPT !.stage = "seek"]
                      /\ UNCHANGED <<worker, position, out, queue, ended>>
                 ELSE SourceOpened(fed)
         \/ /\ o.res = "end"
            /\ IF op.stage = "open" THEN OpenFailed("detail") ELSE SourceOpened(src)
         \/ o.res = "timeout" /\ OpeningTimeout
         \/ /\ o.res \in {"stale", "http", "detail"}
            /\ OpenFailed(o.res)

\* fill_queue_to_duration_ms returns.  prepare makes the video current and
\* needs at least one frame; the producer hands the frames over and announces
\* the end of the stream after a short refill that left no packet behind.
ReachedEndOfStreamLoose == source.packets = {}
ReachedEndOfStream ==
  source.packets = {} /\ (out = <<>> \/ Len(out) < op.target)

Filled ==
  IF op.kind = "prepare" /\ out = <<>> THEN Fail
  ELSE /\ queue' = queue \o out /\ out' = <<>> /\ op' = NoOp
       /\ worker' = IF op.kind = "prepare"
                      THEN [worker EXCEPT !.current = op.video] ELSE worker
       /\ ended' = (op.kind = "refill" /\ ReachedEndOfStream)
       /\ UNCHANGED <<position, source>>

\* One turn of the fill loop up to its next await: pending frames first, then
\* a packet already demuxed, then the stream.
FillTurn ==
  /\ op # NoOp /\ op.stage = "loop"
  /\ LET n == Smaller(Room(out), Len(worker.pending))
         drained == out \o SubSeq(worker.pending, 1, n)
         rest == SubSeq(worker.pending, n + 1, Len(worker.pending))
         full(q) == Len(q) >= op.target \/ Room(q) <= 0 IN
       \/ /\ full(out) /\ Filled
       \/ /\ ~full(out) /\ n > 0
          /\ out' = drained /\ worker' = [worker EXCEPT !.pending = rest]
          /\ UNCHANGED <<position, source, op, queue, ended>>
       \/ /\ ~full(out) /\ worker.pending = <<>>
          /\ \E k \in source.packets :
               /\ First(source.packets, k)
               /\ Buffer(PushPacket(worker.norm, k))
               /\ source' = [source EXCEPT !.packets = @ \ {k}]
          /\ UNCHANGED <<position, op, queue, ended>>
       \/ /\ ~full(out) /\ worker.pending = <<>> /\ source.packets = {}
          /\ op' = [op EXCEPT !.stage = "read", !.tries = 0]
          /\ UNCHANGED <<worker, position, source, out, queue, ended>>

\* read_stream_chunk: a silent stream is reopened where it stood, then, like
\* a stale one, resolved again; the third read is the last.
FillRead ==
  /\ op # NoOp /\ op.stage = "read"
  /\ \E o \in ReadTurn(source.stream) :
       LET src == [source EXCEPT !.stream = o.s] IN
         \/ /\ o.res = "again" /\ source' = src
            /\ UNCHANGED <<worker, position, op, out, queue, ended>>
         \/ /\ o.res = "chunk"
            /\ source' = [Fed(source, o) EXCEPT !.packets = @ \cup Drained(source, o)]
            /\ op' = [op EXCEPT !.stage = "loop"]
            /\ UNCHANGED <<worker, position, out, queue, ended>>
         \/ /\ o.res = "chunk" /\ source.mixed      \* a block that does not parse
            /\ Fail
         \/ /\ o.res = "end" /\ source' = src
            /\ Buffer(Flush(worker.norm))
            /\ op' = [op EXCEPT !.stage = "return"]
            /\ UNCHANGED <<position, queue, ended>>
         \/ /\ o.res = "timeout" /\ op.tries = 0
            /\ source' = ResetStream(src)
            /\ op' = [op EXCEPT !.tries = 1]
            /\ UNCHANGED <<worker, position, out, queue, ended>>
         \/ /\ \/ o.res = "timeout" /\ op.tries = 1
               \/ o.res = "stale" /\ op.tries < 2
            /\ source' = src /\ op' = [op EXCEPT !.stage = "reresolve"]
            /\ UNCHANGED <<worker, position, out, queue, ended>>
         \/ /\ \/ o.res \in {"timeout", "stale"} /\ op.tries = 2
               \/ o.res \in {"http", "detail"}
            /\ Fail

\* The break after the end of the stream leaves the loop whatever was queued.
FillReturn ==
  /\ op # NoOp /\ op.stage = "return"
  /\ Filled

\* reresolve_steady_source: a new stream at the same byte, of whatever the
\* resolution selects this time.
Reresolve ==
  /\ op # NoOp /\ op.stage = "reresolve"
  /\ \/ Fail
     \/ \E e \in Selectable :
          /\ source' = ReplaceResolvedStream(source, e)
          /\ worker' = [worker EXCEPT !.lastVideo = op.video, !.lastEncoding = e]
          /\ op' = [op EXCEPT !.stage = "read", !.tries = 2]
          /\ UNCHANGED <<position, out, queue, ended>>

\* The producer refills what is missing from the source buffer.
Refill ==
  /\ op = NoOp /\ source # None /\ ~ended /\ Len(queue) < SourceTarget
  /\ op' = [kind |-> "refill", video |-> worker.current,
            limit |-> SourceTarget - Len(queue), target |-> SourceTarget - Len(queue),
            resume |-> 0, via |-> "first", tries |-> 0, stage |-> "loop"]
  /\ UNCHANGED <<worker, position, source, out, queue, ended>>

\* A frame leaves for Discord and its samples are recorded as sent.
Send ==
  /\ queue # <<>>
  /\ queue' = Tail(queue)
  /\ position' = [position EXCEPT !.sent = @ + FrameTicks]
  /\ UNCHANGED <<worker, source, op, out, ended>>

\* The call's future is dropped at an await: a Play whose client went away,
\* or producer.abort().
Cancel ==
  /\ op # NoOp /\ op.stage \in {"resolve", "open", "seek", "read", "reresolve"}
  /\ Fail

Step == Resolve \/ OpenRead \/ FillTurn \/ FillRead \/ FillReturn \/ Reresolve

Next ==
  \/ \E v \in Videos, reset \in BOOLEAN : Prepare(v, reset)
  \/ Refill \/ Send \/ Cancel
  \/ Step

\* A call is polled until it returns: every await in it is an HTTP read under
\* a timeout or a request to the resolver.
Spec == Init /\ [][Next]_vars /\ WF_vars(Step)

----------------------------------------------------------------------------
(* Properties.                                                             *)

Frames == [at : 0..(2 * TrackTicks), ticks : [1..FrameTicks -> Pad..(TrackTicks - 1)]]

Ops ==
  [kind : {"prepare", "refill"}, video : Videos, limit : 1..SourceTarget,
   target : 1..SourceTarget, resume : Nat, via : {"reopen", "first", "second"},
   tries : 0..2, stage : {"resolve", "open", "seek", "loop", "read", "reresolve", "return"}]

\* The calls, the stream and the worker hold values of their types, and the
\* stream never runs past the resource.
TypeOK ==
  /\ worker \in [current : Videos \cup {None}, pending : Seq(Frames),
                 norm : [pcm : Seq(0..(TrackTicks - 1)), next : Nat \cup {None}],
                 lastVideo : Videos \cup {None}, lastEncoding : Encodings \cup {None}]
  /\ worker.lastVideo # None => worker.lastEncoding # None
  /\ position \in [sent : 0..(2 * TrackTicks + FrameTicks), of : Videos \cup {None}]
  /\ source \in Sources \cup {None} /\ op \in Ops \cup {NoOp}
  /\ out \in Seq(Frames) /\ queue \in Seq(Frames) /\ ended \in BOOLEAN

\* Whatever times out, breaks, ends short or is resolved again, the demuxer is
\* fed the bytes of the resource one after the other, none twice and none left
\* out: only a resolution that switches to another encoding in mid-stream
\* (reresolve_steady_source compares nothing) can break the sequence.
BytesContiguous ==
  source # None => /\ source.fed = source.stream.pos
                   /\ source.torn => source.mixed

\* What is read ahead lies between the byte reached and the body, a response
\* whose length is known also says where the resource ends, and the packets
\* found are those the bytes so far hold.
StreamInv ==
  source # None =>
    LET s == source.stream IN
      /\ s.pos + s.pending = s.body
      /\ s.open /\ s.responseEnd > 0 => ResourceEnd \in {s.responseEnd, s.resourceEnd}
      /\ ~source.torn => source.parsed = Complete(source.fed)
      /\ source.packets \subseteq 1..source.parsed

\* What a call finds at each of its stages: nothing of the track before the
\* source is open, no packet and no frame waiting when the stream is read,
\* and the whole stream behind it after its end.
CallInv ==
  /\ op = NoOp => out = <<>> /\ (source # None => worker.norm.next # None)
  /\ source = None => /\ out = <<>> /\ worker.pending = <<>>
                      /\ op # NoOp => op.stage = "resolve"
  /\ op # NoOp =>
       /\ ~ended /\ Len(out) <= op.limit
       /\ op.kind = "prepare" => /\ queue = <<>> /\ op.limit = SourceTarget
                                 /\ op.resume > 0 => worker.current = op.video
       /\ op.kind = "refill" =>
            /\ op.target = op.limit /\ op.limit + Len(queue) <= SourceTarget
            /\ worker.norm.next # None
            /\ op.stage \in {"loop", "read", "reresolve", "return"}
       /\ op.stage = "resolve" => source = None
       /\ op.stage \in {"resolve", "open", "seek"} =>
            /\ op.kind = "prepare" /\ worker.pending = <<>> /\ out = <<>>
            /\ worker.norm = NewNormalizer /\ position.sent = op.resume
       /\ op.stage \in {"open", "seek"} => ~source.mixed
       /\ op.stage \in {"read", "reresolve"} =>
            /\ source.packets = {} /\ worker.pending = <<>>
            /\ Len(out) < op.limit /\ Len(out) < op.target
       /\ op.stage = "return" =>
            /\ source.packets = {} /\ worker.pending = <<>> /\ worker.norm.pcm = <<>>
            /\ source.stream.pos = ResourceEnd

\* The normalizer before its first packet, between two packets, and after the
\* flush: what it holds ends where the next packet starts.
NormInv ==
  source # None =>
    LET norm == worker.norm IN
      \/ /\ norm = NewNormalizer /\ op # NoOp /\ op.kind = "prepare"
         /\ out = <<>> /\ worker.pending = <<>> /\ position.sent = op.resume
         /\ source.packets = Kept(1..source.parsed, op.resume)
         /\ \/ op.stage \in {"open", "seek"} \/ source.packets # {}
            \/ source.stream.pos = ResourceEnd
      \/ /\ norm.next # None /\ Len(norm.pcm) < FrameTicks
         /\ \A i \in 1..Len(norm.pcm) : norm.pcm[i] = norm.next + i - 1
         /\ \E k \in 1..(source.parsed + 1) :
              Start[k] = norm.next + Len(norm.pcm) /\ source.packets = k..source.parsed
      \/ /\ norm.next # None /\ norm.pcm = <<>> /\ source.packets = {}
         /\ source.stream.pos = ResourceEnd
         /\ Start[source.parsed + 1] <= norm.next /\ norm.next < TrackTicks + FrameTicks

\* The frames the worker has queued, from the next one to be sent to the last
\* one waiting for room.
Waiting == queue \o out \o worker.pending

\* Frames that lie one after the other from e on, inside the track.
InLine(frames, e) ==
  \A i \in 1..Len(frames) :
    frames[i].at = e + (i - 1) * FrameTicks /\ frames[i].at < TrackTicks

\* Frames that hold the audio their positions claim; only the last one may be
\* padded.
Sound(frames, padded) ==
  \A i \in 1..Len(frames), j \in 1..FrameTicks :
    \/ frames[i].ticks[j] = frames[i].at + j - 1
    \/ padded /\ frames[i].ticks[j] = Pad /\ i = Len(frames)

\* Nothing can follow what is queued.
Exhausted ==
  source # None => /\ source.packets = {} /\ worker.norm.pcm = <<>>
                   /\ source.stream.pos = ResourceEnd

AudioInv == Sound(Waiting, Exhausted)

\* The frames start at e, in the packet the reported position is in, and run
\* on to where the normalizer is.
OnLine(e) ==
  /\ InLine(Waiting, e)
  /\ Waiting # <<>> \/ (source # None /\ worker.norm.next # None) =>
       e <= position.sent /\ \E k \in Packets : position.sent < e + Duration(k)
  /\ source # None /\ worker.norm.next # None =>
       worker.norm.next = e + Len(Waiting) * FrameTicks

LineInv == \E e \in 0..(TrackTicks + FrameTicks) : OnLine(e)

\* The position a later Play of the current video resumes from was counted on
\* that video, whatever calls failed or were dropped in between.
PositionOfCurrent ==
  position.sent > 0 => position.of = worker.current

\* The position belongs to the video of the frames handed over, and to that of
\* the source once it is open.
OwnerInv ==
  /\ queue # <<>> => position.of = worker.current
  /\ source # None =>
       IF op = NoOp THEN position.of = worker.current /\ worker.current # None
       ELSE /\ op.kind = "refill" => /\ position.of = worker.current
                                     /\ worker.current = op.video
            /\ op.stage \notin {"open", "seek"} => position.of = op.video

\* What is played next never lies after the position reported as sent, and
\* lies before it by less than one packet: a resume repeats the start of the
\* packet it falls in, and no more.
ResumeWithinPacket ==
  queue # <<>> => /\ Head(queue).at <= position.sent
                  /\ \E k \in Packets : position.sent < Head(queue).at + Duration(k)

\* The end of the stream is announced only with every packet turned into
\* frames and none of them held back.
EndedInv ==
  ended => /\ op = NoOp /\ source # None /\ worker.pending = <<>>
           /\ source.packets = {} /\ worker.norm.pcm = <<>>
           /\ source.stream.pos = ResourceEnd

\* What holds of the open source and of the position in every state: types, a
\* resource read without gap or repetition, frames on one line with what the
\* normalizer and the demuxer hold, and a position that belongs to the current
\* video and lies in the packet played next.
SourceInv ==
  /\ TypeOK /\ BytesContiguous /\ StreamInv /\ CallInv /\ NormInv /\ LineInv /\ AudioInv
  /\ PositionOfCurrent /\ OwnerInv /\ EndedInv /\ ResumeWithinPacket

\* The frames the worker has queued follow each other without gap or overlap,
\* and each holds the audio its position claims; only the last one may be
\* padded.
FramesInOrder ==
  /\ Sound(Waiting, TRUE)
  /\ \A i \in 2..Len(Waiting) : Waiting[i].at = Waiting[i - 1].at + FrameTicks

\* The end of the stream is announced only when every packet of the track has
\* become frames, the padding of the last one included (a stream of two
\* encodings aside, which the demuxer stops understanding where they meet).
EndIsComplete ==
  ended /\ ~source.mixed =>
    /\ worker.norm.next >= TrackTicks /\ worker.pending = <<>>
    /\ source.packets = {} /\ worker.norm.pcm = <<>>

\* Only a Play of another video, or one after a reset, moves the position
\* back: a Play of the same video that fails, times out or is dropped leaves
\* it for the next attempt.
PositionKept ==
  [][position'.sent < position.sent =>
       \E v \in Videos, reset \in BOOLEAN :
         Prepare(v, reset) /\ (reset \/ v # worker.current)]_vars

\* Every prepare and every fill returns, however often the server refuses,
\* stalls or cuts a response short: reopening is tied to progress.
CallsReturn == op # NoOp ~> op = NoOp

----------------------------------------------------------------------------
(* TrackSource implements FrameFeed.                                       *)

FeedPhase ==
  IF op # NoOp /\ op.kind = "prepare" THEN "preparing"
  ELSE IF source # None THEN "feeding" ELSE "idle"

\* The position of the next frame to leave: the first one queued, or the one
\* the normalizer is at.
FeedAt ==
  LET frames == IF source = None THEN queue ELSE Waiting IN
    IF FeedPhase = "preparing" THEN None
    ELSE IF frames # <<>> THEN Head(frames).at
    ELSE IF source # None THEN worker.norm.next ELSE None

Feed == INSTANCE FrameFeed WITH
  Repeats <- {Duration(k) : k \in Packets}, MaxReady <- SourceTarget,
  phase <- FeedPhase, at <- FeedAt, ready <- Len(queue), sent <- position.sent,
  ended <- ended, cut <- (source # None /\ source.mixed)

\* The worker, with its recovery, its HTTP stream, demuxer and normalizer,
\* feeds the runtime frames as FrameFeed specifies, and a Play always either
\* begins or fails.
FeedsTrack == Feed!Spec
=============================================================================
