--------------------------- MODULE SessionControl ---------------------------
(***************************************************************************)
(* The control half of VoiceSessionRuntime: the seven commands of the      *)
(* gRPC surface running as concurrent tasks over one shared session.       *)
(*                                                                         *)
(* Every RPC runs its handler in its own task, Play included: it returns   *)
(* when its track is over, so other commands always overlap it.  A handler *)
(* is cut at its await points and at the points where another thread may   *)
(* read what it writes; a lock that is held across an await is a variable, *)
(* one that is taken and released within a step is the guard of that step. *)
(*                                                                         *)
(* The media driver is abstracted to what the handlers see of it: the      *)
(* commands it drains, whether it is paused, the underruns it reports and  *)
(* how it ends.  MediaPlayout models its inside.                           *)
(***************************************************************************)
EXTENDS Integers, Sequences, FiniteSets

CONSTANTS
    Slots,          \* tasks of the runtime that may be in flight at once
    Videos,         \* video ids a Play may name
    Contexts,       \* voice contexts the bot may forward
    Dialable,       \* the contexts whose endpoint gives a gateway url
    Commands,       \* the commands the clients of a run issue
    MaxCommands,    \* bound on the commands issued
    Overlapping,    \* commands a client sends without waiting for the answer to
                    \* another one of these; a Play is never waited for
    MaxFaults,      \* bound on the steps that fail and waits that time out
    MaxUnderruns,   \* bound on the underruns the driver reports
    MediaCap,       \* capacity of a MediaCommand channel
    None            \* no context, video, session, channel or lock holder

ASSUME SessionConstants ==
    /\ Slots # {} /\ IsFiniteSet(Slots) /\ None \notin Slots
    /\ None \notin Videos /\ None \notin Contexts /\ Dialable \subseteq Contexts
    /\ Commands \subseteq {"Join", "Update", "Play", "Pause", "Resume", "Stop", "Leave"}
    /\ MaxCommands \in Nat /\ Overlapping \subseteq Commands /\ MaxFaults \in Nat
    /\ MaxUnderruns \in Nat /\ MediaCap \in Nat \ {0}

VARIABLES
    state,          \* RwLock<Snapshot>: what GetState reports
    stateLock,      \* the task that holds the state lock across an await
    voice,          \* Mutex<Option<ConnectedVoiceSession>>
    voiceLock,      \* the task that holds the voice lock across an await
    commands,       \* media_commands: the slot whose channel is installed
    returned,       \* media_owner_return_count
    playbackEpoch, rolloverEpoch, generation, resetPending,
    worker,         \* PlaybackWorker: its video and whether it was heard
    task,           \* the handler each slot runs and where it stands
    driver,         \* the media driver of each slot's pipeline
    issued,         \* commands issued so far
    starts,         \* the number of the last Join, Update or Play among them
    connects,       \* sessions connected so far: the identity of the next
    faults, underruns,
    settled         \* history: what the last finished command left behind

locks == <<stateLock, voiceLock>>
epochs == <<playbackEpoch, rolloverEpoch, generation>>
media == <<commands, returned, driver, underruns>>
bounds == <<issued, starts, connects, faults>>
vars == <<state, voice, locks, epochs, resetPending, worker, task, media, bounds, settled>>

SessionStates == {"Idle", "ConnectingVoice", "VoiceReady", "ResolvingTrack",
                  "Buffering", "Playing", "Paused"}
TrackStates == {"ResolvingTrack", "Buffering", "Playing", "Paused"}

Session == [id: Nat, ctx: Contexts, connected: BOOLEAN, started: BOOLEAN]

\* Snapshot::default().
DefaultSnapshot == [s |-> "Idle", ctx |-> None, video |-> None, reconnecting |-> FALSE]

\* A slot no handler runs in.
FreeTask == [pc |-> "free", cmd |-> "none", arg |-> None, n |-> 0, fresh |-> FALSE,
             epoch |-> 0, roll |-> 0, gen |-> 0, count |-> 0, video |-> None,
             own |-> FALSE, cut |-> FALSE, end |-> "none", bad |-> FALSE, sess |-> None]

\* A pipeline that has not been spawned.
NoDriver == [run |-> "off", paused |-> FALSE, starved |-> FALSE, buffering |-> FALSE,
             queue |-> <<>>, told |-> <<>>]

(***************************************************************************)
(* Steps of a handler.                                                     *)
(***************************************************************************)
At(p, pc) == task[p].pc = pc

Move(p, pc) == task' = [task EXCEPT ![p].pc = pc]

StateFree == stateLock = None
VoiceFree == voiceLock = None

Fault == faults < MaxFaults /\ faults' = faults + 1

\* A handler returns.  A resume that failed is looked at by
\* resume_after_rollover, which has no caller to tell.
Result(p, ok) ==
    IF task[p].cmd = "resumed" /\ ~ok
    THEN [task EXCEPT ![p] = [@ EXCEPT !.pc = "resumeFailed", !.sess = None]]
    ELSE [task EXCEPT ![p] = FreeTask]

Ok(p) == task' = Result(p, TRUE)
Err(p) == task' = Result(p, FALSE)

Interrupted(p) == playbackEpoch # task[p].epoch
RolloverIsCurrent(p) == rolloverEpoch = task[p].roll

Active == state.ctx # None
Loaded == Active /\ state.video # None

\* send_media_command: the installed channel, if its driver still listens,
\* takes the command; the caller waits while the channel is full.
Sent(cmd) ==
    IF commands # None /\ driver[commands].run \in {"off", "run"}
    THEN [driver EXCEPT ![commands].queue = Append(@, cmd)]
    ELSE driver

Sendable ==
    commands # None =>
        (driver[commands].run \in {"off", "run"} => Len(driver[commands].queue) < MediaCap)

\* The state a session without a track goes back to.
Resting(ctx) == IF ctx = None THEN "Idle" ELSE "VoiceReady"

(***************************************************************************)
(* Clients.                                                                *)
(***************************************************************************)
Short(p) == task[p].pc # "free" /\ task[p].cmd \notin {"Play", "resumed"}

FirstStep == [Join |-> "joinCheck", Update |-> "updateCheck", Play |-> "playResolve",
              Pause |-> "pauseCheck", Resume |-> "resumeCheck", Stop |-> "stopCheck",
              Leave |-> "leaveOwner"]

\* handle_command: an RPC reaches the runtime, as far as its first await.
Arrive(p, cmd, arg, epoch) ==
    /\ At(p, "free") /\ cmd \in Commands /\ issued < MaxCommands
    /\ \A q \in Slots : Short(q) => {cmd, task[q].cmd} \subseteq Overlapping
    /\ issued' = issued + 1
    /\ task' = [task EXCEPT ![p] =
          [FreeTask EXCEPT !.pc = FirstStep[cmd], !.cmd = cmd, !.arg = arg, !.video = arg,
                           !.epoch = epoch, !.n = issued + 1, !.fresh = settled # "no"]]
    /\ IF cmd \in {"Join", "Update", "Play"}
       THEN starts' = issued + 1 /\ settled' = "no"
       ELSE UNCHANGED <<starts, settled>>
    /\ UNCHANGED <<state, voice, locks, generation, worker, media, connects, faults>>

Begin(p, cmd, arg) ==
    /\ Arrive(p, cmd, arg, 0)
    /\ UNCHANGED <<playbackEpoch, rolloverEpoch, resetPending>>

\* Faulty variant: the new epoch is used but not stored.
\* Play begins its playback, valid or not, before it looks at the state.
PlayBegin(p, video) ==
    /\ Arrive(p, "Play", video, playbackEpoch + 1)
    /\ playbackEpoch' = playbackEpoch + 1
    /\ UNCHANGED <<rolloverEpoch, resetPending>>

\* Faulty variant: the playback in flight is not invalidated.
LeaveBeginLoose(p) ==
    /\ Arrive(p, "Leave", None, 0)
    /\ rolloverEpoch' = rolloverEpoch + 1
    /\ resetPending' = TRUE
    /\ UNCHANGED playbackEpoch

\* Leave invalidates the rollovers and the playback in flight, and defers the
\* reset of the worker, before its first await.
LeaveBegin(p) ==
    /\ Arrive(p, "Leave", None, 0)
    /\ rolloverEpoch' = rolloverEpoch + 1
    /\ playbackEpoch' = playbackEpoch + 1
    /\ resetPending' = TRUE

\* What a command leaves behind, unless one that starts something was issued
\* while it ran.
Settles(p, how) == settled' = IF starts <= task[p].n THEN how ELSE settled

(***************************************************************************)
(* JoinVoice.                                                              *)
(***************************************************************************)
JoinCheck(p) ==
    /\ At(p, "joinCheck") /\ StateFree
    /\ IF state.s = "Idle" /\ state.ctx = None /\ state.video = None
       THEN /\ state' = [state EXCEPT !.s = "ConnectingVoice", !.ctx = task[p].arg]
            /\ Move(p, "joinConnect")
       ELSE Err(p) /\ UNCHANGED state
    /\ UNCHANGED <<voice, locks, epochs, resetPending, worker, media, bounds, settled>>

\* ConnectedVoiceSession::connect: the handshake, or a session without a
\* transport where the endpoint gives no gateway url.
Connected(ctx) ==
    [id |-> connects + 1, ctx |-> ctx, connected |-> ctx \in Dialable, started |-> FALSE]

JoinConnect(p) ==
    /\ At(p, "joinConnect")
    /\ \/ /\ connects' = connects + 1
          /\ task' = [task EXCEPT ![p].pc = "joinState", ![p].sess = Connected(task[p].arg)]
          /\ UNCHANGED faults
       \/ Fault /\ Err(p) /\ UNCHANGED connects
    /\ UNCHANGED <<state, voice, locks, epochs, resetPending, worker, media, issued, starts, settled>>

\* The snapshot is written, and its lock kept, before the voice lock is taken.
JoinState(p) ==
    /\ At(p, "joinState") /\ StateFree
    /\ state' = [DefaultSnapshot EXCEPT
                   !.s = IF task[p].sess.connected THEN "VoiceReady" ELSE "ConnectingVoice",
                   !.ctx = task[p].sess.ctx]
    /\ stateLock' = p
    /\ Move(p, "joinVoice")
    /\ UNCHANGED <<voice, voiceLock, epochs, resetPending, worker, media, bounds, settled>>

JoinVoice(p) ==
    /\ At(p, "joinVoice") /\ VoiceFree
    /\ voice' = task[p].sess
    /\ stateLock' = None
    /\ Ok(p)
    /\ UNCHANGED <<state, voiceLock, epochs, resetPending, worker, media, bounds, settled>>

(***************************************************************************)
(* Play, and the playback a rollover resumes: play_with_epoch.             *)
(***************************************************************************)
PlayResolve(p) ==
    /\ At(p, "playResolve") /\ StateFree
    /\ IF Interrupted(p) THEN Ok(p) /\ UNCHANGED state
       ELSE IF ~Active THEN Err(p) /\ UNCHANGED state
       ELSE /\ state' = [state EXCEPT !.s = "ResolvingTrack", !.video = task[p].video]
            /\ Move(p, "playWait")
    /\ UNCHANGED <<voice, locks, epochs, resetPending, worker, media, bounds, settled>>

\* wait_for_connected_voice: an absent session ends the Play, one that is not
\* connected is looked at again until the deadline.
PlayWait(p) ==
    /\ At(p, "playWait") /\ VoiceFree
    /\ IF ~Interrupted(p) /\ voice # None /\ voice.connected
       THEN Move(p, "playPrepare")
       ELSE Ok(p)
    /\ UNCHANGED <<state, voice, locks, epochs, resetPending, worker, media, bounds, settled>>

\* worker.prepare under the worker lock, a deferred reset first.  The video is
\* noted only by a prepare that succeeds; the position of another video is
\* dropped by one that fails too.
ResetWorker == IF resetPending THEN [video |-> None, src |-> 0, heard |-> FALSE] ELSE worker

PreparedWorker(p) ==
    LET w == ResetWorker
    IN  [video |-> task[p].video, src |-> task[p].epoch,
         heard |-> w.video = task[p].video /\ w.heard]

UnpreparedWorker(p) ==
    LET w == ResetWorker
    IN  IF w.video = task[p].video THEN w ELSE [w EXCEPT !.src = 0, !.heard = FALSE]

PlayPrepare(p) ==
    /\ At(p, "playPrepare")
    /\ resetPending' = FALSE
    /\ \/ worker' = PreparedWorker(p) /\ Move(p, "playBuffer") /\ UNCHANGED faults
       \/ Fault /\ worker' = UnpreparedWorker(p) /\ Err(p)
    /\ UNCHANGED <<state, voice, locks, epochs, media, issued, starts, connects, settled>>

\* Faulty variant: a superseded playback still writes its states.
\* emit_playback_state: the playback states of a superseded playback, and any
\* of them while paused, are dropped.
Emitted(p, s) ==
    IF Interrupted(p) \/ state.s = "Paused" THEN state
    ELSE [state EXCEPT !.s = s, !.video = task[p].video]

PlayBuffer(p) ==
    /\ At(p, "playBuffer") /\ StateFree
    /\ IF Interrupted(p) THEN Ok(p) ELSE Move(p, "playFill")
    /\ state' = Emitted(p, "Buffering")
    /\ UNCHANGED <<voice, locks, epochs, resetPending, worker, media, bounds, settled>>

PlayFill(p) ==
    /\ At(p, "playFill")
    /\ \/ (IF Interrupted(p) THEN Ok(p) ELSE Move(p, "playTake")) /\ UNCHANGED faults
       \/ Fault /\ Err(p)
    /\ UNCHANGED <<state, voice, locks, epochs, resetPending, worker, media, issued, starts,
                   connects, settled>>

PlayTake(p) ==
    /\ At(p, "playTake") /\ VoiceFree
    /\ IF Interrupted(p) THEN Ok(p) /\ UNCHANGED voice
       ELSE IF voice = None THEN Err(p) /\ UNCHANGED voice
       ELSE /\ task' = [task EXCEPT ![p].pc = "playSpeak", ![p].sess = voice]
            /\ voice' = None
    /\ UNCHANGED <<state, locks, epochs, resetPending, worker, media, bounds, settled>>

\* wait_for_initial_dave_settle and prepare_speaking_before_media, then one
\* more look at the epoch.  end remembers how a Play that stops here returns.
PlaySpeak(p) ==
    /\ At(p, "playSpeak")
    /\ \/ /\ task' = [task EXCEPT ![p].pc = IF Interrupted(p) THEN "playPutBack" ELSE "playLaunch",
                                  ![p].end = "ok", ![p].sess.started = TRUE]
          /\ UNCHANGED faults
       \/ /\ Fault
          /\ task' = [task EXCEPT ![p].pc = "playPutBack", ![p].end = "err"]
    /\ UNCHANGED <<state, voice, locks, epochs, resetPending, worker, media, issued, starts,
                   connects, settled>>

PlayPutBack(p) ==
    /\ At(p, "playPutBack") /\ VoiceFree
    /\ voice' = IF voice = None THEN task[p].sess ELSE voice
    /\ task' = Result(p, task[p].end = "ok")
    /\ UNCHANGED <<state, locks, epochs, resetPending, worker, media, bounds, settled>>

(***************************************************************************)
(* The pipeline of a playback: send_playback_frames.                       *)
(***************************************************************************)
PlayLaunch(p) ==
    /\ At(p, "playLaunch")
    /\ task' = [task EXCEPT ![p].pc = "playInstall", ![p].gen = generation]
    /\ UNCHANGED <<state, voice, locks, epochs, resetPending, worker, media, bounds, settled>>

PlayInstall(p) ==
    /\ At(p, "playInstall")
    /\ commands' = p
    /\ Move(p, "playStart")
    /\ UNCHANGED <<state, voice, locks, epochs, resetPending, worker, returned, driver,
                   underruns, bounds, settled>>

\* Playing is emitted, then the driver is spawned with the session.
PlayStart(p) ==
    /\ At(p, "playStart") /\ StateFree
    /\ state' = Emitted(p, "Playing")
    /\ driver' = [driver EXCEPT ![p].run = "run"]
    /\ Move(p, "playPump")
    /\ UNCHANGED <<voice, locks, epochs, resetPending, worker, commands, returned,
                   underruns, bounds, settled>>

Running(p) == driver[p].run = "run"

\* The driver drains its commands one at a time.
Drained(d) ==
    LET rest == Tail(d.queue)
    IN  CASE Head(d.queue) = "Pause" -> [d EXCEPT !.queue = rest, !.paused = TRUE]
          [] Head(d.queue) = "Resume" -> [d EXCEPT !.queue = rest, !.paused = FALSE]
          [] Head(d.queue) = "Stop" -> [d EXCEPT !.queue = <<>>, !.run = "stopped"]

DriverDrain(p) ==
    /\ Running(p) /\ driver[p].queue # <<>>
    /\ driver' = [driver EXCEPT ![p] = Drained(@)]
    /\ UNCHANGED <<state, voice, locks, epochs, resetPending, worker, task, commands,
                   returned, underruns, bounds, settled>>

\* The pump learns of a frame that left, at once or later: the position the
\* source shares with the worker that prepared it moves on.
PumpHears(p) ==
    /\ At(p, "playPump")
    /\ worker.src = task[p].epoch /\ ~worker.heard
    /\ worker' = [worker EXCEPT !.heard = TRUE]
    /\ UNCHANGED <<state, voice, locks, epochs, resetPending, task, media, bounds, settled>>

\* The source runs dry, or has frames again: the pump is told.
DriverStarves(p) ==
    /\ Running(p) /\ ~driver[p].paused
    /\ driver[p].starved \/ underruns < MaxUnderruns
    /\ driver' = [driver EXCEPT ![p].starved = ~@,
                                ![p].told = Append(@, IF driver[p].starved THEN "resumed"
                                                                           ELSE "underrun")]
    /\ underruns' = IF driver[p].starved THEN underruns ELSE underruns + 1
    /\ UNCHANGED <<state, voice, locks, epochs, resetPending, worker, task, commands,
                   returned, bounds, settled>>

\* The driver is over: at the end of the track, because its epoch is not the
\* current one, or with an error.
DriverEnds(p) ==
    /\ Running(p)
    /\ \/ /\ ~driver[p].paused
          /\ driver' = [driver EXCEPT ![p].run = "natural"] /\ UNCHANGED faults
       \/ /\ Interrupted(p)
          /\ driver' = [driver EXCEPT ![p].run = "stopped", ![p].queue = <<>>]
          /\ UNCHANGED faults
       \/ Fault /\ driver' = [driver EXCEPT ![p].run = "error", ![p].queue = <<>>]
    /\ UNCHANGED <<state, voice, locks, epochs, resetPending, worker, task, commands,
                   returned, underruns, issued, starts, connects, settled>>

\* The pump passes an underrun on as Buffering, once, and its end as Playing.
PumpMetric(p) ==
    /\ At(p, "playPump") /\ driver[p].told # <<>> /\ StateFree
    /\ LET dry == Head(driver[p].told) = "underrun"
       IN  /\ driver' = [driver EXCEPT ![p].told = Tail(@), ![p].buffering = dry]
           /\ state' = IF dry = driver[p].buffering THEN state
                       ELSE Emitted(p, IF dry THEN "Buffering" ELSE "Playing")
    /\ UNCHANGED <<voice, locks, epochs, resetPending, worker, task, commands, returned,
                   underruns, bounds, settled>>

\* The pump of an interrupted playback stops its driver, every 20 ms: the
\* stops after the first are not kept.
PumpStop(p) ==
    /\ At(p, "playPump") /\ Running(p) /\ Interrupted(p)
    /\ Len(driver[p].queue) < MediaCap /\ \A i \in DOMAIN driver[p].queue : driver[p].queue[i] # "Stop"
    /\ driver' = [driver EXCEPT ![p].queue = Append(@, "Stop")]
    /\ UNCHANGED <<state, voice, locks, epochs, resetPending, worker, task, commands,
                   returned, underruns, bounds, settled>>

\* Faulty variant: the channel of the driver that ended stays installed.
PumpDoneInstalled(p) ==
    /\ At(p, "playPump") /\ driver[p].run \in {"natural", "stopped", "error"}
    /\ task' = [task EXCEPT ![p].pc = "playRestore", ![p].end = driver[p].run,
                            ![p].sess.started = ~driver[p].paused,
                            ![p].cut = Interrupted(p), ![p].own = (generation = task[p].gen)]
    /\ driver' = [driver EXCEPT ![p] = NoDriver]
    /\ UNCHANGED <<state, voice, locks, epochs, resetPending, worker, commands, returned,
                   underruns, bounds, settled>>

\* The driver's result: metrics it sent before are no longer read.  Whether the
\* playback was cut short and whether its transport is still the current one
\* are read here, once.
PumpDone(p) ==
    /\ At(p, "playPump") /\ driver[p].run \in {"natural", "stopped", "error"}
    /\ commands' = IF commands = p THEN None ELSE commands
    /\ task' = [task EXCEPT ![p].pc = "playRestore", ![p].end = driver[p].run,
                            ![p].sess.started = ~driver[p].paused,
                            ![p].cut = Interrupted(p), ![p].own = (generation = task[p].gen)]
    /\ driver' = [driver EXCEPT ![p] = NoDriver]
    /\ UNCHANGED <<state, voice, locks, epochs, resetPending, worker, returned, underruns,
                   bounds, settled>>

\* Faulty variant: the session goes back where another one already is.
PlayRestoreInverted(p) ==
    /\ At(p, "playRestore") /\ VoiceFree
    /\ task' = [task EXCEPT ![p].pc = "playBoundary", ![p].own = @ /\ voice # None]
    /\ UNCHANGED <<state, voice, locks, epochs, resetPending, worker, media, bounds, settled>>

\* Whether the session goes back is decided before the stop boundary is sent.
PlayRestore(p) ==
    /\ At(p, "playRestore") /\ VoiceFree
    /\ task' = [task EXCEPT ![p].pc = "playBoundary", ![p].own = @ /\ voice = None]
    /\ UNCHANGED <<state, voice, locks, epochs, resetPending, worker, media, bounds, settled>>

\* The boundary of a track that ended or was interrupted: the silences and
\* the end of speaking.  A failed one is the result of the Play.
NeedsBoundary(p) == task[p].end = "natural" \/ task[p].cut

PlayBoundary(p) ==
    /\ At(p, "playBoundary")
    /\ \/ /\ task' = [task EXCEPT ![p].pc = "playReturn",
                                  ![p].sess.started = @ /\ ~NeedsBoundary(p)]
          /\ UNCHANGED faults
       \/ /\ NeedsBoundary(p) /\ Fault
          /\ task' = [task EXCEPT ![p].pc = "playReturn", ![p].bad = TRUE]
    /\ UNCHANGED <<state, voice, locks, epochs, resetPending, worker, media, issued, starts,
                   connects, settled>>

\* Faulty variant: the return is not counted.
PlayReturnUncounted(p) ==
    /\ At(p, "playReturn") /\ VoiceFree
    /\ voice' = IF task[p].own THEN task[p].sess ELSE voice
    /\ task' = [task EXCEPT ![p].pc = "playEnded", ![p].sess = None]
    /\ UNCHANGED <<state, locks, epochs, resetPending, worker, media, bounds, settled>>

\* mark_media_owner_returned, after the session is back or dropped.
PlayReturn(p) ==
    /\ At(p, "playReturn") /\ VoiceFree
    /\ voice' = IF task[p].own THEN task[p].sess ELSE voice
    /\ returned' = returned + 1
    /\ task' = [task EXCEPT ![p].pc = "playEnded", ![p].sess = None]
    /\ UNCHANGED <<state, locks, epochs, resetPending, worker, commands, driver, underruns,
                   bounds, settled>>

PlayEnded(p) ==
    /\ At(p, "playEnded")
    /\ IF task[p].end = "natural" /\ ~task[p].cut
       THEN /\ StateFree
            /\ resetPending' = TRUE
            /\ IF Interrupted(p) THEN UNCHANGED <<state, settled>>
               ELSE /\ state' = [state EXCEPT !.s = "VoiceReady", !.video = None]
                    /\ Settles(p, "ended")
       ELSE UNCHANGED <<state, resetPending, settled>>
    /\ task' = Result(p, task[p].end # "error" /\ ~task[p].bad)
    /\ UNCHANGED <<voice, locks, epochs, worker, media, bounds>>

(***************************************************************************)
(* Pause and Resume.  Pause tells the driver before it writes the state,   *)
(* Resume writes the state before it tells the driver.                     *)
(***************************************************************************)
PauseCheck(p) ==
    /\ At(p, "pauseCheck") /\ StateFree
    /\ IF Loaded /\ state.s = "Playing" THEN Move(p, "pauseSend")
       ELSE IF Loaded /\ state.s = "Paused" THEN Ok(p)
       ELSE Err(p)
    /\ UNCHANGED <<state, voice, locks, epochs, resetPending, worker, media, bounds, settled>>

PauseSend(p) ==
    /\ At(p, "pauseSend") /\ Sendable
    /\ driver' = Sent("Pause")
    /\ Move(p, "pauseState")
    /\ UNCHANGED <<state, voice, locks, epochs, resetPending, worker, commands, returned,
                   underruns, bounds, settled>>

PauseState(p) ==
    /\ At(p, "pauseState") /\ StateFree
    /\ IF Loaded /\ state.s = "Playing"
       THEN state' = [state EXCEPT !.s = "Paused"] /\ Ok(p)
       ELSE UNCHANGED state /\ task' = Result(p, Loaded /\ state.s = "Paused")
    /\ UNCHANGED <<voice, locks, epochs, resetPending, worker, media, bounds, settled>>

ResumeCheck(p) ==
    /\ At(p, "resumeCheck") /\ StateFree
    /\ IF Loaded /\ state.s = "Paused" THEN Move(p, "resumeState")
       ELSE task' = Result(p, Loaded /\ state.s = "Playing")
    /\ UNCHANGED <<state, voice, locks, epochs, resetPending, worker, media, bounds, settled>>

ResumeState(p) ==
    /\ At(p, "resumeState") /\ StateFree
    /\ IF Loaded /\ state.s = "Paused"
       THEN state' = [state EXCEPT !.s = "Playing"] /\ Move(p, "resumeSend")
       ELSE UNCHANGED state /\ task' = Result(p, Loaded /\ state.s = "Playing")
    /\ UNCHANGED <<voice, locks, epochs, resetPending, worker, media, bounds, settled>>

ResumeSend(p) ==
    /\ At(p, "resumeSend") /\ Sendable
    /\ driver' = Sent("Resume")
    /\ Ok(p)
    /\ UNCHANGED <<state, voice, locks, epochs, resetPending, worker, commands, returned,
                   underruns, bounds, settled>>

(***************************************************************************)
(* Stop.                                                                   *)
(***************************************************************************)
StopCheck(p) ==
    /\ At(p, "stopCheck") /\ StateFree
    /\ IF Active THEN Move(p, "stopOwner") ELSE Err(p)
    /\ UNCHANGED <<state, voice, locks, epochs, resetPending, worker, media, bounds, settled>>

StopOwner(p) ==
    /\ At(p, "stopOwner")
    /\ task' = [task EXCEPT ![p].pc = IF commands # None THEN "stopSend" ELSE "stopInvalidate",
                            ![p].own = commands # None, ![p].gen = generation]
    /\ UNCHANGED <<state, voice, locks, epochs, resetPending, worker, media, bounds, settled>>

StopSend(p) ==
    /\ At(p, "stopSend") /\ Sendable
    /\ driver' = Sent("Stop")
    /\ Move(p, "stopWait")
    /\ UNCHANGED <<state, voice, locks, epochs, resetPending, worker, commands, returned,
                   underruns, bounds, settled>>

\* wait_for_media_owner_session, up to MEDIA_OWNER_RETURN_TIMEOUT.
OwnerReturned(p) == generation # task[p].gen \/ (VoiceFree /\ voice # None)

StopWait(p) ==
    /\ At(p, "stopWait")
    /\ \/ /\ OwnerReturned(p)
          /\ Move(p, IF task[p].own THEN "stopInvalidate" ELSE "stopVoice")
          /\ UNCHANGED faults
       \/ Fault /\ Err(p)
    /\ UNCHANGED <<state, voice, locks, epochs, resetPending, worker, media, issued, starts,
                   connects, settled>>

\* Faulty variants: the playback in flight is not invalidated; the worker keeps
\* the position of the stopped track.
StopInvalidateUnreset(p) ==
    /\ At(p, "stopInvalidate")
    /\ playbackEpoch' = playbackEpoch + 1
    /\ Move(p, IF task[p].own THEN "stopVoice" ELSE "stopSend")
    /\ UNCHANGED <<state, voice, locks, rolloverEpoch, generation, resetPending, worker,
                   media, bounds, settled>>

\* The playback is invalidated; without an owner the Stop is sent only now.
StopInvalidate(p) ==
    /\ At(p, "stopInvalidate")
    /\ playbackEpoch' = playbackEpoch + 1
    /\ resetPending' = TRUE
    /\ Move(p, IF task[p].own THEN "stopVoice" ELSE "stopSend")
    /\ UNCHANGED <<state, voice, locks, rolloverEpoch, generation, worker, media, bounds,
                   settled>>

\* The voice lock is kept through the stop boundary and until the state is
\* written.
StopVoice(p) ==
    /\ At(p, "stopVoice") /\ VoiceFree
    /\ voiceLock' = p
    /\ Move(p, IF voice # None /\ voice.connected /\ (task[p].own \/ voice.started)
               THEN "stopBoundary" ELSE "stopState")
    /\ UNCHANGED <<state, stateLock, voice, epochs, resetPending, worker, media, bounds, settled>>

StopBoundary(p) ==
    /\ At(p, "stopBoundary")
    /\ \/ /\ voice' = [voice EXCEPT !.started = FALSE]
          /\ Move(p, "stopState")
          /\ UNCHANGED <<voiceLock, faults>>
       \/ Fault /\ Err(p) /\ voiceLock' = None /\ UNCHANGED voice
    /\ UNCHANGED <<state, stateLock, epochs, resetPending, worker, media, issued, starts, connects,
                   settled>>

\* Faulty variant: the video is dropped, the state of the track stays.
StopStateKept(p) ==
    /\ At(p, "stopState") /\ StateFree
    /\ state' = [state EXCEPT !.video = None]
    /\ voiceLock' = None
    /\ Ok(p) /\ Settles(p, "stopped")
    /\ UNCHANGED <<stateLock, voice, epochs, resetPending, worker, media, bounds>>

StopState(p) ==
    /\ At(p, "stopState") /\ StateFree
    /\ state' = [state EXCEPT !.s = "VoiceReady", !.video = None]
    /\ voiceLock' = None
    /\ Ok(p) /\ Settles(p, "stopped")
    /\ UNCHANGED <<stateLock, voice, epochs, resetPending, worker, media, bounds>>

(***************************************************************************)
(* LeaveVoice.                                                             *)
(***************************************************************************)
LeaveOwner(p) ==
    /\ At(p, "leaveOwner")
    /\ task' = [task EXCEPT ![p].pc = "leaveSend", ![p].own = commands # None,
                            ![p].count = returned]
    /\ generation' = generation + 1
    /\ UNCHANGED <<state, voice, locks, playbackEpoch, rolloverEpoch, resetPending, worker,
                   media, bounds, settled>>

LeaveSend(p) ==
    /\ At(p, "leaveSend") /\ Sendable
    /\ driver' = Sent("Stop")
    /\ Move(p, IF task[p].own THEN "leaveWait" ELSE "leaveClear")
    /\ UNCHANGED <<state, voice, locks, epochs, resetPending, worker, commands, returned,
                   underruns, bounds, settled>>

\* wait_for_media_owner_stopped_after, up to MEDIA_OWNER_RETURN_TIMEOUT.
LeaveWait(p) ==
    /\ At(p, "leaveWait")
    /\ \/ returned > task[p].count /\ Move(p, "leaveClear") /\ UNCHANGED faults
       \/ Fault /\ Err(p)
    /\ UNCHANGED <<state, voice, locks, epochs, resetPending, worker, media, issued, starts,
                   connects, settled>>

LeaveClear(p) ==
    /\ At(p, "leaveClear")
    /\ commands' = None
    /\ Move(p, "leaveState")
    /\ UNCHANGED <<state, voice, locks, epochs, resetPending, worker, returned, driver,
                   underruns, bounds, settled>>

LeaveState(p) ==
    /\ At(p, "leaveState") /\ StateFree
    /\ state' = DefaultSnapshot
    /\ Move(p, "leaveVoice")
    /\ UNCHANGED <<voice, locks, epochs, resetPending, worker, media, bounds, settled>>

LeaveVoice(p) ==
    /\ At(p, "leaveVoice") /\ VoiceFree
    /\ voice' = None
    /\ Ok(p) /\ Settles(p, "left")
    /\ UNCHANGED <<state, locks, epochs, resetPending, worker, media, bounds>>

(***************************************************************************)
(* UpdateVoiceContext: a rollover, or a refresh while paused.              *)
(***************************************************************************)
UpdateCheck(p) ==
    /\ At(p, "updateCheck") /\ StateFree
    /\ IF ~Active THEN Err(p)
       ELSE Move(p, IF state.s = "Paused" THEN "refreshOwner" ELSE "rollBegin")
    /\ UNCHANGED <<state, voice, locks, epochs, resetPending, worker, media, bounds, settled>>

RollBegin(p) ==
    /\ At(p, "rollBegin") /\ StateFree
    /\ IF ~Active THEN Err(p) /\ UNCHANGED rolloverEpoch
       ELSE /\ rolloverEpoch' = rolloverEpoch + 1
            /\ task' = [task EXCEPT ![p].pc = "rollOwner", ![p].video = state.video,
                                    ![p].roll = rolloverEpoch + 1]
    /\ UNCHANGED <<state, voice, locks, playbackEpoch, generation, resetPending, worker,
                   media, bounds, settled>>

RollOwner(p) ==
    /\ At(p, "rollOwner")
    /\ task' = [task EXCEPT ![p].pc = IF commands # None THEN "rollStop" ELSE "rollMatch",
                            ![p].gen = generation]
    /\ UNCHANGED <<state, voice, locks, epochs, resetPending, worker, media, bounds, settled>>

RollStop(p) ==
    /\ At(p, "rollStop") /\ Sendable
    /\ driver' = Sent("Stop")
    /\ Move(p, "rollWait")
    /\ UNCHANGED <<state, voice, locks, epochs, resetPending, worker, commands, returned,
                   underruns, bounds, settled>>

RollWait(p) ==
    /\ At(p, "rollWait")
    /\ \/ /\ OwnerReturned(p)
          /\ playbackEpoch' = playbackEpoch + 1
          /\ Move(p, "rollMatch")
          /\ UNCHANGED faults
       \/ Fault /\ Err(p) /\ UNCHANGED playbackEpoch
    /\ UNCHANGED <<state, voice, locks, rolloverEpoch, generation, resetPending, worker,
                   media, issued, starts, connects, settled>>

\* current_voice_context_matches: the session is kept or replaced.
RollMatch(p) ==
    /\ At(p, "rollMatch") /\ VoiceFree
    /\ Move(p, IF voice # None /\ voice.ctx = task[p].arg THEN "matchBegin" ELSE "rollInvalidate")
    /\ UNCHANGED <<state, voice, locks, epochs, resetPending, worker, media, bounds, settled>>

RollInvalidate(p) ==
    /\ At(p, "rollInvalidate")
    /\ generation' = generation + 1
    /\ playbackEpoch' = playbackEpoch + 1
    /\ Move(p, "rollClear")
    /\ UNCHANGED <<state, voice, locks, rolloverEpoch, resetPending, worker, media, bounds,
                   settled>>

RollClear(p) ==
    /\ At(p, "rollClear") /\ Sendable
    /\ driver' = Sent("Stop")
    /\ commands' = None
    /\ Move(p, "rollState")
    /\ UNCHANGED <<state, voice, locks, epochs, resetPending, worker, returned, underruns,
                   bounds, settled>>

\* The epoch a resume is guarded by is read, VoiceReconnecting is shown.
RollState(p) ==
    /\ At(p, "rollState") /\ StateFree
    /\ task' = [task EXCEPT ![p].pc = "rollConnect", ![p].epoch = playbackEpoch]
    /\ state' = [state EXCEPT !.reconnecting = TRUE]
    /\ UNCHANGED <<voice, locks, epochs, resetPending, worker, media, bounds, settled>>

\* A rollover that is not the current one any more returns without a trace.
RollConnect(p) ==
    /\ At(p, "rollConnect")
    /\ \/ /\ connects' = connects + 1
          /\ IF RolloverIsCurrent(p)
             THEN task' = [task EXCEPT ![p].pc = "rollSwap", ![p].sess = Connected(task[p].arg)]
             ELSE Ok(p)
          /\ UNCHANGED faults
       \/ /\ Fault
          /\ IF RolloverIsCurrent(p) THEN Move(p, "rollFailed") ELSE Ok(p)
          /\ UNCHANGED connects
    /\ UNCHANGED <<state, voice, locks, epochs, resetPending, worker, media, issued, starts, settled>>

RollSwap(p) ==
    /\ At(p, "rollSwap") /\ VoiceFree
    /\ voice' = task[p].sess
    /\ Move(p, "rollReady")
    /\ UNCHANGED <<state, locks, epochs, resetPending, worker, media, bounds, settled>>

\* The snapshot takes the session's context; the replaced and the kept
\* session alike end here.
RollReady(p) ==
    /\ At(p, "rollReady") /\ StateFree
    /\ state' = [state EXCEPT !.ctx = task[p].arg, !.reconnecting = FALSE,
                              !.s = IF state.video = None THEN "VoiceReady" ELSE @]
    /\ IF task[p].video # None THEN Move(p, "rollIntent") ELSE Ok(p)
    /\ UNCHANGED <<voice, locks, epochs, resetPending, worker, media, bounds, settled>>

\* rollover_resume_is_still_intended looks at the epochs, then at the state.
RollIntent(p) ==
    /\ At(p, "rollIntent")
    /\ IF RolloverIsCurrent(p) /\ ~Interrupted(p) THEN Move(p, "rollResume") ELSE Ok(p)
    /\ UNCHANGED <<state, voice, locks, epochs, resetPending, worker, media, bounds, settled>>

\* The RPC returns; resume_after_rollover goes on in a task of its own.
RollResume(p) ==
    /\ At(p, "rollResume") /\ StateFree
    /\ IF state.video = task[p].video
       THEN /\ playbackEpoch' = playbackEpoch + 1
            /\ task' = [task EXCEPT ![p].pc = "resumed", ![p].cmd = "resumed",
                                    ![p].epoch = playbackEpoch + 1, ![p].sess = None]
       ELSE Ok(p) /\ UNCHANGED playbackEpoch
    /\ UNCHANGED <<state, voice, locks, rolloverEpoch, generation, resetPending, worker,
                   media, bounds, settled>>

\* resume_attempt_is_still_current, before the Play and after a failed one.
Wanted(p) == RolloverIsCurrent(p) /\ ~Interrupted(p) /\ state.video = task[p].video

Resumed(p) ==
    /\ At(p, "resumed") /\ StateFree
    /\ IF Wanted(p) THEN Move(p, "playResolve") ELSE Ok(p)
    /\ UNCHANGED <<state, voice, locks, epochs, resetPending, worker, media, bounds, settled>>

ResumeFailed(p) ==
    /\ At(p, "resumeFailed") /\ StateFree
    /\ IF Wanted(p) THEN Move(p, "quiesce") ELSE Ok(p)
    /\ UNCHANGED <<state, voice, locks, epochs, resetPending, worker, media, bounds, settled>>

\* A reconnect that failed: the track it interrupted is given up, or the
\* session goes back to rest.
RollFailed(p) ==
    /\ At(p, "rollFailed") /\ StateFree
    /\ Move(p, IF task[p].video # None /\ Wanted(p) THEN "quiesce" ELSE "recover")
    /\ UNCHANGED <<state, voice, locks, epochs, resetPending, worker, media, bounds, settled>>

\* quiesce_current_transport.
Quiesce(p) ==
    /\ At(p, "quiesce") /\ Sendable
    /\ driver' = Sent("Stop")
    /\ Move(p, "quiesceVoice")
    /\ UNCHANGED <<state, voice, locks, epochs, resetPending, worker, commands, returned,
                   underruns, bounds, settled>>

QuiesceVoice(p) ==
    /\ At(p, "quiesceVoice") /\ VoiceFree
    /\ IF voice # None /\ voice.connected /\ voice.started
       THEN voiceLock' = p /\ Move(p, "quiesceBoundary")
       ELSE UNCHANGED voiceLock /\ Move(p, "interrupt")
    /\ UNCHANGED <<state, voice, stateLock, epochs, resetPending, worker, media, bounds, settled>>

\* A boundary that fails is not looked at.
QuiesceBoundary(p) ==
    /\ At(p, "quiesceBoundary")
    /\ \/ voice' = [voice EXCEPT !.started = FALSE] /\ UNCHANGED faults
       \/ Fault /\ UNCHANGED voice
    /\ voiceLock' = None
    /\ Move(p, "interrupt")
    /\ UNCHANGED <<state, stateLock, epochs, resetPending, worker, media, issued, starts,
                   connects, settled>>

\* interrupt_playback: PlaybackInterrupted.
InterruptPlayback(p) ==
    /\ At(p, "interrupt") /\ StateFree
    /\ state' = [state EXCEPT !.video = None, !.reconnecting = FALSE, !.s = Resting(state.ctx)]
    /\ task' = [task EXCEPT ![p] = FreeTask]
    /\ UNCHANGED <<voice, locks, epochs, resetPending, worker, media, bounds, settled>>

\* recover_rollover_without_playback: RecoverableWarning.
Recover(p) ==
    /\ At(p, "recover") /\ StateFree
    /\ state' = [state EXCEPT !.reconnecting = FALSE, !.s = Resting(state.ctx)]
    /\ task' = [task EXCEPT ![p] = FreeTask]
    /\ UNCHANGED <<voice, locks, epochs, resetPending, worker, media, bounds, settled>>

\* rollover_matching_voice_context: the session stays, its context is the same.
MatchBegin(p) ==
    /\ At(p, "matchBegin") /\ Sendable
    /\ playbackEpoch' = playbackEpoch + 1
    /\ driver' = Sent("Stop")
    /\ task' = [task EXCEPT ![p].pc = "matchState", ![p].epoch = playbackEpoch + 1]
    /\ UNCHANGED <<state, voice, locks, rolloverEpoch, generation, resetPending, worker,
                   commands, returned, underruns, bounds, settled>>

MatchState(p) ==
    /\ At(p, "matchState") /\ StateFree
    /\ state' = [state EXCEPT !.reconnecting = TRUE]
    /\ Move(p, "matchVoice")
    /\ UNCHANGED <<voice, locks, epochs, resetPending, worker, media, bounds, settled>>

MatchVoice(p) ==
    /\ At(p, "matchVoice") /\ VoiceFree
    /\ IF voice = None THEN Err(p) /\ UNCHANGED voice
       ELSE /\ voice' = [voice EXCEPT !.ctx = task[p].arg]
            /\ Move(p, "rollReady")
    /\ UNCHANGED <<state, locks, epochs, resetPending, worker, media, bounds, settled>>

\* refresh_paused_voice_context: with a pipeline that owns the session only
\* the snapshot changes, without one the session is closed and replaced by a
\* disconnected one.
RefreshOwner(p) ==
    /\ At(p, "refreshOwner")
    /\ Move(p, IF commands # None THEN "refreshState" ELSE "refreshVoice")
    /\ UNCHANGED <<state, voice, locks, epochs, resetPending, worker, media, bounds, settled>>

RefreshVoice(p) ==
    /\ At(p, "refreshVoice") /\ VoiceFree
    /\ voiceLock' = p
    /\ Move(p, "refreshSuspend")
    /\ UNCHANGED <<state, stateLock, voice, epochs, resetPending, worker, media, bounds, settled>>

RefreshSuspend(p) ==
    /\ At(p, "refreshSuspend")
    /\ voiceLock' = None
    /\ \/ /\ voice' = [id |-> connects + 1, ctx |-> task[p].arg, connected |-> FALSE,
                       started |-> FALSE]
          /\ connects' = connects + 1
          /\ Move(p, "refreshState")
          /\ UNCHANGED faults
       \/ /\ voice # None /\ voice.connected
          /\ \E open \in BOOLEAN : voice' = [voice EXCEPT !.connected = open]
          /\ Fault /\ Err(p)
          /\ UNCHANGED connects
    /\ UNCHANGED <<state, stateLock, epochs, resetPending, worker, media, issued, starts, settled>>

RefreshState(p) ==
    /\ At(p, "refreshState") /\ StateFree
    /\ state' = IF state.s = "Paused"
                THEN [state EXCEPT !.ctx = task[p].arg, !.reconnecting = FALSE] ELSE state
    /\ Ok(p)
    /\ UNCHANGED <<voice, locks, epochs, resetPending, worker, media, bounds, settled>>

(***************************************************************************)
(* The specification.                                                      *)
(***************************************************************************)
Init ==
    /\ state = DefaultSnapshot /\ voice = None
    /\ stateLock = None /\ voiceLock = None
    /\ commands = None /\ returned = 0
    /\ playbackEpoch = 0 /\ rolloverEpoch = 0 /\ generation = 0
    /\ resetPending = FALSE
    /\ worker = [video |-> None, src |-> 0, heard |-> FALSE]
    /\ task = [p \in Slots |-> FreeTask]
    /\ driver = [p \in Slots |-> NoDriver]
    /\ issued = 0 /\ starts = 0 /\ connects = 0 /\ faults = 0 /\ underruns = 0
    /\ settled = "no"

JoinNext(p) == JoinCheck(p) \/ JoinConnect(p) \/ JoinState(p) \/ JoinVoice(p)

PlayNext(p) ==
    \/ PlayResolve(p) \/ PlayWait(p) \/ PlayPrepare(p) \/ PlayBuffer(p)
    \/ PlayFill(p) \/ PlayTake(p) \/ PlaySpeak(p) \/ PlayPutBack(p) \/ PlayLaunch(p)
    \/ PlayInstall(p) \/ PlayStart(p) \/ PumpHears(p) \/ PumpMetric(p) \/ PumpStop(p) \/ PumpDone(p)
    \/ PlayRestore(p) \/ PlayBoundary(p) \/ PlayReturn(p) \/ PlayEnded(p)

DriverNext(p) == DriverDrain(p) \/ DriverStarves(p) \/ DriverEnds(p)

PauseNext(p) ==
    \/ PauseCheck(p) \/ PauseSend(p) \/ PauseState(p)
    \/ ResumeCheck(p) \/ ResumeState(p) \/ ResumeSend(p)

StopNext(p) ==
    \/ StopCheck(p) \/ StopOwner(p) \/ StopSend(p) \/ StopWait(p) \/ StopInvalidate(p)
    \/ StopVoice(p) \/ StopBoundary(p) \/ StopState(p)

LeaveNext(p) ==
    \/ LeaveOwner(p) \/ LeaveSend(p) \/ LeaveWait(p) \/ LeaveClear(p)
    \/ LeaveState(p) \/ LeaveVoice(p)

RollNext(p) ==
    \/ UpdateCheck(p) \/ RollBegin(p) \/ RollOwner(p) \/ RollStop(p) \/ RollWait(p)
    \/ RollMatch(p) \/ RollInvalidate(p) \/ RollClear(p) \/ RollState(p) \/ RollConnect(p)
    \/ RollSwap(p) \/ RollReady(p) \/ RollIntent(p) \/ RollResume(p) \/ RollFailed(p)
    \/ Recover(p) \/ MatchBegin(p) \/ MatchState(p) \/ MatchVoice(p)

RefreshNext(p) == RefreshOwner(p) \/ RefreshVoice(p) \/ RefreshSuspend(p) \/ RefreshState(p)

ResumedNext(p) ==
    \/ Resumed(p) \/ ResumeFailed(p) \/ Quiesce(p) \/ QuiesceVoice(p) \/ QuiesceBoundary(p)
    \/ InterruptPlayback(p)

TaskNext(p) ==
    \/ JoinNext(p) \/ PlayNext(p) \/ PauseNext(p) \/ StopNext(p) \/ LeaveNext(p)
    \/ RollNext(p) \/ RefreshNext(p) \/ ResumedNext(p)

Next ==
    \E p \in Slots :
        \/ \E ctx \in Contexts : Begin(p, "Join", ctx) \/ Begin(p, "Update", ctx)
        \/ \E video \in Videos : PlayBegin(p, video)
        \/ \E cmd \in {"Pause", "Resume", "Stop"} : Begin(p, cmd, None)
        \/ LeaveBegin(p)
        \/ TaskNext(p)
        \/ DriverNext(p)

Spec == Init /\ [][Next]_vars

\* The runtime polls every task that can go on, every driver has a thread of
\* its own, a track has an end, and a wait has a timeout.
FairSpec ==
    /\ Spec
    /\ \A p \in Slots : WF_vars(TaskNext(p)) /\ WF_vars(DriverDrain(p)) /\ WF_vars(DriverEnds(p))

(***************************************************************************)
(* Properties.                                                             *)
(***************************************************************************)
\* Every variable has its type, and no handler holds an epoch, a generation or
\* a return count the runtime has not reached: begin_playback, begin_rollover
\* and the loads of the handlers only ever read what was stored.
TypeOK ==
    /\ state \in [s: SessionStates, ctx: Contexts \cup {None}, video: Videos \cup {None},
                  reconnecting: BOOLEAN]
    /\ voice \in Session \cup {None}
    /\ stateLock \in Slots \cup {None} /\ voiceLock \in Slots \cup {None}
    /\ commands \in Slots \cup {None}
    /\ returned \in Nat /\ playbackEpoch \in Nat /\ rolloverEpoch \in Nat /\ generation \in Nat
    /\ resetPending \in BOOLEAN
    /\ worker \in [video: Videos \cup {None}, src: Nat, heard: BOOLEAN]
    /\ DOMAIN task = Slots /\ DOMAIN driver = Slots
    /\ \A p \in Slots : /\ task[p].epoch <= playbackEpoch /\ task[p].roll <= rolloverEpoch
                        /\ task[p].gen <= generation /\ task[p].count <= returned
                        /\ task[p].sess \in Session \cup {None}
    /\ issued \in 0..MaxCommands /\ starts \in 0..issued
    /\ connects \in Nat /\ faults \in 0..MaxFaults /\ underruns \in 0..MaxUnderruns
    /\ settled \in {"no", "ended", "stopped", "left"}

\* Nothing runs: no RPC is in flight and no resumed playback goes on.
AtRest == \A p \in Slots : At(p, "free")

\* A state of a track names the track: whatever handlers overlap, the snapshot
\* never shows ResolvingTrack, Buffering, Playing or Paused without a video,
\* although the writers of the two fields are different handlers.
TrackHasVideo == state.s \in TrackStates => state.video # None

\* A track needs a channel to be played in: no late state of a playback
\* (emit_playback_state, the end of send_playback_frames) and no rollover puts
\* a video into a snapshot that a LeaveVoice has emptied.
TrackHasContext == state.video # None => state.ctx # None

\* Once a Stop has returned, and until a command that may start something is
\* issued, nothing brings the track back: not the Play it cut short, not its
\* driver, not the resume of a rollover that was in flight.
StoppedStays == settled = "stopped" => state.video = None /\ state.s \notin TrackStates

\* Once a LeaveVoice has returned, and until a command that may start something
\* is issued, the snapshot stays the default one.
LeftStays == settled = "left" => state = DefaultSnapshot

\* What a client that waits for its answers may rely on in every state: types,
\* a track only in a channel, and what Stop and LeaveVoice ended stays ended.
SerialInv == TypeOK /\ TrackHasContext /\ StoppedStays /\ LeftStays

\* A Play issued after its track was stopped, left or played to its end starts
\* it from the beginning: the deferred reset (defer_playback_reset) reaches the
\* worker before that Play fills its buffer, although the position is shared
\* with the driver of the earlier playback.
FreshStart ==
    \A p \in Slots : At(p, "playBuffer") /\ task[p].cmd = "Play" /\ task[p].fresh /\ ~Interrupted(p)
        => ~worker.heard

\* When every handler has ended no media channel is installed: a later Stop,
\* Leave or rollover does not wait for an owner that is not there.
ChannelReleased == AtRest => commands = None

\* When every handler has ended and the snapshot says VoiceReady there is a
\* session to play on: the pipeline gave back the one it took.
SessionKept == AtRest /\ state.s = "VoiceReady" => voice # None

\* Every command but Play returns: its locks become free, the driver takes its
\* media command, the pipeline it waits for gives the session back.
CommandsReturn == \A p \in Slots : Short(p) ~> ~Short(p)

-----------------------------------------------------------------------------
(* Statements of tests and documentation that the code does not meet: TLC    *)
(* finds a behaviour against each of them (README, "Statements not met").     *)

\* Once a LeaveVoice has returned and every handler has ended, no voice session
\* is left behind in the runtime.
LeftDetached == settled = "left" /\ AtRest => voice = None

\* voice_reconnecting does not outlive the rollover that set it.
ReconnectingEnds == AtRest => ~state.reconnecting

\* While a track plays and no command is in flight, the driver is paused
\* exactly when the snapshot says Paused.
PausedAgrees ==
    \A p \in Slots :
        /\ \A q \in Slots \ {p} : At(q, "free")
        /\ At(p, "playPump") /\ Running(p) /\ ~Interrupted(p)
        /\ driver[p].queue = <<>> /\ driver[p].told = <<>>
        => (driver[p].paused <=> state.s = "Paused")

\* A session is only ever replaced by one that was connected later: the
\* pipeline of a playback that a rollover has ended does not put the old
\* transport back over the new one.
NoRollback == [][voice # None /\ voice' # None => voice'.id >= voice.id]_voice
=============================================================================
