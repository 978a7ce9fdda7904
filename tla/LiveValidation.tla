--------------------------- MODULE LiveValidation ---------------------------
(***************************************************************************)
(* The live-staging controller (`live-validation/src/controller.rs`,       *)
(* `contract.rs` and the arrival bookkeeping of `audio.rs`) against a      *)
(* service that may misbehave.  One flow joins the service, plays a track, *)
(* pauses and resumes it, interrupts three more playbacks and cleans up.   *)
(* While the track plays, the contract task (events and control RPCs) and  *)
(* the observer task (what another participant hears) run side by side and *)
(* talk through one-shot channels.  The service's events are a FIFO        *)
(* stream, its RTP a FIFO channel and its Speaking payloads another.       *)
(***************************************************************************)
EXTENDS Naturals, Sequences

CONSTANTS
    SilenceFrames,  \* PAUSE_STOP_SILENCE_FRAME_COUNT, the service's stop silence
    PacketTarget,   \* RESUME_OBSERVER_PACKET_TARGET
    RtpCap,         \* bound: RTP packets in transit
    MaxFaults       \* bound: misbehaviours of the service and of the network

ASSUME LiveConstants ==
    /\ SilenceFrames \in Nat \ {0} /\ PacketTarget \in Nat \ {0}
    /\ RtpCap \in Nat \ {0} /\ MaxFaults \in Nat

VARIABLES
    flow,    \* where `run` stands
    ctl,     \* where the contract task stands, and what the rollover probe has seen
    obs,     \* the observer task
    req,     \* the proof command in hand: its armed, begin and respond_to channels
    acc,     \* AudioValidationAccumulator
    marks,   \* LiveContractState: the flags that are set
    joined,  \* service_joined
    verdict, \* flow.result
    clean,   \* what cleanup_after_flow reports so far
    svc,     \* the service under test
    play,    \* the Play RPC in flight
    events, rtp, said,
    present, \* who is in the guild's voice channel
    did,     \* history: what the service really did
    faults

task == <<ctl, obs, req, acc>>
wire == <<events, rtp, said>>
vars == <<flow, ctl, obs, req, acc, marks, joined, verdict, clean, svc, play,
          events, rtp, said, present, did, faults>>

Steady == {"VoiceConnecting", "VoiceReady", "TrackResolving", "Buffering", "Stopped"}
Kinds == Steady \cup {"Playing", "Paused", "TrackEnded", "FatalError",
                      "PlaybackInterrupted", "VoiceReconnecting"}
Seen == {"VoiceConnecting", "VoiceReady", "TrackResolving", "Buffering", "Playing",
         "Paused", "Resumed", "TrackEnded"}
Validated == {"SubscribeEvents", "JoinVoice", "UpdateVoiceContext", "GetState", "Play",
              "IgnoredResume", "Pause", "IgnoredPause", "Resume",
              "GetPlaybackMetrics", "ReconnectRollover", "Stop", "LeaveVoice"}

Resting == [pc |-> "loop", run |-> 0, quiet |-> FALSE, stopped |-> FALSE,
            late |-> FALSE, heard |-> 0, fresh |-> 0, spoke |-> FALSE,
            explicit |-> FALSE, broken |-> FALSE]
NoRequest == [cmd |-> "none", armed |-> FALSE, begun |-> FALSE, answer |-> "none"]
NewAccumulator == [count |-> 0, segment |-> "pre_pause", timed |-> FALSE,
                   gap |-> "none", buffered |-> FALSE]

Init ==
    /\ flow = "gateway" /\ ctl = "events" /\ obs = [Resting EXCEPT !.pc = "dave"]
    /\ req = NoRequest /\ acc = NewAccumulator
    /\ marks = {} /\ joined = FALSE /\ verdict = "none" /\ clean = TRUE
    /\ svc = [state |-> "idle", era |-> "before", tail |-> 0] /\ play = "none"
    /\ events = <<>> /\ rtp = <<>> /\ said = <<>>
    /\ present = {} /\ did = {} /\ faults = 0
------------------------------------------------------------------------------
(* The service under test, as its RPCs, its events and its media are seen  *)
(* from outside; SessionControl and MediaPlayout are its own models.       *)

Event(kind, video) == [kind |-> kind, video |-> video]
Emit(kinds) == events' = events \o [i \in DOMAIN kinds |-> Event(kinds[i], "expected")]
Active == svc.state \in {"resolving", "buffering", "playing", "paused"}
Fault == faults < MaxFaults /\ faults' = faults + 1

\* What each command makes the service do.
Joins ==
    /\ svc' = [svc EXCEPT !.state = "voice_ready"]
    /\ events' = events \o <<Event("VoiceConnecting", "none"), Event("VoiceReady", "none")>>
    /\ did' = did \cup {"joined"}
    /\ UNCHANGED <<play, said>>

Refreshes ==
    /\ Emit(IF Active THEN <<"VoiceReconnecting", "VoiceReady", "Playing">>
                      ELSE <<"VoiceReconnecting", "VoiceReady">>)
    /\ play' = IF Active THEN "ok" ELSE play
    /\ did' = IF Active THEN did \cup {"rolled"} ELSE did
    /\ UNCHANGED <<svc, said>>

Starts ==
    /\ svc' = [svc EXCEPT !.state = "resolving"]
    /\ play' = "running"
    /\ Emit(<<"TrackResolving">>)
    /\ UNCHANGED <<said, did>>

Pauses ==
    \/ /\ svc.state = "playing"
       /\ svc' = [svc EXCEPT !.state = "paused", !.tail = SilenceFrames]
       /\ Emit(<<"Paused">>)
       /\ said' = Append(said, 0)
       /\ did' = did \cup {"paused"}
       /\ UNCHANGED play
    \/ /\ svc.state = "paused"
       /\ UNCHANGED <<svc, events, said, did, play>>

Resumes ==
    \/ /\ svc.state = "paused"
       /\ svc' = [svc EXCEPT !.state = "playing", !.era = "after"]
       /\ Emit(<<"Playing">>)
       /\ said' = Append(said, 1)
       /\ did' = did \cup {"resumed"}
       /\ UNCHANGED play
    \/ /\ svc.state = "playing"
       /\ svc' = IF "paused" \in did THEN [svc EXCEPT !.era = "after"] ELSE svc
       /\ UNCHANGED <<events, said, did, play>>

Stops ==
    /\ svc' = [svc EXCEPT !.state = "voice_ready"]
    /\ play' = IF play = "running" THEN "ok" ELSE play
    /\ Emit(<<"Stopped">>)
    /\ did' = did \cup {"stopped"}
    /\ UNCHANGED said

Leaves ==
    /\ svc' = [svc EXCEPT !.state = "idle"]
    /\ play' = IF play = "running" THEN "ok" ELSE play
    /\ did' = did \cup {"left"}
    /\ UNCHANGED <<events, said>>

\* An RPC takes effect, or the service answers Ok and does nothing.
Deaf == Fault /\ UNCHANGED <<svc, play, events, said, did>>

Resolved ==
    /\ svc.state \in {"resolving", "buffering"}
    /\ svc' = [svc EXCEPT !.state = IF @ = "resolving" THEN "buffering" ELSE "playing"]
    /\ Emit(IF svc.state = "resolving" THEN <<"Buffering">> ELSE <<"Playing">>)
    /\ said' = IF svc.state = "buffering" /\ flow = "playback" THEN Append(said, 1) ELSE said
    /\ UNCHANGED <<flow, task, marks, joined, verdict, clean, play, rtp, present, did, faults>>

Ends ==
    /\ svc.state = "playing"
    /\ svc' = [svc EXCEPT !.state = "voice_ready"]
    /\ play' = IF play = "running" THEN "ok" ELSE play
    /\ Emit(<<"TrackEnded">>)
    /\ did' = did \cup {"ended"}
    /\ UNCHANGED <<flow, task, marks, joined, verdict, clean, rtp, said, present, faults>>

\* A frame of the track every 20 ms, then the stop silence of a pause; a frame
\* the service sends while it ought to be paused belongs to the era "paused".
Transmit(kind) ==
    /\ flow = "playback" /\ Len(rtp) < RtpCap
    /\ rtp' = Append(rtp, [kind |-> kind, era |-> svc.era])
    /\ did' = IF svc.era = "paused" THEN did \cup {"leaked"} ELSE did
    /\ UNCHANGED <<flow, task, marks, joined, verdict, clean, play, events, said, present>>

SendTrack == svc.state = "playing" /\ Transmit("track") /\ UNCHANGED <<svc, faults>>
SendTail ==
    /\ svc.state = "paused" /\ svc.tail > 0
    /\ Transmit("silence")
    /\ svc' = [svc EXCEPT !.tail = @ - 1]
    /\ UNCHANGED faults
SendUnderrun == svc.state = "playing" /\ Transmit("silence") /\ UNCHANGED <<svc, faults>>

\* Misbehaviour: playing on by itself, an event of no meaning, a packet lost or
\* not decodable.
SelfResume ==
    /\ flow = "playback" /\ svc.state = "paused"
    /\ Fault
    /\ svc' = [svc EXCEPT !.state = "playing", !.era = "paused"]
    /\ Emit(<<"Playing">>)
    /\ said' = Append(said, 1)
    /\ did' = did \cup {"self"}
    /\ UNCHANGED <<flow, task, marks, joined, verdict, clean, play, rtp, present>>

Lies(kind, video) ==
    /\ flow \notin {"cleanup", "done"}
    /\ Fault
    /\ events' = Append(events, Event(kind, video))
    /\ UNCHANGED <<flow, task, marks, joined, verdict, clean, svc, play, rtp, said,
                   present, did>>

Lose ==
    /\ flow = "playback" /\ rtp # <<>>
    /\ Fault
    /\ rtp' = Tail(rtp)
    /\ obs' = [obs EXCEPT !.broken = @ \/ acc.count > 0]
    /\ did' = did \cup {"lost"}
    /\ UNCHANGED <<flow, ctl, req, acc, marks, joined, verdict, clean, svc, play,
                   events, said, present>>
------------------------------------------------------------------------------
(* The contract on the event stream. *)

\* LiveContractState::observe_event refuses the event: out of the steady state,
\* out of order, of another video, or an error.
Mismatch(e) ==
    \/ e.video = "other"
    \/ e.video = "none" /\ e.kind \notin {"VoiceConnecting", "VoiceReady"}
Needs(kind) ==
    CASE kind = "Buffering" -> {"TrackResolving"}
      [] kind = "Playing" -> {"TrackResolving", "Buffering"}
      [] kind = "Paused" -> {"Playing"}
      [] kind = "TrackEnded" -> Seen \ {"VoiceConnecting", "TrackEnded"}
      [] OTHER -> {}
Bails(e) ==
    LET playing == "Playing" \in marks /\ "TrackEnded" \notin marks
    IN  \/ e.kind \in {"FatalError", "PlaybackInterrupted"}
        \/ e.kind \in Steady \cup {"VoiceReconnecting"} /\ playing
        \/ e.kind \in (Kinds \ {"VoiceReconnecting", "Stopped"}) /\ Mismatch(e)
        \/ ~ Needs(e.kind) \subseteq marks
        \/ e.kind = "Paused" /\ "TrackEnded" \in marks

Observed(e) ==
    marks \cup (IF e.kind = "Playing" /\ {"Playing", "Paused"} \subseteq marks
                THEN {"Resumed"} ELSE {e.kind} \cap Seen)

\* The flow gives up: its futures are dropped and the cleanup begins.
Abort(j) ==
    /\ flow' = "cleanup" /\ verdict' = "err" /\ joined' = j
    /\ ctl' = "events" /\ obs' = [Resting EXCEPT !.pc = "dave"] /\ req' = NoRequest
    /\ acc' = NewAccumulator /\ rtp' = <<>> /\ said' = <<>> /\ play' = "none"

Quit(j) == Abort(j) /\ UNCHANGED <<marks, clean, svc, events, present, did, faults>>
Goto(next) ==
    /\ flow' = next
    /\ UNCHANGED <<task, joined, verdict, clean, rtp, present>>
------------------------------------------------------------------------------
(* run and run_service_flow up to Play. *)

\* join_gateway_voice: the command may have put the bot in the channel although
\* its authentic voice context never came.
JoinGateway ==
    /\ flow = "gateway"
    /\ present' = present \cup {"service"}
    /\ flow' = "connect"
    /\ UNCHANGED <<task, marks, joined, verdict, clean, svc, play, wire, did, faults>>

GatewayFails ==
    /\ flow \in {"gateway", "observer"}
    /\ present' \in {present, present \cup {IF flow = "gateway" THEN "service" ELSE "observer"}}
    /\ Abort(flow = "observer")
    /\ UNCHANGED <<marks, clean, svc, events, did, faults>>

\* The four clients and the subscription.
ConnectClients ==
    /\ flow = "connect"
    /\ Goto("join")
    /\ marks' = marks \cup {"SubscribeEvents"}
    /\ UNCHANGED <<svc, play, events, said, did, faults>>

JoinVoice ==
    /\ flow = "join"
    /\ Goto("ready")
    /\ marks' = marks \cup {"JoinVoice"}
    /\ \/ Joins /\ UNCHANGED faults
       \/ Deaf

\* The call fails, with the service joined or not.
JoinFails ==
    /\ flow = "join"
    /\ Abort(FALSE)
    /\ \/ UNCHANGED <<svc, events, did, faults>>
       \/ /\ Fault
          /\ svc' = [svc EXCEPT !.state = "voice_ready"]
          /\ did' = did \cup {"joined", "unanswered"}
          /\ UNCHANGED events
    /\ UNCHANGED <<marks, clean, present>>

\* wait_for_initial_voice_ready, after JoinVoice and after UpdateVoiceContext.
AwaitReady ==
    /\ flow \in {"ready", "refreshed"} /\ events # <<>>
    /\ events' = Tail(events)
    /\ IF Bails(Head(events))
       THEN Abort(TRUE) /\ UNCHANGED marks
       ELSE /\ marks' = Observed(Head(events))
            /\ Goto(IF Head(events).kind # "VoiceReady" THEN flow
                    ELSE IF flow = "ready" THEN "update" ELSE "state")
            /\ UNCHANGED <<play, said>>
    /\ UNCHANGED <<clean, svc, present, did, faults>>

UpdateVoiceContext ==
    /\ flow = "update"
    /\ Goto("refreshed")
    /\ marks' = marks \cup {"UpdateVoiceContext"}
    /\ \/ Refreshes /\ UNCHANGED faults
       \/ Deaf

\* validate_ready_state_rpc, then post_play_live_contract_state: what the track
\* is to show again is forgotten.
ReadyState ==
    /\ flow = "state" /\ svc.state = "voice_ready"
    /\ Goto("observer")
    /\ marks' = (marks \ (Seen \ {"VoiceConnecting", "VoiceReady"})) \cup {"GetState"}
    /\ UNCHANGED <<svc, play, events, said, did, faults>>

\* The observer joins and connects; Play is called and the tasks start.
StartPlayback ==
    /\ flow = "observer"
    /\ flow' = "playback" /\ present' = present \cup {"observer"}
    /\ Starts
    /\ UNCHANGED <<task, marks, joined, verdict, clean, rtp, faults>>

\* A call or a wait of the flow fails or runs into its timeout.
StepFails ==
    \/ flow = "connect" /\ Quit(FALSE)
    \/ flow \in {"ready", "update", "refreshed", "state", "observer"} /\ Quit(TRUE)
------------------------------------------------------------------------------
(* The contract task: wait_for_play_completed_contract_with_controls.      *)

Playback == flow = "playback" /\ obs.pc # "dave"
Rest == <<flow, obs, acc, joined, verdict, clean, rtp, present>>
Step(next) == ctl' = next /\ UNCHANGED Rest
Quiet == UNCHANGED <<svc, play, events, said, did, faults>>

\* The first Playing starts the control sequence, whose steps read no events.
ReadEvent ==
    /\ Playback /\ ctl = "events" /\ events # <<>>
    /\ LET e == Head(events)
           controls == e.kind = "Playing" /\ ~ {"Pause", "Resume"} \subseteq marks
       IN  IF Bails(e)
           THEN Abort(TRUE) /\ UNCHANGED marks
           ELSE /\ marks' = Observed(e)
                /\ Step(CASE controls -> "audio_started"
                          [] e.kind = "TrackEnded" -> "ended"
                          [] OTHER -> "events")
                /\ UNCHANGED <<req, play, said>>
    /\ events' = Tail(events)
    /\ UNCHANGED <<clean, svc, present, did, faults>>

\* wait_for_observer_audio_started, then one proof after the other is asked of
\* the observer: request_observer_speaking_started_proof,
\* start_observer_pause_proof, start_observer_resume_proof.
AskSpeaking == ctl = "audio_started" /\ acc.count > 0 /\ Step("speaking")
AskPause == ctl = "arm_pause" /\ Step("armed_pause")
AskResume == ctl = "hold" /\ Step("armed_resume")
Ask ==
    /\ Playback
    /\ \/ AskSpeaking /\ req' = [NoRequest EXCEPT !.cmd = "speaking"]
       \/ AskPause /\ req' = [NoRequest EXCEPT !.cmd = "pause"]
       \/ AskResume /\ req' = [NoRequest EXCEPT !.cmd = "resume"]
    /\ Quiet /\ UNCHANGED marks

SpeakingProved ==
    /\ Playback /\ ctl = "speaking" /\ req.answer = "ok"
    /\ Step("ignored_resume")
    /\ Quiet /\ UNCHANGED <<req, marks>>

\* A control RPC, answered with an error when no track is loaded.
Control(effect) ==
    /\ \/ effect /\ UNCHANGED faults
       \/ Active /\ Deaf
    /\ UNCHANGED marks

IgnoredResume ==
    /\ Playback /\ ctl = "ignored_resume"
    /\ Step("still_playing") /\ Control(Resumes) /\ UNCHANGED req

\* begin_observer_pause_proof, then Pause twice.
BeginPause ==
    /\ Playback /\ ctl = "armed_pause" /\ req.armed
    /\ Step("pause") /\ req' = [req EXCEPT !.begun = TRUE]
    /\ Quiet /\ UNCHANGED marks

CallPause ==
    /\ Playback /\ ctl \in {"pause", "redundant"}
    /\ Step(IF ctl = "pause" THEN "redundant" ELSE "still_paused")
    /\ Control(Pauses) /\ UNCHANGED req

\* GetState after the ignored Resume and after the redundant Pause.
CheckState ==
    /\ Playback
    /\ \/ /\ ctl = "still_playing" /\ svc.state = "playing"
          /\ Step("arm_pause") /\ marks' = marks \cup {"IgnoredResume"}
       \/ /\ ctl = "still_paused" /\ svc.state = "paused"
          /\ Step("await_pause") /\ UNCHANGED marks
    /\ Quiet /\ UNCHANGED req

\* Only a proof with the explicit RTP boundary counts.
PauseProved ==
    /\ Playback /\ ctl = "await_pause" /\ req.answer = "explicit"
    /\ Step("hold") /\ marks' = marks \cup {"Pause", "IgnoredPause"}
    /\ Quiet /\ UNCHANGED req

CallResume ==
    /\ Playback /\ ctl = "armed_resume" /\ req.armed
    /\ Step("await_resume") /\ Control(Resumes) /\ UNCHANGED req

ResumeProved ==
    /\ Playback /\ ctl = "await_resume" /\ req.answer = "ok"
    /\ Step("events") /\ marks' = marks \cup {"Resume"}
    /\ Quiet /\ UNCHANGED req

\* drive_live_gateway_shards, beside the two tasks: Discord moves the voice
\* server and the new context is forwarded.
ForwardVoiceContext ==
    /\ flow = "playback"
    /\ Fault /\ Refreshes
    /\ UNCHANGED <<flow, task, marks, joined, verdict, clean, rtp, present>>

\* An error of an RPC, a refused proof, GetState showing another state, a wait
\* that runs into its timeout, the gateway driver's or the observer's failure:
\* try_join and select drop everything.
PlaybackFails == flow = "playback" /\ Quit(TRUE)

\* Mutant: an observer that fails after the track's end is not noticed.
TimesOutContract == ctl # "ended" /\ PlaybackFails

\* Only the tasks are under LIVE_CONTRACT_TIMEOUT, the Play RPC is not.
TimesOut == ~ (ctl = "ended" /\ obs.pc = "ok") /\ PlaybackFails
------------------------------------------------------------------------------
(* The observer task: observe_audio_until_track_ended.                     *)

Contract == <<flow, ctl, marks, joined, verdict, clean, svc, play, events, present, did, faults>>

DaveReady ==
    /\ flow = "playback" /\ obs.pc = "dave"
    /\ obs' = Resting
    /\ UNCHANGED <<Contract, req, acc, rtp, said>>

\* record_inter_arrival: a gap counts unless a controlled pause explains it, a
\* stall always; observe_packet_at after validate_rtp_continuity.
Counts(gap) == gap = "stall" \/ (gap = "gap" /\ acc.segment # "controlled_pause")
Record ==
    acc' = [acc EXCEPT !.count = IF @ < PacketTarget THEN @ + 1 ELSE @,
                       !.timed = TRUE, !.gap = "none",
                       !.buffered = @ \/ (acc.timed /\ Counts(acc.gap))]

\* receive_audio_frame_from in the main loop, in the armed poll and in the drain.
ReceiveFrame ==
    /\ Playback /\ obs.pc \in {"loop", "polling", "draining"}
    /\ rtp # <<>> /\ ~ obs.broken
    /\ rtp' = Tail(rtp)
    /\ Record
    /\ obs' = [obs EXCEPT !.pc = IF @ = "polling" THEN "armed" ELSE @]
    /\ UNCHANGED <<Contract, req, said>>

\* prove_observer_speaking_started reads the gateway only.
TakeSpeaking ==
    /\ Playback /\ obs.pc = "loop" /\ req.cmd = "speaking"
    /\ obs' = [obs EXCEPT !.pc = "speaking"]
    /\ req' = [req EXCEPT !.cmd = "none"]
    /\ UNCHANGED <<Contract, acc, rtp, said>>

ProveSpeaking ==
    /\ Playback /\ obs.pc = "speaking" /\ said # <<>>
    /\ said' = Tail(said)
    /\ IF Head(said) = 1
       THEN obs' = [obs EXCEPT !.pc = "loop"] /\ req' = [req EXCEPT !.answer = "ok"]
       ELSE UNCHANGED <<obs, req>>
    /\ UNCHANGED <<Contract, acc, rtp>>

\* wait_for_observer_pause_proof_begin: begin is looked at between two receives.
TakePause ==
    /\ Playback /\ obs.pc = "loop" /\ req.cmd = "pause"
    /\ obs' = [obs EXCEPT !.pc = "polling"]
    /\ req' = [req EXCEPT !.cmd = "none", !.armed = TRUE]
    /\ UNCHANGED <<Contract, acc, rtp, said>>

PollEnds ==
    /\ Playback /\ obs.pc = "polling"
    /\ obs' = [obs EXCEPT !.pc = "armed"]
    /\ \/ UNCHANGED said
       \/ said # <<>> /\ said' = Tail(said)
    /\ UNCHANGED <<Contract, req, acc, rtp>>

Proving(pc) ==
    [obs EXCEPT !.pc = pc, !.run = 0, !.quiet = FALSE, !.stopped = FALSE,
                !.late = FALSE, !.heard = 0, !.fresh = 0, !.spoke = FALSE]

PollBegin ==
    /\ Playback /\ obs.pc = "armed"
    /\ IF req.begun
       THEN /\ obs' = Proving("pausing")
            /\ acc' = [acc EXCEPT !.segment = "controlled_pause"]
       ELSE obs' = [obs EXCEPT !.pc = "polling"] /\ UNCHANGED acc
    /\ UNCHANGED <<Contract, req, rtp, said>>

Answer(a, o) ==
    /\ obs' = [o EXCEPT !.pc = "loop", !.explicit = (a = "explicit")]
    /\ req' = [req EXCEPT !.answer = a]

\* Mutant: a frame after the stop silence is tolerated.
PauseFrameTolerant ==
    /\ Playback /\ obs.pc = "pausing" /\ rtp # <<>> /\ ~ obs.broken
    /\ rtp' = Tail(rtp)
    /\ Record
    /\ LET run == IF Head(rtp).kind = "silence" THEN obs.run + 1 ELSE 0
       IN  obs' = [obs EXCEPT !.run = IF run > SilenceFrames THEN SilenceFrames ELSE run,
                              !.quiet = @ \/ run >= SilenceFrames, !.late = @ \/ obs.quiet]
    /\ UNCHANGED <<Contract, req, said>>

\* prove_observer_pause_silence: a frame; late is history, a packet came after
\* the stop silence.
PauseFrame ==
    /\ Playback /\ obs.pc = "pausing" /\ rtp # <<>> /\ ~ obs.broken
    /\ rtp' = Tail(rtp)
    /\ Record
    /\ LET run == IF Head(rtp).kind = "silence" THEN obs.run + 1 ELSE 0
       IN  IF obs.quiet
           THEN Answer("err", [obs EXCEPT !.late = TRUE])
           ELSE /\ obs' = [obs EXCEPT !.run = run, !.quiet = run >= SilenceFrames]
                /\ UNCHANGED req
    /\ UNCHANGED <<Contract, said>>

\* A Speaking payload.
PauseSpeaking ==
    /\ Playback /\ obs.pc = "pausing" /\ said # <<>>
    /\ said' = Tail(said)
    /\ IF Head(said) = 0
       THEN obs' = [obs EXCEPT !.stopped = TRUE] /\ UNCHANGED req
       ELSE IF obs.stopped
            THEN Answer("err", obs)
            ELSE obs' = [obs EXCEPT !.run = 0] /\ UNCHANGED req
    /\ UNCHANGED <<Contract, acc, rtp>>

\* A packet that cannot be decoded is activity all the same.
PauseRtpPacket ==
    /\ Playback /\ obs.pc = "pausing" /\ rtp # <<>>
    /\ Fault
    /\ rtp' = Tail(rtp)
    /\ LET o == [obs EXCEPT !.run = 0, !.broken = TRUE, !.late = obs.quiet]
       IN  IF obs.quiet THEN Answer("err", o) ELSE obs' = o /\ UNCHANGED req
    /\ UNCHANGED <<flow, ctl, marks, joined, verdict, clean, svc, play, events, present,
                   did, acc, said>>

\* 600 ms without activity, longer than a packet is on its way: the proof, with
\* or without the explicit boundary; the wall clock starts anew.
PauseTimesOut ==
    /\ Playback /\ obs.pc = "pausing" /\ rtp = <<>> /\ svc.tail = 0
    /\ obs.quiet \/ obs.stopped \/ acc.count > 0
    /\ Answer(IF obs.quiet THEN "explicit" ELSE "inferred", obs)
    /\ acc' = [acc EXCEPT !.timed = FALSE, !.gap = "none", !.segment = "post_resume"]
    /\ \/ svc.state # "playing" /\ UNCHANGED <<did, faults>>
       \/ svc.state = "playing" /\ Fault /\ did' = did \cup {"stalled"}
    /\ UNCHANGED <<flow, ctl, marks, joined, verdict, clean, svc, play, events, present,
                   rtp, said>>

\* prove_observer_resume_audio; fresh is history, the frames among those heard
\* that the service sent after Resume.
TakeResume ==
    /\ Playback /\ obs.pc = "loop" /\ req.cmd = "resume"
    /\ obs' = [Proving("resuming") EXCEPT !.late = obs.late]
    /\ req' = [req EXCEPT !.cmd = "none", !.armed = TRUE]
    /\ UNCHANGED <<Contract, acc, rtp, said>>

ResumeFrame ==
    /\ Playback /\ obs.pc = "resuming" /\ rtp # <<>> /\ ~ obs.broken
    /\ obs.spoke \/ obs.explicit
    /\ rtp' = Tail(rtp)
    /\ Record
    /\ LET enough == obs.heard + 1 >= PacketTarget
       IN  /\ obs' = [obs EXCEPT !.heard = @ + 1,
                                 !.fresh = IF Head(rtp).era = "after" THEN @ + 1 ELSE @,
                                 !.pc = IF enough THEN "loop" ELSE @]
           /\ req' = IF enough THEN [req EXCEPT !.answer = "ok"] ELSE req
    /\ UNCHANGED <<Contract, said>>

ResumeSpeaking ==
    /\ Playback /\ obs.pc = "resuming" /\ said # <<>>
    /\ said' = Tail(said)
    /\ obs' = [obs EXCEPT !.spoke = @ \/ Head(said) = 1]
    /\ UNCHANGED <<Contract, req, acc, rtp>>

\* Time passes without a frame recorded: none is due, the service or the network
\* owes one, or the observer is busy with the Speaking proof.
Elapse ==
    /\ Playback /\ acc.timed /\ acc.gap # "stall"
    /\ \/ /\ svc.state # "playing" /\ svc.tail = 0 /\ rtp = <<>>
          /\ UNCHANGED <<did, faults>>
       \/ /\ svc.state = "playing" /\ rtp = <<>>
          /\ Fault /\ did' = did \cup {"starved"}
       \/ /\ obs.pc = "speaking" /\ rtp # <<>>
          /\ did' = did \cup {"waited"} /\ UNCHANGED faults
    /\ acc' = [acc EXCEPT !.gap = IF @ = "none" THEN "gap" ELSE "stall"]
    /\ UNCHANGED <<flow, ctl, obs, req, marks, joined, verdict, clean, svc, play, wire, present>>

\* The contract's TrackEnded notification: drain_observer_audio_after_track_ended
\* until nothing comes any more, then observer_thresholds_satisfied.
StartDrain ==
    /\ Playback /\ obs.pc = "loop" /\ ctl = "ended"
    /\ obs' = [obs EXCEPT !.pc = "draining"]
    /\ acc' = [acc EXCEPT !.segment = "natural_end"]
    /\ UNCHANGED <<Contract, req, rtp, said>>

DrainEnds ==
    /\ Playback /\ obs.pc = "draining" /\ rtp = <<>>
    /\ acc.count > 0 /\ ~ acc.buffered
    /\ obs' = [obs EXCEPT !.pc = "ok"]
    /\ UNCHANGED <<Contract, req, acc, rtp, said>>

\* wait_for_play_and_live_contract: both tasks and the Play RPC succeeded.
PlaybackDone ==
    /\ Playback /\ ctl = "ended" /\ obs.pc = "ok" /\ play = "ok"
    /\ flow' = "metrics" /\ marks' = marks \cup {"Play"}
    /\ ctl' = "events" /\ obs' = [Resting EXCEPT !.pc = "dave"] /\ req' = NoRequest
    /\ acc' = NewAccumulator /\ rtp' = <<>> /\ said' = <<>> /\ play' = "none"
    /\ UNCHANGED <<joined, verdict, clean, svc, events, present, did, faults>>
------------------------------------------------------------------------------
(* validate_post_play_control_rpcs: the metrics, then three playbacks that *)
(* are interrupted by UpdateVoiceContext, by Stop and by LeaveVoice.       *)

Probe ==
    CASE "ReconnectRollover" \notin marks -> "ReconnectRollover"
      [] "Stop" \notin marks -> "Stop"
      [] OTHER -> "LeaveVoice"

FetchMetrics ==
    /\ flow = "metrics"
    /\ Goto("spawn")
    /\ marks' = marks \cup {"GetPlaybackMetrics"}
    /\ UNCHANGED <<svc, play, events, said, did, faults>>

SpawnProbe ==
    /\ flow = "spawn"
    /\ Goto("probing")
    /\ Starts
    /\ UNCHANGED <<marks, faults>>

\* validate_interrupt_probe_playing_event, wait_for_interrupt_probe_stopped and
\* wait_for_reconnect_rollover_probe_resumed.
Refuses(e) ==
    \/ e.kind \in {"TrackEnded", "PlaybackInterrupted", "FatalError"}
    \/ e.kind = "Stopped" /\ flow # "stopped"
    \/ e.kind = "VoiceReconnecting" /\ flow = "probing"
    \/ /\ e.video # "expected"
       /\ \/ e.kind \in {"TrackResolving", "Buffering", "Playing"}
          \/ e.kind \in {"VoiceReconnecting", "VoiceReady"} /\ flow = "resumed"

Resumption(e) ==
    CASE e.kind = "VoiceReconnecting" -> IF ctl = "events" THEN "reconnecting" ELSE ctl
      [] e.kind = "VoiceReady" /\ ctl # "events" -> "ready"
      [] OTHER -> ctl

AfterEvent(e) ==
    CASE flow = "probing" /\ e.kind = "Playing" -> "settle"
      [] flow = "stopped" /\ e.kind = "Stopped" ->
             IF Probe = "Stop" THEN "returns" ELSE "settled"
      [] flow = "resumed" /\ e.kind = "Playing" /\ ctl = "ready" -> "measure"
      [] OTHER -> flow

\* While it waits for Playing the Play call must not have returned.
ProbeEvent ==
    /\ flow \in {"probing", "stopped", "resumed"} /\ events # <<>>
    /\ LET e == Head(events)
           next == AfterEvent(e)
       IN  IF Refuses(e) \/ (flow = "probing" /\ play # "running")
           THEN Abort(TRUE)
           ELSE /\ flow' = next
                /\ ctl' = IF flow = "resumed" /\ next = flow THEN Resumption(e) ELSE "events"
                /\ UNCHANGED <<obs, req, acc, joined, verdict, play, said, rtp>>
    /\ events' = Tail(events)
    /\ UNCHANGED <<marks, clean, svc, present, did, faults>>

\* wait_for_active_interrupt_probe_media.
Settle ==
    /\ flow = "settle" /\ play = "running"
    /\ Goto("act")
    /\ UNCHANGED <<marks, svc, play, events, said, did, faults>>

Interrupt ==
    /\ flow = "act"
    /\ Goto(IF Probe = "Stop" THEN "stopped" ELSE "returns")
    /\ \/ Probe = "ReconnectRollover" /\ Refreshes /\ UNCHANGED faults
       \/ Probe = "Stop" /\ Stops /\ UNCHANGED faults
       \/ Probe = "LeaveVoice" /\ Leaves /\ UNCHANGED faults
       \/ Deaf
    /\ UNCHANGED marks

\* await_interrupt_probe_play_task.
PlayReturns ==
    /\ flow = "returns" /\ play = "ok"
    /\ Goto(IF Probe = "ReconnectRollover" THEN "resumed" ELSE "settled")
    /\ UNCHANGED <<marks, svc, play, events, said, did, faults>>

\* fetch_reconnect_probe_metrics, then the Stop that ends the rollover probe.
StopProbe ==
    /\ flow = "measure"
    /\ Goto("stopped")
    /\ \/ Stops /\ UNCHANGED faults
       \/ Deaf
    /\ UNCHANGED marks

Complete == Seen \cup Validated
\* Mutant: the state after the interruption is not looked at.
SettledUnchecked ==
    /\ flow = "settled"
    /\ marks' = marks \cup {Probe}
    /\ IF Probe # "LeaveVoice"
       THEN flow' = "spawn" /\ UNCHANGED <<joined, verdict>>
       ELSE /\ Complete \subseteq marks'
            /\ flow' = "cleanup" /\ verdict' = "ok" /\ joined' = FALSE
    /\ UNCHANGED <<task, clean, svc, play, wire, present, did, faults>>

\* ensure_state_after_active_stop, ensure_state_after_active_leave_voice; after
\* the last probe ensure_complete.
Settled ==
    /\ flow = "settled"
    /\ svc.state = IF Probe = "LeaveVoice" THEN "idle" ELSE "voice_ready"
    /\ marks' = marks \cup {Probe}
    /\ IF Probe # "LeaveVoice"
       THEN flow' = "spawn" /\ UNCHANGED <<joined, verdict>>
       ELSE /\ Complete \subseteq marks'
            /\ flow' = "cleanup" /\ verdict' = "ok" /\ joined' = FALSE
    /\ UNCHANGED <<task, clean, svc, play, wire, present, did, faults>>

\* Mutant: a failed probe is reported as if the service had left.
ProbeFailsLeft ==
    /\ flow \in {"metrics", "spawn", "probing", "settle", "act", "returns", "resumed",
                 "measure", "stopped", "settled"}
    /\ Quit(FALSE)

\* Any other answer, an error or a timeout: the Play task is aborted.
ProbeFails ==
    /\ flow \in {"metrics", "spawn", "probing", "settle", "act", "returns", "resumed",
                 "measure", "stopped", "settled"}
    /\ Quit(TRUE)
------------------------------------------------------------------------------
(* cleanup_after_flow: LeaveVoice when the service is thought to be joined, *)
(* then both bots leave the gateway's channel.                              *)

CleanupService ==
    /\ flow = "cleanup" /\ joined
    /\ joined' = FALSE
    /\ \/ Leaves /\ UNCHANGED clean
       \/ clean' = FALSE /\ UNCHANGED <<svc, play, events, said, did>>
    /\ UNCHANGED <<flow, task, marks, verdict, rtp, present, faults>>

\* A leave is confirmed by the gateway or by the REST voice state, only when the
\* bot has left; it may have left without the confirmation.
Confirmed(gone) == SUBSET gone
CleanupGateway ==
    /\ flow = "cleanup" /\ ~ joined
    /\ flow' = "done"
    /\ \E gone \in SUBSET {"service", "observer"} :
           /\ present' = present \ gone
           /\ \E c \in Confirmed(gone) : clean' = (clean /\ c = {"service", "observer"})
    /\ UNCHANGED <<task, marks, joined, verdict, svc, play, wire, did, faults>>

Done == flow = "done" /\ UNCHANGED vars
------------------------------------------------------------------------------
Service ==
    \/ Resolved \/ Ends \/ SendTrack \/ SendTail \/ SendUnderrun
    \/ SelfResume \/ Lose \/ Elapse
    \/ \E kind \in Kinds, video \in {"expected", "other"} : Lies(kind, video)

ContractTask ==
    \/ ReadEvent \/ Ask \/ SpeakingProved \/ IgnoredResume \/ BeginPause \/ CallPause
    \/ CheckState \/ PauseProved \/ CallResume \/ ResumeProved

ObserverTask ==
    \/ DaveReady \/ ReceiveFrame \/ TakeSpeaking \/ ProveSpeaking
    \/ TakePause \/ PollEnds \/ PollBegin \/ PauseFrame \/ PauseSpeaking
    \/ PauseRtpPacket \/ PauseTimesOut
    \/ TakeResume \/ ResumeFrame \/ ResumeSpeaking \/ StartDrain \/ DrainEnds

Flow ==
    \/ JoinGateway \/ GatewayFails \/ ConnectClients \/ JoinVoice \/ JoinFails
    \/ AwaitReady \/ UpdateVoiceContext \/ ReadyState \/ StartPlayback \/ StepFails
    \/ FetchMetrics \/ SpawnProbe \/ ProbeEvent \/ Settle \/ Interrupt \/ PlayReturns
    \/ StopProbe \/ Settled \/ ProbeFails \/ CleanupService \/ CleanupGateway

Next ==
    \/ Service \/ ContractTask \/ ObserverTask \/ ForwardVoiceContext
    \/ PlaybackFails \/ PlaybackDone \/ Flow \/ Done

Spec == Init /\ [][Next]_vars

\* Every RPC is answered, every wait but the one for Play ends, a track ends.
FairSpec ==
    /\ Spec
    /\ WF_vars(Flow) /\ WF_vars(TimesOut) /\ WF_vars(PlaybackDone)
    /\ WF_vars(Resolved \/ Ends)
------------------------------------------------------------------------------
Frames == [kind : {"track", "silence"}, era : {"before", "paused", "after"}]

\* Type invariant of the controller, its two tasks and the service under test.
TypeOK ==
    /\ marks \subseteq Complete
    /\ joined \in BOOLEAN /\ clean \in BOOLEAN
    /\ verdict \in {"none", "ok", "err"} /\ play \in {"none", "running", "ok"}
    /\ svc.state \in {"idle", "voice_ready", "resolving", "buffering", "playing", "paused"}
    /\ svc.tail \in 0..SilenceFrames
    /\ \A i \in DOMAIN rtp : rtp[i] \in Frames
    /\ \A i \in DOMAIN events : events[i].kind \in Kinds
    /\ obs.run \in 0..SilenceFrames /\ obs.heard \in 0..PacketTarget
    /\ req.answer \in {"none", "ok", "explicit", "inferred", "err"}
    /\ present \subseteq {"service", "observer"} /\ faults \in 0..MaxFaults

\* Pause counts as proved only when the observer has heard the whole stop silence,
\* nothing after it for the length of the window, and nothing the service sent
\* before it stopped is still to come (prove_observer_pause_silence and the
\* rtp_silence_observed check of the contract).
PauseProven ==
    "Pause" \in marks /\ flow = "playback" =>
        /\ ~ obs.late
        /\ did \cap {"self", "stalled"} = {} => \A i \in DOMAIN rtp : rtp[i].era # "before"

\* Resume counts as proved only on frames the service sent after Resume was
\* called, provided it kept silent until then (prove_observer_resume_audio counts
\* from the packets observed when the proof was armed, before the call).
ResumeHeard ==
    "Resume" \in marks /\ flow = "playback" /\ did \cap {"leaked", "stalled"} = {} =>
        obs.fresh >= PacketTarget

\* A service that answers Ok and does nothing, or announces what did not happen,
\* is not accepted: behind a success it paused, resumed, ended the track, rolled
\* over, stopped and left (the GetState checks, the awaited Play calls and
\* ensure_complete back the events).
VerdictSound ==
    verdict = "ok" =>
        /\ {"paused", "ended", "rolled", "stopped", "left"} \subseteq did
        /\ did \cap {"resumed", "self"} # {}

\* The controlled pause, however long, is never held against the service as an
\* interruption of the audio (start_controlled_pause and
\* reset_wall_clock_baseline_after_controlled_pause).
PauseNotBuffering ==
    acc.buffered => did \cap {"starved", "stalled", "waited", "leaked", "lost"} # {}

\* When a run reports a clean end the service is out of voice and both bots have
\* left the channel, wherever the flow stopped (service_joined,
\* cleanup_after_flow); a JoinVoice that took effect without an answer is the
\* exception.
CleanedUp ==
    flow = "done" /\ clean /\ "unanswered" \notin did => present = {} /\ svc.state = "idle"

\* The two interruptions a run accepts as proved did happen as they were heard.
InterruptsProven == PauseProven /\ ResumeHeard

\* What holds of a run whatever its verdict: types, a controlled pause that is
\* not counted as buffering, and a channel left clean.
ContractInv == TypeOK /\ PauseNotBuffering /\ CleanedUp

\* Every run ends, whatever the service does: the two tasks never wait for each
\* other past their timeouts (LIVE_CONTRACT_TIMEOUT, LIVE_INTERRUPT_PROBE_TIMEOUT).
RunEnds == <>(flow = "done")

-----------------------------------------------------------------------------
(* Statements of tests and documentation that the code does not meet: TLC    *)
(* finds a behaviour against each of them (README, "Statements not met").     *)

\* Success means that the observer heard no service audio during the paused
\* interval, from Pause to Resume.
NoAudioWhilePaused == verdict = "ok" => "leaked" \notin did
==============================================================================
