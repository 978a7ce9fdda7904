---------------------------- MODULE VoiceObserver ----------------------------
(***************************************************************************)
(* The listening participant (`receive.rs` and the observer half of        *)
(* `handshake.rs`): it joins the channel's DAVE group, maps SSRCs to users *)
(* from what the gateway tells, and returns to its caller the frames and   *)
(* the activity of one expected user.  A single task reads the gateway and *)
(* the UDP socket, so the arrival of an event or of a packet and its       *)
(* handling are one step.  What MLS makes of a message and whether the     *)
(* decryption keys are there yet are nondeterministic.                     *)
(***************************************************************************)
EXTENDS Naturals, Sequences

CONSTANTS
    Self,          \* the observer's own user id
    Users,         \* the other participants
    Service,       \* the one whose playback is observed, expected by every call
    Ssrcs,         \* the RTP sources heard
    Owner,         \* who really sends each source
    Ids,           \* DAVE transition ids
    MaxArrivals,   \* bound: events and packets of one session that change something
    None

ASSUME ObserverConstants ==
    /\ Owner \in [Ssrcs -> Users] /\ Service \in Users
    /\ Self \notin Users /\ None \notin Users \cup Ssrcs \cup Ids
    /\ 0 \in Ids
    /\ MaxArrivals \in Nat

VARIABLES
    phase,    \* "closed" | "seeding" | "joining" | "listening"
    secure,   \* does the channel use DAVE
    author,   \* author_dave_proposals
    pend,     \* PendingObserverDaveState
    obs,      \* (Pending)ObservedVoiceSession
    call,     \* the call in progress
    out,      \* what the last call returned
    heard,    \* history: whom the gateway named for each source, until they leave
    passed,   \* history: sources with a buffered packet older than a frame returned
    dropped,  \* history: a call was dropped while it was joining again
    authored, \* history: a commit was sent against author_dave_proposals
    arrivals

vars == <<phase, secure, author, pend, obs, call, out, heard, passed, dropped,
          authored, arrivals>>

Payloads == {"voice", "silence", "broken"}
MlsEvents == [type : {"proposals"}, id : {None}]
                 \cup [type : {"commit", "welcome"}, id : Ids]
Updates == [ssrc : Ssrcs \cup {None}, user : Users]
Idle == [kind |-> "none", from |-> None, elapsed |-> FALSE, retry |-> FALSE]
Nothing == [kind |-> "nothing", user |-> None, from |-> None, ssrc |-> None,
            opened |-> FALSE, late |-> FALSE]

\* A PendingObserverDaveState whose new MLS session has sent its key package;
\* keys and refused are history: key packages of this MLS session, transitions
\* the gateway was told are invalid.
Pending(sender, recognized, invalidated, saw) ==
    [sender |-> sender, recognized |-> recognized \cup {Self}, prepared |-> {},
     invalidated |-> invalidated, refused |-> invalidated, key |-> TRUE, keys |-> 1, winner |-> FALSE,
     staged |-> 0, saw |-> saw, seeded |-> None, updates |-> <<>>]

NoJoin == [Pending(FALSE, {}, {}, FALSE) EXCEPT !.key = FALSE, !.keys = 0]

\* The queues of speaking states and of departures are counts of the service's:
\* no call takes another user's.
NewSession ==
    [dave |-> FALSE, recognized |-> {}, candidates |-> {}, completed |-> {},
     proposals |-> 0, ssrcs |-> [s \in Ssrcs |-> None],
     states |-> 0, leaves |-> 0, packets |-> [s \in Ssrcs |-> None],
     closed |-> FALSE]
------------------------------------------------------------------------------
(* Connecting. *)

\* PendingObservedVoiceSession::connect: the bootstrap saw some users and maybe
\* a speaker; without DAVE the session is ready at once.
Connected(dave, authoring, known, speaker) ==
    /\ secure' = dave /\ author' = authoring
    /\ phase' = IF dave THEN "seeding" ELSE "listening"
    /\ pend' = IF dave THEN Pending(FALSE, known, {}, speaker) ELSE NoJoin
    /\ obs' = NewSession
    /\ call' = Idle /\ out' = Nothing
    /\ heard' = [s \in Ssrcs |-> None]
    /\ passed' = {} /\ dropped' = FALSE /\ authored' = FALSE /\ arrivals' = 0

Connect ==
    /\ phase = "closed"
    /\ \E dave, authoring, speaker \in BOOLEAN, known \in SUBSET Users :
           Connected(dave, authoring, known, speaker)

\* An error returns to the caller, which gives the session up; Drop.
Close ==
    /\ phase' = "closed" /\ pend' = NoJoin /\ obs' = NewSession /\ call' = Idle
    /\ out' = Nothing /\ heard' = [s \in Ssrcs |-> None]
    /\ passed' = {} /\ dropped' = FALSE /\ authored' = FALSE /\ arrivals' = 0
    /\ UNCHANGED <<secure, author>>

Drop == phase \in {"seeding", "listening"} /\ call.kind = "none" /\ Close
------------------------------------------------------------------------------
(* The DAVE join: seeding from the events already there, then waiting for  *)
(* the transition that lets the observer in.                               *)

Joining == phase = "joining" /\ pend.seeded = None
Learns == phase = "seeding" \/ Joining
Arrives == arrivals < MaxArrivals /\ arrivals' = arrivals + 1
Defer(update) ==
    /\ Arrives
    /\ pend' = [pend EXCEPT !.updates = Append(@, update),
                            !.saw = @ \/ update.ssrc # None]

\* Speaking and ClientDisconnect wait until the join is complete...
JoinSpeaking(s) ==
    /\ Learns
    /\ Defer([ssrc |-> s, user |-> Owner[s]])
    /\ heard' = [heard EXCEPT ![s] = Owner[s]]
    /\ UNCHANGED <<phase, secure, author, obs, call, out, passed, dropped, authored>>

Forget(map, u) == [s \in Ssrcs |-> IF map[s] = u THEN None ELSE map[s]]

JoinDisconnect(u) ==
    /\ Learns
    /\ Defer([ssrc |-> None, user |-> u])
    /\ heard' = Forget(heard, u)
    /\ UNCHANGED <<phase, secure, author, obs, call, out, passed, dropped, authored>>

\* ...while ClientsConnect takes effect at once.
JoinConnect(u) ==
    /\ Learns /\ Arrives
    /\ pend' = [pend EXCEPT !.recognized = @ \cup {u}]
    /\ UNCHANGED <<phase, secure, author, obs, call, out, heard, passed, dropped, authored>>

JoinExternalSender ==
    /\ Learns
    /\ pend' = [pend EXCEPT !.sender = TRUE]
    /\ UNCHANGED <<phase, secure, author, obs, call, out, heard, passed, dropped, authored, arrivals>>

\* send_pending_join_key_package
KeyPackage(p) == IF p.key THEN p ELSE [p EXCEPT !.key = TRUE, !.keys = @ + 1]

\* A transition id is recorded when the event names one.
Prepared(id) == pend.prepared \cup ({id} \ {None})

JoinPrepareEpoch(id) ==
    /\ Learns /\ Arrives
    /\ id \notin pend.invalidated
    /\ pend' = LET p == [pend EXCEPT !.prepared = Prepared(id)]
               IN  IF phase = "seeding" THEN p ELSE KeyPackage(p)
    /\ UNCHANGED <<phase, secure, author, obs, call, out, heard, passed, dropped, authored>>

\* seed_pending_observer_dave_state stops at the first MLS event, or when none
\* is waiting; await_dave_ready then starts the clock.
SeedEnds(event) ==
    /\ phase = "seeding"
    /\ phase' = "joining"
    /\ pend' = [pend EXCEPT !.seeded = event]
    /\ call' = [Idle EXCEPT !.kind = "ready"]
    /\ UNCHANGED <<secure, author, obs, out, heard, passed, dropped, authored, arrivals>>

\* apply_pending_gateway_updates; the initial join's keeps a user who left
\* among the recognized ids.
ApplyUpdate(o, u) ==
    IF u.ssrc # None
    THEN [o EXCEPT !.ssrcs[u.ssrc] = u.user]
    ELSE [o EXCEPT !.ssrcs = Forget(@, u.user),
                   !.candidates = @ \ {u.user},
                   !.recognized = IF call.kind = "ready" THEN @ ELSE @ \ {u.user}]

ApplyUpdatesReversed(o, updates) ==
    LET applied[n \in 0 .. Len(updates)] ==
          IF n = 0 THEN o ELSE ApplyUpdate(applied[n - 1], updates[Len(updates) + 1 - n])
    IN  applied[Len(updates)]
ApplyUpdates(o, updates) ==
    LET applied[n \in 0 .. Len(updates)] ==
          IF n = 0 THEN o ELSE ApplyUpdate(applied[n - 1], updates[n])
    IN  applied[Len(updates)]

\* apply_observer_dave_ready
DaveReady(id) ==
    LET o == ApplyUpdates([obs EXCEPT !.recognized = pend.recognized,
                                      !.candidates = pend.recognized \ {Self}],
                          pend.updates)
    IN  [obs EXCEPT !.dave = TRUE, !.completed = @ \cup {id}, !.proposals = 0,
                    !.ssrcs = o.ssrcs, !.candidates = o.candidates,
                    !.recognized = o.recognized]

\* The join completes with the MLS session moved to the runtime: the caller of
\* await_dave_ready gets its session, a receiving call goes on with its loop.
Ready(id) ==
    /\ phase' = "listening"
    /\ obs' = DaveReady(id)
    /\ pend' = NoJoin
    /\ call' = IF call.kind = "ready" THEN Idle ELSE [call EXCEPT !.retry = TRUE]
    /\ UNCHANGED <<secure, author, out, heard, passed, dropped>>

\* Does the join leave the commit to another member?
Awaits == pend.winner \/ ~author \/ pend.saw

\* Proposals: authored by this member alone in the group, else kept to be
\* replayed on top of the transition of whoever authors them.
JoinProposals ==
    /\ phase = "joining" /\ pend.seeded \in {None, [type |-> "proposals", id |-> None]}
    /\ Arrives
    /\ \/ /\ pend.key /\ Awaits
          /\ pend' = [pend EXCEPT !.seeded = None, !.winner = TRUE,
                                  !.staged = IF pend.winner THEN @ + 1 ELSE 0]
          /\ UNCHANGED <<phase, secure, author, obs, call, out, heard, passed, dropped, authored>>
       \/ /\ pend.key /\ ~Awaits               \* a no-op revoke
          /\ pend' = [pend EXCEPT !.seeded = None, !.staged = @ + 1]
          /\ UNCHANGED <<phase, secure, author, obs, call, out, heard, passed, dropped, authored>>
       \/ pend.key /\ ~Awaits /\ pend.sender /\ authored' = ~author /\ Ready(0)

\* restart_pending_observer_dave_join_after_invalid_transition
RestartedKeyed(id) ==
    [pend EXCEPT !.prepared = {}, !.invalidated = @ \cup {id}, !.keys = 0,
                 !.refused = @ \cup {id},
                 !.winner = FALSE, !.staged = 0, !.saw = TRUE, !.seeded = None]
RestartedForgetting(id) ==
    KeyPackage([pend EXCEPT !.prepared = {}, !.key = FALSE, !.refused = @ \cup {id},
                            !.keys = 0, !.winner = FALSE, !.staged = 0, !.saw = TRUE,
                            !.seeded = None])
Restarted(id) ==
    KeyPackage([pend EXCEPT !.prepared = {}, !.invalidated = @ \cup {id}, !.key = FALSE,
                            !.refused = @ \cup {id},
                            !.keys = 0, !.winner = FALSE, !.staged = 0, !.saw = TRUE,
                            !.seeded = None])

\* A commit or a welcome: ignored when it was declared invalid, refused when it
\* is not the prepared one, otherwise the group is joined or the join restarts.
Admits(id) ==
    /\ id \notin pend.invalidated /\ pend.sender
    /\ id \in pend.prepared \/ (pend.key /\ pend.prepared = {})

JoinTransition(id) ==
    /\ phase = "joining"
    /\ pend.seeded \in {None} \cup [type : {"commit", "welcome"}, id : {id}]
    /\ Arrives
    /\ \/ /\ id \in pend.invalidated
          /\ pend' = [pend EXCEPT !.prepared = @ \ {id}, !.seeded = None]
          /\ UNCHANGED <<phase, secure, author, obs, call, out, heard, passed, dropped, authored>>
       \/ Admits(id) /\ Ready(id) /\ UNCHANGED authored
       \/ /\ Admits(id)
          /\ pend' = Restarted(id)
          /\ UNCHANGED <<phase, secure, author, obs, call, out, heard, passed, dropped, authored>>

\* What ends a join with an error: a message nothing was prepared for, one that
\* cannot be answered without the external sender, proposals that do not apply
\* to the group joined, a failed receive or send.
JoinFails ==
    /\ phase \in {"seeding", "joining"}
    /\ Close

------------------------------------------------------------------------------
(* Listening.  A call loops: what is queued, then the gateway before the    *)
(* socket, until it has a result or its deadline is past.                   *)

Begin(kind, from) ==
    /\ phase = "listening" /\ call.kind = "none"
    /\ kind # "audio" => from # None
    /\ call' = [kind |-> kind, from |-> from, elapsed |-> FALSE, retry |-> kind = "activity"]
    /\ out' = Nothing
    /\ UNCHANGED <<phase, secure, author, pend, obs, heard, passed, dropped, authored, arrivals>>

Return(result) == call' = Idle /\ out' = [result EXCEPT !.from = call.from]
Told(kind, u) == [Nothing EXCEPT !.kind = kind, !.user = u]

\* pop_pending_disconnect_from, pop_pending_speaking_state_from
Queued == \/ call.kind = "activity" /\ obs.leaves + obs.states > 0
          \/ call.kind = "speaking" /\ obs.states > 0

TakeDisconnect ==
    /\ phase = "listening" /\ call.kind = "activity" /\ obs.leaves > 0
    /\ obs' = [obs EXCEPT !.leaves = @ - 1]
    /\ Return(Told("leave", call.from))
    /\ UNCHANGED <<phase, secure, author, pend, heard, passed, dropped, authored, arrivals>>

\* The oldest speaking state of the expected user; receive_speaking_state
\* passes over those that are not the one it waits for.
TakeSpeaking ==
    /\ phase = "listening" /\ Queued
    /\ call.kind = "activity" => obs.leaves = 0
    /\ obs' = [obs EXCEPT !.states = @ - 1]
    /\ \/ Return(Told("speaking", call.from))
       \/ call.kind = "speaking" /\ UNCHANGED <<call, out>>
    /\ UNCHANGED <<phase, secure, author, pend, heard, passed, dropped, authored, arrivals>>

\* decode_audio_packet and decrypt_audio_payload: without a runtime, and for
\* the silence frame, the payload is returned as it is.
Opens(u, s, payload) ==
    payload # "broken" /\ (obs.dave => payload = "silence" \/ Owner[s] = u)
MayWait(payload) == payload = "voice" /\ obs.dave
Frame(u, s, payload, late) ==
    [Nothing EXCEPT !.kind = "frame", !.user = u, !.ssrc = s, !.late = late,
                    !.opened = payload = "silence" \/ obs.dave]

Unexpected(u) == call.from # None /\ u # call.from

\* try_decode_pending_audio_frame: the buffered packets whose source is mapped,
\* in the order of a hash map, up to the first that decodes or is broken.
Mapped == {s \in Ssrcs : obs.packets[s] # None /\ obs.ssrcs[s] # None}
Without(dropping) ==
    [obs EXCEPT !.packets = [s \in Ssrcs |-> IF s \in dropping THEN None ELSE @[s]]]
Foreign == {s \in Mapped : Unexpected(obs.ssrcs[s])}

TryPending ==
    /\ phase = "listening" /\ call.retry /\ ~Queued
    /\ \/ /\ \A s \in Mapped \ Foreign : MayWait(obs.packets[s])
          /\ obs' = Without(Foreign)
          /\ call' = [call EXCEPT !.retry = FALSE]
          /\ passed' = passed \ Foreign
          /\ UNCHANGED <<phase, secure, author, pend, out, heard, dropped, authored, arrivals>>
       \/ \E s \in Mapped \ Foreign, before \in SUBSET Mapped :
             /\ s \notin before
             /\ \A b \in before \ Foreign : MayWait(obs.packets[b])
             /\ \/ /\ Opens(obs.ssrcs[s], s, obs.packets[s])
                   /\ obs' = Without({s} \cup (before \cap Foreign))
                   /\ passed' = passed \ ({s} \cup (before \cap Foreign))
                   /\ Return(Frame(obs.ssrcs[s], s, obs.packets[s], s \in passed))
                   /\ UNCHANGED <<phase, secure, author, pend, heard, dropped, authored, arrivals>>
                \/ obs.packets[s] = "broken" /\ Close

\* The loop is at its wait: nothing queued, the deadline not past.
Waits == /\ phase = "listening" /\ call.kind \notin {"none"}
         /\ ~call.retry /\ ~call.elapsed /\ ~Queued
------------------------------------------------------------------------------
(* A packet arrives (process_audio_packet, process_activity_packet).        *)

Receives == Waits /\ call.kind \in {"audio", "activity"}
GoesOn == call' = [call EXCEPT !.retry = call.kind = "activity"] /\ UNCHANGED out
Buffer(o, s, payload) == [o EXCEPT !.packets[s] = payload]

\* infer_single_remote_speaker
Inferred == {c \in obs.candidates : /\ obs.candidates = {c} /\ ~Unexpected(c)
                                    /\ \A s \in Ssrcs : obs.ssrcs[s] # c}

\* The packet of a source mapped to u: the buffered one is given up.
MappedPacket(u, s, payload) ==
    LET o == [obs EXCEPT !.ssrcs[s] = u, !.packets[s] = None]
    IN  \/ /\ Opens(u, s, payload)
           /\ obs' = o /\ passed' = passed \ {s}
           /\ Return(Frame(u, s, payload, FALSE))
        \/ /\ MayWait(payload)
           /\ obs' = Buffer(o, s, payload) /\ passed' = passed \ {s}
           /\ IF call.kind = "audio" THEN GoesOn
              ELSE Return([Told("packet", u) EXCEPT !.ssrc = s])

\* The packet of an unknown source: decrypted as the expected user's, else
\* attributed to the only candidate, else buffered.
Guessing == call.from # None /\ obs.dave
UnknownPacket(s, payload) ==
    \/ Guessing /\ payload = "broken" /\ UNCHANGED <<obs, passed>> /\ GoesOn
    \/ /\ Guessing /\ Opens(call.from, s, payload)
       /\ obs' = [obs EXCEPT !.ssrcs[s] = call.from]
       /\ passed' = passed \cup {t \in {s} : obs.packets[t] # None}
       /\ Return(Frame(call.from, s, payload, FALSE))
    \/ /\ Guessing => payload = "voice"
       /\ \/ \E c \in Inferred : payload # "broken" /\ MappedPacket(c, s, payload)
          \/ Inferred = {} /\ obs' = Buffer(obs, s, payload) /\ passed' = passed \ {s} /\ GoesOn

Packet(s, payload) ==
    /\ Receives /\ Arrives
    /\ \/ obs.ssrcs[s] = None /\ UnknownPacket(s, payload)
       \/ /\ obs.ssrcs[s] # None /\ ~Unexpected(obs.ssrcs[s]) /\ payload # "broken"
          /\ MappedPacket(obs.ssrcs[s], s, payload)
       \/ /\ obs.ssrcs[s] # None /\ Unexpected(obs.ssrcs[s])
          /\ obs' = [obs EXCEPT !.packets[s] = None] /\ passed' = passed \ {s}
          /\ GoesOn
    /\ UNCHANGED <<phase, secure, author, pend, heard, dropped, authored>>

\* An unprotectable packet of a source that is taken for the expected user's.
BrokenPacket(s) ==
    /\ Receives
    /\ \/ obs.ssrcs[s] # None /\ ~Unexpected(obs.ssrcs[s])
       \/ obs.ssrcs[s] = None /\ ~Guessing /\ Inferred # {}
    /\ Close
------------------------------------------------------------------------------
(* A gateway event arrives (apply_gateway_payload).  One read after the     *)
(* deadline is lost with the call's error, which here is an event that      *)
(* never came.                                                              *)

Again == call' = [call EXCEPT !.retry = call.kind # "speaking"] /\ UNCHANGED out

Queue(count, u) == IF u = Service THEN count + 1 ELSE count

\* apply_speaking: named by the event, or found by the source.
Speaking(s, named, on) ==
    /\ Waits /\ ~obs.closed /\ Arrives
    /\ LET u == IF named THEN Owner[s] ELSE obs.ssrcs[s]
       IN  \/ u = None /\ UNCHANGED <<obs, heard>>
           \/ /\ u # None
              /\ obs' = [obs EXCEPT !.ssrcs[s] = IF on THEN u ELSE @,
                                    !.states = Queue(@, u)]
              /\ heard' = IF on /\ named THEN [heard EXCEPT ![s] = u] ELSE heard
    /\ Again
    /\ UNCHANGED <<phase, secure, author, pend, passed, dropped, authored>>

ClientsConnect(u) ==
    /\ Waits /\ ~obs.closed /\ Arrives
    /\ obs' = [obs EXCEPT !.candidates = @ \cup {u}, !.recognized = @ \cup {u}]
    /\ Again
    /\ UNCHANGED <<phase, secure, author, pend, heard, passed, dropped, authored>>

ClientDisconnect(u) ==
    /\ Waits /\ ~obs.closed /\ Arrives
    /\ obs' = [obs EXCEPT !.candidates = @ \ {u}, !.recognized = @ \ {u},
                          !.ssrcs = Forget(@, u), !.leaves = Queue(@, u)]
    /\ heard' = Forget(heard, u)
    /\ Again
    /\ UNCHANGED <<phase, secure, author, pend, passed, dropped, authored>>

\* reinitialize_pending_observer_dave_join_after_invalid_*: the material of the
\* last join, and no proposals authored.
Reinitialized(invalidated) == Pending(TRUE, obs.recognized, invalidated, TRUE)

\* reinitialize_dave_after_invalid_*: the call now waits for a new join.
Rejoin(invalidated) ==
    /\ Arrives
    /\ phase' = "joining"
    /\ pend' = Reinitialized(invalidated)
    /\ obs' = [obs EXCEPT !.dave = FALSE]
    /\ UNCHANGED <<secure, author, call, out, heard, passed, dropped, authored>>

\* apply_dave_proposals
Proposals ==
    /\ Waits /\ ~obs.closed
    /\ \/ /\ ~author /\ Arrives
          /\ obs' = [obs EXCEPT !.proposals = @ + 1]
          /\ Again
          /\ UNCHANGED <<phase, secure, author, pend, heard, passed, dropped, authored>>
       \/ /\ author /\ obs.dave              \* answered with a commit, or ignored
          /\ Again
          /\ UNCHANGED <<phase, secure, author, pend, obs, heard, passed, dropped, authored, arrivals>>
       \/ author /\ obs.dave /\ Rejoin({})

\* apply_dave_welcome and apply_dave_commit_transition; process_commit works on
\* the runtime taken out of the session, which is then put back.
AppliedTaken(id) == [obs EXCEPT !.completed = @ \cup {id}, !.proposals = 0, !.dave = FALSE]
Applied(id) == [obs EXCEPT !.completed = @ \cup {id}, !.proposals = 0]

Transition(id) ==
    /\ Waits /\ ~obs.closed
    /\ id \notin obs.completed /\ obs.dave
    /\ \/ /\ Arrives
          /\ obs' = Applied(id)
          /\ Again
          /\ UNCHANGED <<phase, secure, author, pend, heard, passed, dropped, authored>>
       \/ Rejoin({id})

\* Everything a session does not act on: a replayed transition, MLS messages
\* without a runtime, other opcodes; RTCP packets.
Ignored ==
    /\ Waits
    /\ \/ ~obs.closed /\ Again
       \/ Receives /\ GoesOn
    /\ UNCHANGED <<phase, secure, author, pend, obs, heard, passed, dropped, authored, arrivals>>

\* mark_gateway_receive_closed: the call goes on with the socket alone.
GatewayClosed ==
    /\ Waits /\ ~obs.closed
    /\ obs' = [obs EXCEPT !.closed = TRUE]
    /\ GoesOn
    /\ UNCHANGED <<phase, secure, author, pend, heard, passed, dropped, authored, arrivals>>
------------------------------------------------------------------------------
(* Ends of a call without a result. *)

Elapse ==
    /\ call.kind # "none" /\ ~call.elapsed
    /\ call' = [call EXCEPT !.elapsed = TRUE]
    /\ UNCHANGED <<phase, secure, author, pend, obs, out, heard, passed, dropped, authored, arrivals>>

\* "voice receive timed out" leaves the session in use; a join that times out
\* does not.
TimesOutQuiet ==
    /\ call.elapsed /\ phase = "listening" /\ ~call.retry /\ ~Queued
    /\ Return(Told("timeout", None))
    /\ UNCHANGED <<phase, secure, author, pend, obs, heard, passed, dropped, authored, arrivals>>
TimesOut ==
    /\ call.elapsed /\ ~call.retry /\ ~Queued
    /\ \/ /\ phase = "listening"
          /\ Return(Told("timeout", None))
          /\ UNCHANGED <<phase, secure, author, pend, obs, heard, passed, dropped, authored, arrivals>>
       \/ Joining /\ Close

\* A failed receive or send, or a speaking call on a closed gateway.
Fails == Waits /\ (call.kind = "speaking" \/ ~obs.closed) /\ Close

\* The caller's select! drops the call (controller.rs uses it for audio): what
\* a join under way had gathered goes with it.
Cancel ==
    /\ call.kind = "audio" /\ (Waits \/ phase = "joining")
    /\ phase' = "listening" /\ pend' = NoJoin
    /\ dropped' = (dropped \/ phase = "joining")
    /\ call' = Idle
    /\ UNCHANGED <<secure, author, obs, out, heard, passed, authored, arrivals>>
------------------------------------------------------------------------------
Init ==
    /\ phase = "closed" /\ secure = FALSE /\ author = FALSE
    /\ pend = NoJoin /\ obs = NewSession /\ call = Idle /\ out = Nothing
    /\ heard = [s \in Ssrcs |-> None]
    /\ passed = {} /\ dropped = FALSE /\ authored = FALSE /\ arrivals = 0

JoinStep ==
    \/ \E u \in Users : JoinConnect(u) \/ JoinDisconnect(u)
    \/ \E s \in Ssrcs : JoinSpeaking(s)
    \/ JoinExternalSender
    \/ \E id \in Ids \cup {None} : JoinPrepareEpoch(id)
    \/ \E event \in MlsEvents \cup {None} : SeedEnds(event)
    \/ JoinProposals
    \/ \E id \in Ids : JoinTransition(id)
    \/ JoinFails

QueueStep == TakeDisconnect \/ TakeSpeaking \/ TryPending

ReceiveStep ==
    \/ \E s \in Ssrcs, payload \in Payloads : Packet(s, payload)
    \/ \E s \in Ssrcs : BrokenPacket(s)
    \/ \E s \in Ssrcs, named, on \in BOOLEAN : Speaking(s, named, on)
    \/ \E u \in Users : ClientsConnect(u) \/ ClientDisconnect(u)
    \/ Proposals
    \/ \E id \in Ids : Transition(id)
    \/ Ignored \/ GatewayClosed

Next ==
    \/ Connect \/ Drop
    \/ JoinStep
    \/ \E kind \in {"audio", "activity", "speaking"}, from \in {Service, None} : Begin(kind, from)
    \/ QueueStep \/ ReceiveStep
    \/ Elapse \/ TimesOut \/ Fails \/ Cancel

Spec == Init /\ [][Next]_vars

\* The clock runs and the task is polled; the network need not do anything.
FairSpec == Spec /\ WF_vars(Elapse) /\ WF_vars(TimesOut) /\ WF_vars(QueueStep)
                 /\ WF_vars(phase = "joining" /\ pend.seeded # None /\ JoinStep)
------------------------------------------------------------------------------
(* Properties. *)

\* The values of a join, of a session and of a call, as far as they are typed by
\* more than their shape.
PendingTyped(p) ==
    /\ p.recognized \subseteq Users \cup {Self} /\ p.prepared \subseteq Ids
    /\ p.invalidated \subseteq Ids /\ p.staged \in 0 .. MaxArrivals
    /\ p.seeded \in MlsEvents \cup {None} /\ p.updates \in Seq(Updates)
SessionTyped(o) ==
    /\ o.recognized \subseteq Users \cup {Self} /\ o.candidates \subseteq Users
    /\ o.completed \subseteq Ids /\ o.proposals \in 0 .. MaxArrivals
    /\ o.ssrcs \in [Ssrcs -> Users \cup {None}]
    /\ o.packets \in [Ssrcs -> Payloads \cup {None}]
Calls == [kind : {"none", "ready", "audio", "activity", "speaking"}, from : {Service, None},
          elapsed : BOOLEAN, retry : BOOLEAN]

\* Type invariant of the join, the session and the call, whose buffered packets
\* and queued updates are ones that arrived.
TypeOK ==
    /\ phase \in {"closed", "seeding", "joining", "listening"}
    /\ {secure, author, dropped, authored} \subseteq BOOLEAN
    /\ arrivals \in 0 .. MaxArrivals /\ call \in Calls
    /\ PendingTyped(pend) /\ pend.staged <= arrivals
    /\ SessionTyped(obs) /\ obs.proposals <= arrivals
    /\ heard \in [Ssrcs -> Users \cup {None}]
    /\ passed \subseteq {s \in Ssrcs : obs.packets[s] # None}

\* Every MLS session of a join, the first and each one a restart makes, has
\* sent its key package exactly once: without one the group cannot add the
\* observer, and a second one answers no request (send_pending_join_key_package
\* and the reset of pending_key_package on a restart).
KeyPackagePerSession == phase \in {"seeding", "joining"} => pend.key /\ pend.keys = 1

\* A join never completes with a transition it told the gateway was invalid,
\* whichever messages for it still come (invalidated_transition_ids).
InvalidatedStaysOut ==
    [][phase = "joining" /\ phase' = "listening"
          => \A id \in pend.refused : id \in obs'.completed => id \in obs.completed]_vars

\* An observer told to leave proposals to the sender never sends a commit, in
\* the first join, in a later one or between them (author_dave_proposals).
LeavesAuthoring == ~authored

\* Whom the gateway named for a source, and who has not left, is whom the
\* session maps it to: speaking states and departures consumed by a join are
\* applied after it, in their order, and no inference replaces them.
MappingHeard ==
    phase = "listening" /\ ~dropped
        => \A s \in Ssrcs : heard[s] # None => obs.ssrcs[s] = heard[s]

\* A call that asks for a user's audio or activity returns no one else's,
\* whatever other sources sent, however a source came to be mapped, and also
\* when the packet was buffered under another mapping.
FrameFromExpected ==
    out.kind \in {"frame", "packet"} => out.from \in {None, out.user}

\* In a channel that uses DAVE every frame returned was decrypted or is the
\* plain silence frame: the runtime is never missing while frames are read,
\* unless a call was dropped while it was joining again.
FramesDecrypted ==
    out.kind = "frame" /\ secure /\ ~dropped => out.opened

\* What the properties rest on: a session that listens in a DAVE channel has its
\* runtime, the transitions declared invalid are the ones a join refuses, and a
\* join that has refused one no longer authors the founding commit.
RuntimeKept == phase = "listening" /\ secure /\ ~dropped => obs.dave
RefusalsKept == pend.refused = pend.invalidated /\ (pend.refused # {} => pend.saw)

\* A record with the fields of a join, and one with those of a session.
IsPending(p) ==
    p = [sender |-> p.sender, recognized |-> p.recognized, prepared |-> p.prepared,
         invalidated |-> p.invalidated, refused |-> p.refused, key |-> p.key, keys |-> p.keys,
         winner |-> p.winner, staged |-> p.staged, saw |-> p.saw, seeded |-> p.seeded,
         updates |-> p.updates]
IsSession(o) ==
    o = [dave |-> o.dave, recognized |-> o.recognized, candidates |-> o.candidates,
         completed |-> o.completed, proposals |-> o.proposals, ssrcs |-> o.ssrcs,
         states |-> o.states, leaves |-> o.leaves, packets |-> o.packets, closed |-> o.closed]

\* A map gives source s to user u once the deferred updates are applied: the last
\* of them that names it does, or the map did before, and u has not left since.
StandsFor(map, updates, s, u) ==
    \E k \in 0 .. Len(updates) :
        /\ IF k = 0 THEN map[s] = u ELSE updates[k] = [ssrc |-> s, user |-> u]
        /\ \A n \in (k + 1) .. Len(updates) :
               updates[n].ssrc # s /\ updates[n] # [ssrc |-> None, user |-> u]

\* MappingHeard, strengthened to hold during a join as well: the updates that
\* wait for its end will make of the map what was heard.
MappingKept ==
    /\ phase \in {"closed", "listening"} => pend.updates = <<>>
    /\ ~dropped => \A s \in Ssrcs :
           heard[s] # None => StandsFor(obs.ssrcs, pend.updates, s, heard[s])

\* The part of the state that every step preserves whatever the deferred updates
\* made of the maps.
ListenInv ==
    /\ IsPending(pend) /\ IsSession(obs)
    /\ KeyPackagePerSession /\ LeavesAuthoring /\ FrameFromExpected /\ FramesDecrypted
    /\ RuntimeKept /\ RefusalsKept

\* Together, the state of a join, the map and what a call may return.
ObserverInv == TypeOK /\ ListenInv /\ MappingKept

\* Every call returns, and every join ends, however many events and packets
\* keep coming: the deadline is one for the whole call.
CallsReturn == (call.kind # "none") ~> (call.kind = "none")

-----------------------------------------------------------------------------
(* Statements of tests and documentation that the code does not meet: TLC    *)
(* finds a behaviour against each of them (README, "Statements not met").     *)

\* Frames of one source are returned in the order their packets came.
FramesInOrder == ~out.late
==============================================================================
