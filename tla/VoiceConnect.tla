---------------------------- MODULE VoiceConnect ----------------------------
(***************************************************************************)
(* Joining a voice gateway: the websocket, the heartbeat task, the hello / *)
(* identify / ready / select protocol / session description exchange, the  *)
(* active participant's initial DAVE join (handshake.rs), and the life of  *)
(* the connection in the ConnectedVoiceSession that owns it: suspension,   *)
(* resume and drop (session.rs).                                           *)
(*                                                                         *)
(* Every websocket is a link.  The gateway is external: on an open link it *)
(* may send any event at any moment, out of protocol order included, and   *)
(* it may close the link.  What MLS makes of a message is external too: it *)
(* accepts or refuses it.  Time is one deadline per wait: Tick lets it     *)
(* pass.                                                                   *)
(***************************************************************************)
EXTENDS Naturals, Sequences

CONSTANTS
  Users, Self,  \* voice user ids; Self is the service's own
  Ids,          \* DAVE transition ids; 0 is DAVE_PROTOCOL_INIT_TRANSITION_ID
  MaxLinks,     \* bound: websockets opened in a behaviour
  MaxSeq,       \* bound: sequenced events per voice session
  None

Links == 1..MaxLinks
SeqNumbers == 1..MaxSeq \cup {None}

\* An outbound transition the session waits to execute, and a session's fields.
PendingTransitions == [id : Ids \ {0}, welcome : BOOLEAN]
DaveStates ==
  [runtime : Ids \cup {None}, welcomed : SUBSET Ids, localInit : BOOLEAN,
   recognized : SUBSET Users]
Sessions ==
  [gateway : Links \cup {None}, media : BOOLEAN, receiveClosed : BOOLEAN,
   suspendedSeq : SeqNumbers, speaking : BOOLEAN, dave : DaveStates \cup {None}]

ASSUME ConnectAssumption ==
  /\ Self \in Users /\ Ids \subseteq Nat /\ 0 \in Ids
  /\ MaxLinks \in Nat /\ MaxSeq \in Nat

\* None is no value of the types it is the absence of.
ASSUME NoneAssumption ==
  None \notin Nat /\ None \notin Users /\ None \notin PendingTransitions /\ None \notin Sessions

VARIABLES
  attempt,   \* the connect or resume call in progress
  link,      \* every websocket: is it open, the event waiting in it, its
             \* seq_ack, its heartbeat task and the shutdown sender's owner
  join,      \* complete_active_dave_transition's locals, or None
  session,   \* the ConnectedVoiceSession, or None
  told,      \* for the properties: what this voice session said and was told
  served     \* the gateway's last sequence number

vars == <<attempt, link, join, session, told, served>>

----------------------------------------------------------------------------
Idle == [stage |-> "idle", link |-> None, elapsed |-> FALSE]
NoWebSocket == [open |-> FALSE, inbox |-> None, seq |-> None,
                heart |-> "none", held |-> FALSE]
WebSocket == [NoWebSocket EXCEPT !.open = TRUE]
NothingTold == [keys |-> 0, ready |-> <<>>, commit |-> FALSE, peers |-> {}, seq |-> None]

\* A payload the parser accepts, one that it refuses ("Malformed"), or one of
\* the many it accepts and nobody here acts on: "Benign" before the session
\* description, "Other" not.
TextEvents ==
  [type : {"Hello", "Ready", "Resumed", "Description", "DaveDescription",
           "Benign", "Other", "Malformed"}, arg : {None}]
    \cup [type : {"ClientsConnect", "ClientDisconnect"}, arg : Users]
    \cup [type : {"PrepareEpoch"}, arg : Ids \cup {None}]
    \cup [type : {"Execute"}, arg : Ids]

BinaryEvents ==
  [type : {"ExternalSender", "Append", "Revoke"}, arg : {None}]
    \cup [type : {"Commit", "Welcome"}, arg : Ids]

Events == TextEvents \cup BinaryEvents

\* The values the variables range over.
Stages == {"idle", "hello", "ready", "resuming", "description", "dave"}
Messages ==
  {[type |-> e.type, arg |-> e.arg, seq |-> q] : e \in Events, q \in SeqNumbers}
WebSockets ==
  [open : BOOLEAN, inbox : Messages \cup {None}, seq : SeqNumbers,
   heart : {"none", "running", "stopped"}, held : BOOLEAN]
JoinStates ==
  [session : BOOLEAN, key : BOOLEAN, prepared : SUBSET Ids,
   pending : PendingTransitions \cup {None}, grace : BOOLEAN, recognized : SUBSET Users]

\* A write can fail only when the peer is gone, and may be buffered even then.
Sent(l) == IF link[l].open THEN {TRUE} ELSE {TRUE, FALSE}

Init ==
  /\ attempt = Idle /\ link = [l \in Links |-> NoWebSocket]
  /\ join = None /\ session = None /\ told = NothingTold /\ served = 0

----------------------------------------------------------------------------
(* The gateway, and the clock. *)

InUse == {attempt.link} \cup (IF session = None THEN {} ELSE {session.gateway})

\* The event types a reader at this point tells apart: the event it hopes for,
\* and one that stands for all the others.  Only the loops look at them all.
Telling(l) ==
  CASE l # attempt.link -> {"Benign"}
    [] attempt.stage = "hello" -> {"Hello", "Other"}
    [] attempt.stage = "ready" -> {"Ready", "Benign"}
    [] attempt.stage = "resuming" -> {"Resumed", "Other"}
    [] attempt.stage = "description" ->
         {"ClientsConnect", "ClientDisconnect", "Benign", "Other", "Description", "DaveDescription"}
    [] OTHER -> {e.type : e \in Events} \ {"Hello", "Ready", "Resumed", "Description",
                                           "DaveDescription", "Other"}

GatewaySends(l, e, sequenced) ==
  /\ l \in InUse /\ link[l].open /\ link[l].inbox = None /\ e.type \in Telling(l)
  /\ sequenced => served < MaxSeq /\ e.type \in {"Ready", "Resumed", "Benign"}
  /\ served' = IF sequenced THEN served + 1 ELSE served
  /\ link' = [link EXCEPT ![l].inbox =
                [type |-> e.type, arg |-> e.arg, seq |-> IF sequenced THEN served + 1 ELSE None]]
  /\ UNCHANGED <<attempt, join, session, told>>

GatewayCloses(l) ==
  /\ l \in InUse /\ link[l].open
  /\ link' = [link EXCEPT ![l].open = FALSE]
  /\ UNCHANGED <<attempt, join, session, told, served>>

Tick ==
  /\ attempt.stage # "idle" /\ ~attempt.elapsed
  /\ attempt' = [attempt EXCEPT !.elapsed = TRUE]
  /\ UNCHANGED <<link, join, session, told, served>>

----------------------------------------------------------------------------
(* The heartbeat task of a link. *)

SpawnHeartbeat(w) == [w EXCEPT !.heart = "running", !.held = TRUE]

\* The sender is used or dropped: to the task either ends its receiver.
ShutDownKept(w) == w
ShutDown(w) == [w EXCEPT !.held = FALSE]

\* The last owner but the heartbeat task lets go of the client.
Dropped(w) == ShutDown([w EXCEPT !.inbox = None, !.seq = None])

HeartbeatStops(l) ==
  /\ link[l].heart = "running"
  /\ (~link[l].held \/ FALSE \in Sent(l))
  /\ link' = [link EXCEPT ![l].heart = "stopped", ![l].open = @ /\ l \in InUse]
  /\ UNCHANGED <<attempt, join, session, told, served>>

----------------------------------------------------------------------------
(* Receiving, failing, succeeding.  What an event leaves behind, and how a  *)
(* call ends, is said of the link record; the caller stores it.             *)

Event == link[attempt.link].inbox
Received(w) == [w EXCEPT !.inbox = None, !.seq = IF w.inbox.seq = None THEN @ ELSE w.inbox.seq]
Taken == Received(link[attempt.link])

\* The next wait: a fresh deadline, except inside the loops that have one for
\* all their events.
Enter(stage) == attempt' = [attempt EXCEPT !.stage = stage, !.elapsed = FALSE]
Stay == UNCHANGED attempt

\* Err from the attempt: the shutdown sender goes with it.  A connect leaves no
\* session, a failed resume leaves the session as it was.
Fails ==
  /\ attempt' = Idle /\ join' = None
  /\ link' = [link EXCEPT ![attempt.link] = Dropped(@)]
  /\ told' = IF session = None THEN NothingTold ELSE told
  /\ UNCHANGED <<session, served>>

\* The session ConnectedVoiceSession::connect builds; the bootstrap's heartbeat
\* sender moves into it.
KeptNot(w) == [w EXCEPT !.held = FALSE]
Kept(w) == w

Session(l, dave) ==
  [gateway |-> l, media |-> TRUE, receiveClosed |-> FALSE, suspendedSeq |-> None,
   speaking |-> FALSE, dave |-> dave]

Connects(dave) ==
  /\ attempt' = Idle /\ join' = None
  /\ session' = Session(attempt.link, dave)
  /\ link' = [link EXCEPT ![attempt.link] = Kept(Taken)]

----------------------------------------------------------------------------
(* bootstrap_voice_connection and resume_gateway. *)

FreshLinks == {l \in Links : link[l].heart = "none" /\ l \notin InUse}

\* An endpoint may name no gateway; then the session is built without one.
GatewayUrl == {None, "url"}

\* A refused or late websocket changes nothing.
Connect ==
  /\ session = None /\ attempt.stage = "idle"
  /\ \E url \in GatewayUrl :
     \/ /\ url = None
        /\ session' = [Session(None, None) EXCEPT !.media = FALSE]
        /\ UNCHANGED <<attempt, link, told, served>>
     \/ \E l \in FreshLinks :
          /\ url # None /\ \A m \in FreshLinks : l <= m
          /\ link' = [link EXCEPT ![l] = WebSocket]
          /\ attempt' = [stage |-> "hello", link |-> l, elapsed |-> FALSE]
          /\ told' = NothingTold /\ served' = 0
          /\ UNCHANGED session
  /\ UNCHANGED join

\* expect_hello, the heartbeat, then identify or resume.  A resume acknowledges
\* the session's sequence number.
SeqAck == IF session.gateway = None THEN session.suspendedSeq ELSE link[session.gateway].seq

Hello ==
  /\ attempt.stage = "hello" /\ Event # None
  /\ IF Event.type = "Hello"
     THEN \E ok \in Sent(attempt.link) :
            LET w == SpawnHeartbeat(Taken)
            IN  IF session = None
                THEN /\ IF ok THEN Enter("ready") ELSE attempt' = Idle
                     /\ link' = [link EXCEPT ![attempt.link] = IF ok THEN w ELSE Dropped(w)]
                     /\ UNCHANGED <<join, session, told, served>>
                ELSE /\ IF ok THEN Enter("resuming") ELSE attempt' = Idle
                     /\ link' = [link EXCEPT ![attempt.link] =
                          IF ok THEN [w EXCEPT !.seq = SeqAck] ELSE Dropped(w)]
                     /\ UNCHANGED <<join, session, told, served>>
     ELSE Fails

\* expect_ready takes one event.  Then the encryption mode, the UDP target and
\* socket, and select protocol: each may fail.
Ready ==
  /\ attempt.stage = "ready" /\ Event # None
  /\ \/ Fails
     \/ /\ Event.type = "Ready"
        /\ Enter("description")
        /\ link' = [link EXCEPT ![attempt.link] = Taken]
        /\ join' = [session |-> FALSE, key |-> FALSE, prepared |-> {}, pending |-> None,
                    grace |-> FALSE, recognized |-> {Self}]
        /\ UNCHANGED <<session, told, served>>

Resumed ==
  /\ attempt.stage = "resuming" /\ Event # None
  /\ IF Event.type = "Resumed"
     THEN /\ attempt' = Idle
          /\ link' = [l \in Links |-> CASE l = attempt.link -> Taken
                                       [] l = session.gateway -> Dropped(link[l])
                                       [] OTHER -> link[l]]
          /\ session' = [session EXCEPT !.gateway = attempt.link, !.receiveClosed = FALSE,
                                        !.suspendedSeq = None, !.speaking = FALSE]
          /\ told' = [told EXCEPT !.seq = Taken.seq]
          /\ UNCHANGED <<join, served>>
     ELSE Fails

\* next_event gives up; the loops look at their deadline before every event.
TimedOutWhenQuiet == attempt.elapsed /\ Event = None
TimedOut == attempt.elapsed /\ (Event = None \/ attempt.stage \in {"description", "dave"})

TimesOut == attempt.stage # "idle" /\ TimedOut /\ Fails

\* receive_event on a closed websocket, or a payload the parser refuses.
ReceiveFails ==
  /\ attempt.stage # "idle"
  /\ IF Event = None THEN ~link[attempt.link].open ELSE Event.type = "Malformed"
  /\ Fails

\* The caller drops the connect or resume future.
Cancelled == attempt.stage # "idle" /\ Fails

----------------------------------------------------------------------------
(* expect_session_description. *)

\* The peers the gateway has announced, as a reader of the events knows them.
Peers(e) ==
  CASE e.type = "ClientsConnect" -> told.peers \cup {e.arg}
    [] e.type = "ClientDisconnect" -> told.peers \ {e.arg}
    [] OTHER -> told.peers
Heard == told' = [told EXCEPT !.peers = Peers(Event), !.seq = Taken.seq]

\* What the active participant starts the DAVE join with.
Recognized(known) == known \cup {Self}

\* send_pending_join_key_package: at most one for a pending join.
KeyPackage(j) == [j EXCEPT !.key = TRUE]

\* is_benign_pre_session_description_event, and the arms before it.
Tolerated(e) ==
  e.type \in {"ClientsConnect", "Benign"} \/ (e.type = "ClientDisconnect" /\ e.arg # Self)

Description ==
  /\ attempt.stage = "description" /\ Event # None
  /\ LET e == Event
     IN  \/ /\ Tolerated(e)
            /\ join' = [join EXCEPT !.recognized =
                 CASE e.type = "ClientsConnect" -> @ \cup {e.arg}
                   [] e.type = "ClientDisconnect" -> @ \ {e.arg}
                   [] OTHER -> @]
            /\ link' = [link EXCEPT ![attempt.link] = Taken]
            /\ Heard /\ Stay /\ UNCHANGED <<session, served>>
         \/ e.type = "Description" /\ Heard /\ Connects(None) /\ UNCHANGED served
         \/ /\ e.type = "DaveDescription"
            /\ \E ok \in Sent(attempt.link) :
                 IF ok
                 THEN /\ Enter("dave")
                      /\ join' = KeyPackage([join EXCEPT !.session = TRUE,
                                               !.recognized = Recognized(@)])
                      /\ link' = [link EXCEPT ![attempt.link] = Taken]
                      /\ told' = [told EXCEPT !.keys = @ + 1, !.seq = Taken.seq]
                      /\ UNCHANGED <<session, served>>
                 ELSE Fails
         \/ /\ ~Tolerated(e) /\ e.type \notin {"Description", "DaveDescription"}
            /\ Fails

----------------------------------------------------------------------------
(* complete_active_dave_transition. *)

Dave(j, runtime, welcomed, localInit) ==
  [runtime |-> runtime, welcomed |-> welcomed, localInit |-> localInit,
   recognized |-> j.recognized]

\* The loop goes on with these locals.
Continue(j) ==
  /\ join' = j /\ link' = [link EXCEPT ![attempt.link] = Taken]
  /\ Stay /\ UNCHANGED <<session, served>>

\* The wait ran into the self-only deadline: the session stays pending.
GraceEnds ==
  /\ attempt.stage = "dave" /\ join.grace /\ Event = None
  /\ attempt' = Idle /\ join' = None
  /\ session' = Session(attempt.link, Dave(join, None, {}, FALSE))
  /\ link' = [link EXCEPT ![attempt.link] = Kept(@)]
  /\ UNCHANGED <<told, served>>

ExecutesAny(e) == join.pending # None
Executes(e) == join.pending # None /\ join.pending.id = e.arg

Execute(e) ==
  /\ e.type = "Execute" /\ Heard
  /\ IF Executes(e)
     THEN /\ Connects(Dave(join, join.pending.id,
                           IF join.pending.welcome THEN {join.pending.id} ELSE {}, FALSE))
          /\ UNCHANGED served
     ELSE Continue(join)

\* Once a transition is announced ready, nothing but its execution is read.
Waiting(e) ==
  /\ e.type \notin {"Execute", "Malformed"} /\ join.pending # None
  /\ Heard /\ Continue(join)

Peer(e) ==
  /\ e.type = "ClientsConnect" /\ Heard
  /\ Continue([join EXCEPT !.recognized = @ \cup {e.arg}])

ExternalSender(e) ==
  /\ e.type = "ExternalSender"
  /\ \/ Fails
     \/ Heard /\ Continue([join EXCEPT !.grace = TRUE])

Prepared(prepared, id) == prepared \cup ({id} \ {None})

\* A wrong version or an empty epoch fails the join.
PrepareEpoch(e) ==
  /\ e.type = "PrepareEpoch"
  /\ \/ Fails
     \/ /\ join.key \/ TRUE \in Sent(attempt.link)
        /\ told' = [told EXCEPT !.keys = IF join.key THEN @ ELSE @ + 1, !.seq = Taken.seq]
        /\ Continue(KeyPackage([join EXCEPT !.grace = FALSE,
                                            !.prepared = Prepared(@, e.arg)]))

\* What MLS makes of accepted proposals: a revocation may leave nothing to commit.
ProcessInitialProposals(e) == IF e.type = "Revoke" THEN {"nothing", "commit"} ELSE {"commit"}

\* Our own commit goes out, is applied, and founds the group as transition 0.
LocalCreator ==
  /\ told' = [told EXCEPT !.commit = TRUE, !.seq = Taken.seq]
  /\ Connects(Dave(join, 0, {}, TRUE)) /\ UNCHANGED served

Proposals(e) ==
  /\ e.type \in {"Append", "Revoke"}
  /\ \/ Fails
     \/ /\ join.key
        /\ \E outcome \in ProcessInitialProposals(e) :
             IF outcome = "nothing" THEN Heard /\ Continue(join) ELSE LocalCreator

\* A commit or welcome is taken when its transition was prepared, or when the
\* key package is out and nothing is prepared.
Announced(e) == e.arg \in join.prepared \/ (join.key /\ join.prepared = {})

\* The session becomes the runtime of a transition that waits for its execution.
Pends(j, e) ==
  [j EXCEPT !.session = FALSE, !.key = FALSE, !.prepared = {}, !.grace = FALSE,
            !.pending = [id |-> e.arg, welcome |-> e.type = "Welcome"]]

\* send_dave_transition_ready, for every transition but the initial one.
AnnouncesReadyAlways(e) == TRUE
AnnouncesReady(e) == e.arg # 0

Joins(e) ==
  /\ e.type \in {"Commit", "Welcome"}
  /\ \/ Fails
     \/ /\ Announced(e)
        /\ told' = [told EXCEPT !.ready = IF AnnouncesReady(e) THEN Append(@, e.arg) ELSE @,
                                !.seq = Taken.seq]
        /\ IF e.arg = 0
           THEN Connects(Dave(join, 0, {}, FALSE)) /\ UNCHANGED served
           ELSE Continue(Pends(join, e))

\* ClientDisconnect included: a peer that left stays recognized.
Ignored(e) ==
  /\ e.type \in {"ClientDisconnect", "Benign"}
  /\ Heard /\ Continue(join)

DaveEvent ==
  /\ attempt.stage = "dave" /\ Event # None
  /\ LET e == Event
     IN  \/ Execute(e)
         \/ Waiting(e)
         \/ /\ join.pending = None
            /\ \/ Peer(e) \/ ExternalSender(e) \/ PrepareEpoch(e)
               \/ Proposals(e) \/ Joins(e) \/ Ignored(e)

----------------------------------------------------------------------------
(* The connection in its session. *)

Open == attempt.stage = "idle" /\ session # None

\* An event read while media is sent (DaveTransitions has what it does).
SessionReceives ==
  /\ Open /\ session.gateway # None /\ ~session.receiveClosed
  /\ LET l == session.gateway
     IN  /\ link[l].inbox # None /\ link[l].inbox.type # "Malformed"
         /\ link' = [link EXCEPT ![l] = Received(@)]
         /\ told' = [told EXCEPT !.seq = Received(link[l]).seq]
  /\ \E speaking \in {session.speaking, TRUE} :
       session' = [session EXCEPT !.speaking = speaking]
  /\ UNCHANGED <<attempt, join, served>>

\* mark_gateway_receive_closed: media goes on without the gateway.
SessionFindsClosed ==
  /\ Open /\ session.gateway # None /\ ~session.receiveClosed /\ session.speaking
  /\ link[session.gateway].inbox = None /\ ~link[session.gateway].open
  /\ link' = [link EXCEPT ![session.gateway] = ShutDown(@)]
  /\ session' = [session EXCEPT !.receiveClosed = TRUE]
  /\ UNCHANGED <<attempt, join, told, served>>

\* suspend_media: the sequence number is read before the gateway is given up;
\* a failing speaking update or close returns early.
Suspended(s) == [s EXCEPT !.suspendedSeq = SeqAck, !.gateway = None]

Suspend ==
  /\ Open
  /\ session.speaking => session.gateway # None /\ TRUE \in Sent(session.gateway)
  /\ \E closed \in IF session.gateway = None THEN {TRUE} ELSE Sent(session.gateway) :
       session' = IF closed
                  THEN [Suspended(session) EXCEPT !.receiveClosed = TRUE, !.speaking = FALSE]
                  ELSE [Suspended(session) EXCEPT !.speaking = FALSE]
  /\ link' = IF session.gateway = None THEN link
             ELSE [link EXCEPT ![session.gateway] = Dropped([@ EXCEPT !.open = FALSE])]
  /\ UNCHANGED <<attempt, join, told, served>>

\* resume_gateway_after_close.
Resume ==
  /\ Open /\ session.media /\ (session.receiveClosed \/ session.gateway = None)
  /\ \E l \in FreshLinks :
       /\ \A m \in FreshLinks : l <= m
       /\ link' = [[k \in Links |-> IF k = session.gateway THEN ShutDown(link[k]) ELSE link[k]]
                     EXCEPT ![l] = WebSocket]
       /\ attempt' = [stage |-> "hello", link |-> l, elapsed |-> FALSE]
  /\ UNCHANGED <<join, session, told, served>>

Drop ==
  /\ Open
  /\ session' = None /\ told' = NothingTold
  /\ link' = [l \in Links |-> IF l = session.gateway THEN Dropped(link[l]) ELSE link[l]]
  /\ UNCHANGED <<attempt, join, served>>

----------------------------------------------------------------------------
Step == Hello \/ Ready \/ Resumed \/ Description \/ DaveEvent \/ TimesOut \/ ReceiveFails

Next ==
  \/ Connect \/ Step \/ GraceEnds \/ Cancelled \/ Tick
  \/ SessionReceives \/ SessionFindsClosed \/ Suspend \/ Resume \/ Drop
  \/ \E l \in Links :
       \/ HeartbeatStops(l) \/ GatewayCloses(l)
       \/ \E e \in Events, sequenced \in BOOLEAN : GatewaySends(l, e, sequenced)

Spec ==
  /\ Init /\ [][Next]_vars
  /\ WF_vars(Step) /\ WF_vars(TimesOut) /\ WF_vars(Tick)
  /\ \A l \in Links : WF_vars(HeartbeatStops(l))
----------------------------------------------------------------------------
(* Properties. *)

\* The attempt, the links, the join, the session and what was said hold values
\* of their types; a transition that waits for its execution is never the
\* initial one.
TypeOK ==
  /\ attempt \in [stage : Stages, link : Links \cup {None}, elapsed : BOOLEAN]
  /\ link \in [Links -> WebSockets]
  /\ join \in JoinStates \cup {None}
  /\ session \in Sessions \cup {None}
  /\ told \in [keys : Nat, ready : Seq(Ids), commit : BOOLEAN, peers : SUBSET Users,
               seq : SeqNumbers]
  /\ served \in 0..MaxSeq

\* However often an epoch is prepared, and whatever else the gateway sends, one
\* connect sends one key package: send_pending_join_key_package skips the rest.
OneKeyPackage == told.keys <= 1

\* The DAVE session is in the loop exactly until a commit or a welcome turns it
\* into a runtime, and the self-only deadline is gone by then: the error "voice
\* dave session already moved to runtime" is never reached.
SessionMovedOnce ==
  attempt.stage = "dave" =>
    /\ join.session <=> join.pending = None
    /\ join.grace => join.session
    /\ join.session => join.key

\* The gateway hears "ready" once and only for the transition the session then
\* runs, never for the initial one; transition 0 is recorded as our own commit
\* exactly when we sent that commit, and only an executed welcome as welcomed.
ReadyMatchesRuntime ==
  /\ join # None => told.ready = IF join.pending = None THEN <<>> ELSE <<join.pending.id>>
  /\ attempt.stage = "idle" /\ session # None /\ session.dave # None =>
       LET d == session.dave
       IN  /\ told.ready = IF d.runtime \in {None, 0} THEN <<>> ELSE <<d.runtime>>
           /\ d.localInit <=> told.commit
           /\ d.welcomed \subseteq {d.runtime} \ {0}

\* A runtime of a numbered transition is adopted by the gateway's execution of
\* that very transition and by nothing else.
AdoptedOnExecute ==
  [][session = None /\ session' # None =>
       \/ session'.dave = None
       \/ session'.dave.runtime \in {None, 0}
       \/ /\ link[attempt.link].inbox # None
          /\ link[attempt.link].inbox.type = "Execute"
          /\ link[attempt.link].inbox.arg = session'.dave.runtime]_vars

\* Whoever the gateway has announced since the handshake began, and has not
\* taken back, is recognized whenever MLS material is processed.  (Announced
\* while the join waits for an execution, a peer is not: see the hazards.)
PeersRecognized ==
  attempt.stage \in {"description", "dave"} /\ join.pending = None =>
    told.peers \cup {Self} \subseteq join.recognized

\* A resume acknowledges the last sequence number the session has read, across
\* suspensions, failed resumes and the links in between.
ResumeAcksLast == attempt.stage = "resuming" => link[attempt.link].seq = told.seq

\* While a session has a gateway it has not found closed, that gateway's
\* heartbeats go on; so do those of the handshake in progress.
HeartbeatKept ==
  /\ attempt.stage \in {"ready", "resuming", "description", "dave"}
       /\ link[attempt.link].open => link[attempt.link].heart = "running"
  /\ session # None /\ session.gateway # None /\ ~session.receiveClosed =>
       (link[session.gateway].open => link[session.gateway].heart = "running")

\* The call in progress, the link it has, the session it was started for and
\* what was said so far go together.  A resume runs beside a session that has
\* given its gateway up, on a link of its own; a join's locals exist from the
\* ready to the last event of the description or of the DAVE loop.
StageInv ==
  /\ attempt.stage = "idle" <=> attempt.link = None
  /\ join \in IF attempt.stage \in {"description", "dave"} THEN JoinStates ELSE {None}
  /\ attempt.stage \in {"ready", "description", "dave"} => session = None
  /\ attempt.stage = "resuming" => session # None
  /\ attempt.stage # "idle" /\ session # None =>
       /\ session.receiveClosed \/ session.gateway = None
       /\ attempt.link # session.gateway
  /\ attempt.stage \in {"idle", "hello", "ready"} /\ session = None => told = NothingTold
  /\ attempt.stage = "description" =>
       told.keys = 0 /\ ~told.commit /\ ~join.session /\ ~join.grace /\ join.pending = None
  /\ attempt.stage = "dave" => told.keys = 1 /\ ~told.commit
  /\ attempt.stage \in {"description", "dave"} =>
       told.ready = IF join.pending = None THEN <<>> ELSE <<join.pending.id>>

\* The sequence number a resume would acknowledge is the last one read, wherever
\* it is kept: in the session's link, in the session, or in the DAVE loop's link.
SeqInv ==
  /\ session # None => SeqAck = told.seq
  /\ attempt.stage = "dave" => link[attempt.link].seq = told.seq

\* A link that a handshake past its hello, or a session, relies on has a
\* heartbeat task that nobody has been told to stop.
HeldInv ==
  /\ attempt.stage \in {"ready", "resuming", "description", "dave"} => link[attempt.link].held
  /\ session # None /\ session.gateway # None /\ ~session.receiveClosed =>
       link[session.gateway].held

\* What the session runs is what was said, also while it resumes its gateway.
DaveTold ==
  session # None /\ session.dave # None =>
    LET d == session.dave
    IN  /\ told.ready = IF d.runtime \in {None, 0} THEN <<>> ELSE <<d.runtime>>
        /\ d.localInit <=> told.commit
        /\ d.welcomed \subseteq {d.runtime} \ {0}

\* The properties of a state of the connection, strengthened until every step
\* preserves them.
ConnectInv ==
  /\ TypeOK /\ StageInv /\ OneKeyPackage /\ SessionMovedOnce /\ ReadyMatchesRuntime
  /\ DaveTold /\ PeersRecognized /\ SeqInv /\ ResumeAcksLast /\ HeldInv /\ HeartbeatKept

\* A heartbeat task ends once neither a session nor a handshake has its link:
\* a failed, cancelled, resumed or dropped connection leaves none behind.
HeartbeatsEnd ==
  \A l \in Links : (link[l].heart = "running" /\ l \notin InUse) ~> link[l].heart = "stopped"

\* Every connect and every resume returns, however many events the gateway
\* keeps sending that decide nothing.
AttemptsReturn == attempt.stage # "idle" ~> attempt.stage = "idle"
=============================================================================
