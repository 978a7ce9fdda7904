------------------------- MODULE VoiceConnectProofs -------------------------
(***************************************************************************)
(* Proofs about VoiceConnect: ConnectInv is inductive, for every set of    *)
(* users and transition ids and every number of websockets and events.     *)
(***************************************************************************)
EXTENDS VoiceConnect, TLAPS

USE DEF SeqNumbers

-----------------------------------------------------------------------------
(* Facts about the operators. *)

\* An event in a link is one of Events: its argument has the type the handlers
\* read it with.
LEMMA MessageFacts ==
  ASSUME NEW i \in Messages
  PROVE  /\ i.seq \in SeqNumbers
         /\ i.type \in {"ClientsConnect", "ClientDisconnect"} => i.arg \in Users
         /\ i.type = "PrepareEpoch" => i.arg \in Ids \cup {None}
         /\ i.type \in {"Execute", "Commit", "Welcome"} => i.arg \in Ids
<1>1. PICK e \in Events, q \in SeqNumbers : i = [type |-> e.type, arg |-> e.arg, seq |-> q]
  BY DEF Messages
<1>2. /\ e.type \in {"ClientsConnect", "ClientDisconnect"} => e.arg \in Users
      /\ e.type = "PrepareEpoch" => e.arg \in Ids \cup {None}
      /\ e.type \in {"Execute", "Commit", "Welcome"} => e.arg \in Ids
  BY DEF Events, TextEvents, BinaryEvents
<1>3. i.type = e.type /\ i.arg = e.arg /\ i.seq = q
  BY <1>1
<1> QED
  BY <1>2, <1>3

\* What the gateway sends is such an event.
LEMMA SentFacts ==
  ASSUME NEW e \in Events, NEW q \in SeqNumbers
  PROVE  [type |-> e.type, arg |-> e.arg, seq |-> q] \in Messages
<1> DEFINE m == [type |-> e.type, arg |-> e.arg, seq |-> q]
<1>1. \E f \in Events, r \in SeqNumbers : m = [type |-> f.type, arg |-> f.arg, seq |-> r]
  OBVIOUS
<1> HIDE DEF m, SeqNumbers
<1>2. m \in Messages
  BY <1>1, SMT DEF Messages
<1> QED
  BY <1>2 DEF m

\* What reading an event does to its link: the inbox is emptied, the sequence
\* number kept or taken over, the heartbeat left alone.
LEMMA ReceivedFacts ==
  ASSUME NEW w \in WebSockets, w.inbox # None
  PROVE  /\ Received(w) \in WebSockets
         /\ Received(w).inbox = None
         /\ Received(w).open = w.open /\ Received(w).heart = w.heart
         /\ Received(w).held = w.held
<1>1. w.inbox \in Messages
  BY DEF WebSockets
<1>2. w.inbox.seq \in SeqNumbers
  BY <1>1, MessageFacts
<1> QED
  BY ZenonT(60), <1>2 DEF Received, WebSockets

\* Giving a link up releases its heartbeat task; only that.
LEMMA DroppedFacts ==
  ASSUME NEW w \in WebSockets
  PROVE  /\ ShutDown(w) \in WebSockets /\ Dropped(w) \in WebSockets
         /\ ShutDown(w).seq = w.seq
         /\ SpawnHeartbeat(w) \in WebSockets
         /\ SpawnHeartbeat(w).held /\ SpawnHeartbeat(w).heart = "running"
         /\ SpawnHeartbeat(w).open = w.open /\ SpawnHeartbeat(w).seq = w.seq
BY ZenonT(60) DEF ShutDown, Dropped, SpawnHeartbeat, WebSockets

\* A websocket that was just opened, or never was, has the type of one.
LEMMA NewLinkFacts == WebSocket \in WebSockets /\ NoWebSocket \in WebSockets
BY ZenonT(60) DEF WebSocket, NoWebSocket, WebSockets

\* Nothing has been said in a session that does not exist.
LEMMA NothingToldFacts ==
  /\ NothingTold \in [keys : Nat, ready : Seq(Ids), commit : BOOLEAN, peers : SUBSET Users,
                      seq : SeqNumbers]
  /\ NothingTold.seq = None /\ NothingTold.keys = 0 /\ NothingTold.ready = <<>>
  /\ NothingTold.commit = FALSE /\ NothingTold.peers = {}
BY DEF NothingTold

\* The session an attempt ends with.
LEMMA SessionFacts ==
  ASSUME NEW l \in Links \cup {None}, NEW d \in DaveStates \cup {None}
  PROVE  /\ Session(l, d) \in Sessions
         /\ Session(l, d).gateway = l /\ Session(l, d).dave = d
         /\ Session(l, d).suspendedSeq = None /\ ~Session(l, d).receiveClosed
BY DEF Session, Sessions

-----------------------------------------------------------------------------
(* Ends of an attempt. *)

\* An attempt that fails gives its link up.  A session it was to resume is left
\* as it was; without one, nothing has been said.
LEMMA FailsKeeps ==
  ASSUME ConnectInv, attempt.stage # "idle", Fails
  PROVE  ConnectInv'
<1> USE DEF ConnectInv
<1>1. attempt.link \in Links
  BY DEF TypeOK, StageInv
<1>2. /\ attempt' = Idle /\ join' = None /\ session' = session /\ served' = served
      /\ link' = [link EXCEPT ![attempt.link] = Dropped(@)]
      /\ told' = IF session = None THEN NothingTold ELSE told
  BY DEF Fails
<1>3. TypeOK'
  BY <1>1, <1>2, DroppedFacts, NothingToldFacts DEF TypeOK, Idle, Stages
<1>4. attempt'.stage = "idle" /\ attempt'.link = None
  BY <1>2 DEF Idle
<1>5. session # None => session.receiveClosed \/ session.gateway = None
  BY DEF StageInv
<1>6. session # None => attempt.link # session.gateway
  BY DEF StageInv
<1>7. StageInv'
  BY <1>2, <1>4 DEF StageInv
<1>8. SessionMovedOnce' /\ PeersRecognized' /\ ResumeAcksLast'
  BY <1>4 DEF SessionMovedOnce, PeersRecognized, ResumeAcksLast
<1>9. DaveTold' /\ ReadyMatchesRuntime' /\ OneKeyPackage'
  BY <1>2, <1>4, NothingToldFacts DEF DaveTold, ReadyMatchesRuntime, OneKeyPackage
<1>10. SeqInv'
  BY <1>1, <1>2, <1>4, <1>6 DEF SeqInv, SeqAck, TypeOK, Sessions
<1>11. HeldInv' /\ HeartbeatKept'
  BY <1>2, <1>4, <1>5 DEF HeldInv, HeartbeatKept
<1> QED
  BY <1>3, <1>7, <1>8, <1>9, <1>10, <1>11

\* The types of what was said.
Told ==
  [keys : Nat, ready : Seq(Ids), commit : BOOLEAN, peers : SUBSET Users, seq : SeqNumbers]

\* An event of the description or of the DAVE loop that ends in a session: the
\* link becomes the session's, and what the session runs is what was said.
LEMMA ConnectsKeeps ==
  ASSUME ConnectInv, attempt.stage \in {"description", "dave"}, Event # None,
         NEW d \in DaveStates \cup {None}, Connects(d), served' = served,
         told' \in Told, told'.seq = Taken.seq, told'.keys <= 1,
         d # None => /\ told'.ready = IF d.runtime \in {None, 0} THEN <<>> ELSE <<d.runtime>>
                     /\ d.localInit <=> told'.commit
                     /\ d.welcomed \subseteq {d.runtime} \ {0}
  PROVE  ConnectInv'
<1> USE DEF ConnectInv
<1>1. attempt.link \in Links /\ link[attempt.link] \in WebSockets
  BY DEF TypeOK, StageInv
<1>2. /\ attempt' = Idle /\ join' = None /\ session' = Session(attempt.link, d)
      /\ link' = [link EXCEPT ![attempt.link] = Taken]
  BY DEF Connects, Kept
<1>3. /\ Taken \in WebSockets /\ Taken.held
      /\ Taken.open => Taken.heart = "running"
  BY <1>1, ReceivedFacts DEF Taken, Event, HeldInv, HeartbeatKept
<1>4. /\ session' \in Sessions /\ session'.gateway = attempt.link /\ session'.dave = d
      /\ session' # None
  BY <1>1, <1>2, SessionFacts, NoneAssumption
<1>5. link' \in [Links -> WebSockets] /\ link'[attempt.link] = Taken
  BY <1>1, <1>2, <1>3 DEF TypeOK
<1>6. attempt'.stage = "idle" /\ attempt'.link = None
  BY <1>2 DEF Idle
<1>7. TypeOK'
  BY <1>2, <1>4, <1>5 DEF TypeOK, Told, Idle, Stages
<1>8. StageInv'
  BY <1>2, <1>4, <1>6 DEF StageInv
<1>9. SessionMovedOnce' /\ PeersRecognized' /\ ResumeAcksLast'
  BY <1>6 DEF SessionMovedOnce, PeersRecognized, ResumeAcksLast
<1>10. DaveTold' /\ ReadyMatchesRuntime' /\ OneKeyPackage'
  BY <1>2, <1>4, <1>6 DEF DaveTold, ReadyMatchesRuntime, OneKeyPackage
<1>11. attempt.link # None
  BY <1>1, NoneAssumption DEF Links
<1>12. SeqInv'
  BY <1>4, <1>5, <1>6, <1>11 DEF SeqInv, SeqAck
<1>13. HeldInv' /\ HeartbeatKept'
  BY <1>3, <1>4, <1>5, <1>6 DEF HeldInv, HeartbeatKept
<1> QED
  BY <1>7, <1>8, <1>9, <1>10, <1>12, <1>13

-----------------------------------------------------------------------------
(* The DAVE loop. *)

\* The loop goes on with locals j and with what has been said by then.
LEMMA ContinueKeeps ==
  ASSUME ConnectInv, attempt.stage = "dave", Event # None,
         NEW j \in JoinStates, Continue(j),
         told' \in Told, told'.seq = Taken.seq, told'.keys = 1, ~told'.commit,
         told'.ready = IF j.pending = None THEN <<>> ELSE <<j.pending.id>>,
         j.session <=> j.pending = None, j.grace => j.session, j.session => j.key,
         j.pending = None => told'.peers \cup {Self} \subseteq j.recognized
  PROVE  ConnectInv'
<1> USE DEF ConnectInv
<1>1. attempt.link \in Links /\ link[attempt.link] \in WebSockets
  BY DEF TypeOK, StageInv
<1>2. /\ join' = j /\ link' = [link EXCEPT ![attempt.link] = Taken]
      /\ attempt' = attempt /\ session' = session /\ served' = served
  BY DEF Continue, Stay
<1>3. /\ Taken \in WebSockets /\ Taken.held
      /\ Taken.open => Taken.heart = "running"
  BY <1>1, ReceivedFacts DEF Taken, Event, HeldInv, HeartbeatKept
<1>4. session = None
  BY DEF StageInv
<1>5. link' \in [Links -> WebSockets] /\ link'[attempt.link] = Taken
  BY <1>1, <1>2, <1>3 DEF TypeOK
<1>6. TypeOK'
  BY <1>2, <1>5 DEF TypeOK, Told
<1>8. StageInv'
  BY <1>2, <1>4 DEF StageInv
<1>9. SessionMovedOnce' /\ PeersRecognized' /\ ResumeAcksLast'
  BY <1>2 DEF SessionMovedOnce, PeersRecognized, ResumeAcksLast
<1>10. DaveTold' /\ ReadyMatchesRuntime' /\ OneKeyPackage'
  BY <1>2, <1>4 DEF DaveTold, ReadyMatchesRuntime, OneKeyPackage
<1>11. SeqInv'
  BY <1>2, <1>4, <1>5 DEF SeqInv
<1>12. HeldInv' /\ HeartbeatKept'
  BY <1>2, <1>3, <1>4, <1>5 DEF HeldInv, HeartbeatKept
<1> QED
  BY <1>6, <1>8, <1>9, <1>10, <1>11, <1>12

\* What is known of the loop when it looks at an event.
LEMMA LoopFacts ==
  ASSUME ConnectInv, attempt.stage \in {"description", "dave"}, Event # None
  PROVE  /\ Event \in Messages /\ join \in JoinStates /\ session = None
         /\ told \in Told /\ Taken.seq \in SeqNumbers
<1>1. attempt.link \in Links /\ link[attempt.link] \in WebSockets
  BY DEF ConnectInv, TypeOK, StageInv
<1>2. Event \in Messages
  BY <1>1 DEF Event, WebSockets
<1>3. Taken \in WebSockets
  BY <1>1, ReceivedFacts DEF Taken, Event
<1> QED
  BY <1>2, <1>3 DEF ConnectInv, TypeOK, StageInv, Told, WebSockets

\* Heard records the peers and the sequence number, and nothing else.
LEMMA HeardFacts ==
  ASSUME ConnectInv, attempt.stage \in {"description", "dave"}, Event # None, Heard
  PROVE  /\ told' \in Told /\ told'.seq = Taken.seq /\ told'.keys = told.keys
         /\ told'.commit = told.commit /\ told'.ready = told.ready
         /\ told'.peers = Peers(Event)
<1>1. /\ Event \in Messages /\ told \in Told /\ Taken.seq \in SeqNumbers
  BY LoopFacts
<1>2. Peers(Event) \in SUBSET Users
  BY <1>1, MessageFacts DEF Peers, Told
<1> QED
  BY ZenonT(60), <1>1, <1>2 DEF Heard, Told

\* The loop's locals and what was said, before an event.
LEMMA DaveLoopFacts ==
  ASSUME ConnectInv, attempt.stage = "dave"
  PROVE  /\ told.keys = 1 /\ ~told.commit
         /\ told.ready = IF join.pending = None THEN <<>> ELSE <<join.pending.id>>
         /\ join.session <=> join.pending = None
         /\ join.grace => join.session
         /\ join.session => join.key
         /\ join.pending = None => told.peers \cup {Self} \subseteq join.recognized
<1>1. told.keys = 1 /\ ~told.commit
  BY DEF ConnectInv, StageInv
<1>2. /\ join.session <=> join.pending = None
      /\ join.grace => join.session
      /\ join.session => join.key
  BY DEF ConnectInv, SessionMovedOnce
<1>3. join.pending = None => told.peers \cup {Self} \subseteq join.recognized
  BY DEF ConnectInv, PeersRecognized
<1>4. told.ready = IF join.pending = None THEN <<>> ELSE <<join.pending.id>>
  BY DEF ConnectInv, StageInv
<1> QED
  BY <1>1, <1>2, <1>3, <1>4

\* DaveExecuteTransition: the pending transition is adopted, any other id is
\* passed over.
LEMMA ExecuteKeeps ==
  ASSUME ConnectInv, attempt.stage = "dave", Event # None, Execute(Event)
  PROVE  ConnectInv'
<1>1. /\ join \in JoinStates /\ Heard
  BY LoopFacts DEF Execute
<1>2. /\ told' \in Told /\ told'.seq = Taken.seq /\ told'.keys = 1 /\ ~told'.commit
      /\ told'.ready = IF join.pending = None THEN <<>> ELSE <<join.pending.id>>
      /\ told'.peers = Peers(Event)
  BY <1>1, HeardFacts, DaveLoopFacts
<1>3. CASE Executes(Event)
  <2> DEFINE id == join.pending.id
             welcomed == IF join.pending.welcome THEN {id} ELSE {}
             d == Dave(join, id, welcomed, FALSE)
  <2>1. id \in Ids \ {0} /\ join.pending # None
    BY <1>1, <1>3 DEF Executes, JoinStates, PendingTransitions
  <2>2. /\ d \in DaveStates /\ d.runtime = id /\ d.welcomed = welcomed /\ d.localInit = FALSE
    <3>1. id \in Ids \cup {None} /\ welcomed \in SUBSET Ids /\ FALSE \in BOOLEAN
      BY <2>1
    <3> HIDE DEF id, welcomed
    <3> QED
      BY <1>1, <3>1 DEF d, Dave, DaveStates, JoinStates
  <2>3. Connects(d) /\ served' = served
    BY ZenonT(60), <1>3 DEF Execute
  <2>4. id \notin {None, 0} /\ welcomed \subseteq {id} \ {0}
    BY ZenonT(60), <2>1, NoneAssumption, ConnectAssumption
  <2>5. /\ told'.ready = IF d.runtime \in {None, 0} THEN <<>> ELSE <<d.runtime>>
        /\ d.localInit <=> told'.commit
        /\ d.welcomed \subseteq {d.runtime} \ {0}
    BY ZenonT(60), <1>2, <2>1, <2>2, <2>4
  <2> HIDE DEF d
  <2> QED
    BY <1>2, <2>2, <2>3, <2>5, ConnectsKeeps
<1>4. CASE ~Executes(Event)
  <2>1. Continue(join)
    BY <1>4 DEF Execute
  <2>2. Peers(Event) = told.peers
    BY DEF Execute, Peers
  <2> QED
    BY <1>1, <1>2, <2>1, <2>2, ContinueKeeps, DaveLoopFacts
<1> QED
  BY <1>3, <1>4

\* Other events while a transition waits, and those the loop passes over.
LEMMA PassedOverKeeps ==
  ASSUME ConnectInv, attempt.stage = "dave", Event # None,
         Waiting(Event) \/ (join.pending = None /\ Ignored(Event))
  PROVE  ConnectInv'
<1>1. /\ join \in JoinStates /\ Heard /\ Continue(join)
  BY LoopFacts DEF Waiting, Ignored
<1>2. /\ told' \in Told /\ told'.seq = Taken.seq /\ told'.keys = 1 /\ ~told'.commit
      /\ told'.ready = IF join.pending = None THEN <<>> ELSE <<join.pending.id>>
      /\ told'.peers = Peers(Event)
  BY <1>1, HeardFacts, DaveLoopFacts
<1>3. join.pending = None => Peers(Event) \subseteq told.peers
  BY DEF Waiting, Ignored, Peers
<1> QED
  BY <1>1, <1>2, <1>3, ContinueKeeps, DaveLoopFacts

\* ClientsConnect and the external sender.
LEMMA PeerKeeps ==
  ASSUME ConnectInv, attempt.stage = "dave", Event # None, join.pending = None,
         Peer(Event) \/ ExternalSender(Event)
  PROVE  ConnectInv'
<1>1. /\ join \in JoinStates /\ Event \in Messages
  BY LoopFacts
<1>2. CASE Fails
  BY <1>2, FailsKeeps
<1>3. ASSUME NEW j \in JoinStates, Heard, Continue(j), j.pending = None,
             j.session = join.session, j.key = join.key,
             Peers(Event) \cup {Self} \subseteq j.recognized
      PROVE  ConnectInv'
  <2>1. /\ told' \in Told /\ told'.seq = Taken.seq /\ told'.keys = 1 /\ ~told'.commit
        /\ told'.ready = <<>> /\ told'.peers = Peers(Event)
    BY <1>3, HeardFacts, DaveLoopFacts
  <2>2. j.session /\ j.key
    BY <1>3, DaveLoopFacts
  <2> QED
    BY <1>3, <2>1, <2>2, ContinueKeeps
<1>4. CASE Peer(Event)
  <2> DEFINE j == [join EXCEPT !.recognized = @ \cup {Event.arg}]
  <2>1. Event.type = "ClientsConnect" /\ Event.arg \in Users
    BY <1>1, <1>4, MessageFacts DEF Peer
  <2>2. /\ j \in JoinStates /\ j.pending = None /\ j.session = join.session
        /\ j.key = join.key /\ j.recognized = join.recognized \cup {Event.arg}
    BY <1>1, <2>1 DEF JoinStates
  <2>3. Peers(Event) = told.peers \cup {Event.arg}
    BY <2>1 DEF Peers
  <2>4. Peers(Event) \cup {Self} \subseteq j.recognized
    BY <2>2, <2>3, DaveLoopFacts
  <2>5. Heard /\ Continue(j)
    BY <1>4 DEF Peer
  <2> HIDE DEF j
  <2> QED
    BY <1>3, <2>2, <2>4, <2>5
<1>5. CASE Event.type = "ExternalSender" /\ Heard /\ Continue([join EXCEPT !.grace = TRUE])
  <2> DEFINE j == [join EXCEPT !.grace = TRUE]
  <2>1. /\ j \in JoinStates /\ j.pending = None /\ j.session = join.session
        /\ j.key = join.key /\ j.recognized = join.recognized
    BY ZenonT(60), <1>1 DEF JoinStates
  <2>2. Peers(Event) = told.peers
    BY <1>5 DEF Peers
  <2>3. Peers(Event) \cup {Self} \subseteq j.recognized
    BY <2>1, <2>2, DaveLoopFacts
  <2>4. Heard /\ Continue(j)
    BY <1>5
  <2> HIDE DEF j
  <2> QED
    BY <1>3, <2>1, <2>3, <2>4
<1> QED
  BY <1>2, <1>4, <1>5 DEF ExternalSender

\* DavePrepareEpoch: the key package was sent with the description, so none is
\* sent again.
LEMMA PrepareEpochKeeps ==
  ASSUME ConnectInv, attempt.stage = "dave", Event # None, join.pending = None,
         PrepareEpoch(Event)
  PROVE  ConnectInv'
<1>1. CASE Fails
  BY <1>1, FailsKeeps
<1>2. CASE ~Fails
  <2> DEFINE j == KeyPackage([join EXCEPT !.grace = FALSE,
                                          !.prepared = Prepared(@, Event.arg)])
  <2>1. /\ join \in JoinStates /\ Event \in Messages /\ told \in Told
        /\ Taken.seq \in SeqNumbers
    BY LoopFacts
  <2>2. join.session /\ join.key
    BY DaveLoopFacts
  <2>3. /\ told' = [told EXCEPT !.keys = IF join.key THEN @ ELSE @ + 1, !.seq = Taken.seq]
        /\ Continue(j) /\ Event.type = "PrepareEpoch"
    BY ZenonT(60), <1>2 DEF PrepareEpoch
  <2>4. Prepared(join.prepared, Event.arg) \in SUBSET Ids
    BY <2>1, <2>3, MessageFacts DEF Prepared, JoinStates
  <2>5. /\ j \in JoinStates /\ j.pending = None /\ j.session = join.session /\ ~j.grace
        /\ j.key /\ j.recognized = join.recognized
    BY ZenonT(60), <2>1, <2>4 DEF KeyPackage, JoinStates
  <2>6. /\ told' \in Told /\ told'.seq = Taken.seq /\ told'.keys = told.keys
        /\ told'.commit = told.commit /\ told'.ready = told.ready
        /\ told'.peers = told.peers
    BY ZenonT(60), <2>1, <2>2, <2>3 DEF Told
  <2> HIDE DEF j
  <2> QED
    BY ZenonT(60), <2>2, <2>3, <2>5, <2>6, ContinueKeeps, DaveLoopFacts
<1> QED
  BY <1>1, <1>2

\* DaveMlsProposals: our own commit founds the group as transition 0.
LEMMA ProposalsKeeps ==
  ASSUME ConnectInv, attempt.stage = "dave", Event # None, join.pending = None,
         Proposals(Event)
  PROVE  ConnectInv'
<1>1. /\ join \in JoinStates /\ told \in Told /\ Taken.seq \in SeqNumbers
  BY LoopFacts
<1>2. CASE Fails
  BY <1>2, FailsKeeps
<1>3. CASE Event.type \in {"Append", "Revoke"} /\ Heard /\ Continue(join)
  <2>1. /\ told' \in Told /\ told'.seq = Taken.seq /\ told'.keys = 1 /\ ~told'.commit
        /\ told'.ready = IF join.pending = None THEN <<>> ELSE <<join.pending.id>>
        /\ told'.peers = Peers(Event)
    BY <1>3, HeardFacts, DaveLoopFacts
  <2>2. Peers(Event) = told.peers
    BY <1>3 DEF Peers
  <2> QED
    BY <1>1, <1>3, <2>1, <2>2, ContinueKeeps, DaveLoopFacts
<1>4. CASE LocalCreator
  <2> DEFINE d == Dave(join, 0, {}, TRUE)
  <2>1. /\ told' = [told EXCEPT !.commit = TRUE, !.seq = Taken.seq]
        /\ Connects(d) /\ served' = served
    BY ZenonT(60), <1>4 DEF LocalCreator
  <2>2. 0 \in Ids \cup {None} /\ {} \in SUBSET Ids /\ TRUE \in BOOLEAN
    BY ConnectAssumption
  <2>3. d \in DaveStates /\ d.runtime = 0 /\ d.welcomed = {} /\ d.localInit = TRUE
    BY <1>1, <2>2 DEF Dave, DaveStates, JoinStates
  <2>4. /\ told' \in Told /\ told'.seq = Taken.seq /\ told'.keys = told.keys
        /\ told'.commit = TRUE /\ told'.ready = told.ready
    BY ZenonT(60), <1>1, <2>1 DEF Told
  <2>5. told.ready = <<>> /\ told.keys = 1
    BY DaveLoopFacts
  <2>6. /\ told'.ready = IF d.runtime \in {None, 0} THEN <<>> ELSE <<d.runtime>>
        /\ d.localInit <=> told'.commit
        /\ d.welcomed \subseteq {d.runtime} \ {0}
    BY <2>3, <2>4, <2>5, Zenon
  <2>7. told'.keys <= 1
    BY <2>4, <2>5
  <2> HIDE DEF d
  <2> QED
    BY ZenonT(60), <2>1, <2>3, <2>4, <2>6, <2>7, ConnectsKeeps
<1> QED
  BY <1>2, <1>3, <1>4 DEF Proposals

\* A commit or a welcome that MLS accepts: the initial transition is in use at
\* once, any other is announced ready and waits.
LEMMA JoinsKeeps ==
  ASSUME ConnectInv, attempt.stage = "dave", Event # None, join.pending = None,
         Joins(Event)
  PROVE  ConnectInv'
<1>1. CASE Fails
  BY <1>1, FailsKeeps
<1>2. CASE ~Fails
  <2>1. /\ join \in JoinStates /\ told \in Told /\ Taken.seq \in SeqNumbers
        /\ Event \in Messages
    BY LoopFacts
  <2>2. told.ready = <<>> /\ told.keys = 1 /\ ~told.commit
    BY DaveLoopFacts
  <2>3. Event.type \in {"Commit", "Welcome"} /\ Event.arg \in Ids
    BY <2>1, MessageFacts DEF Joins
  <2>4. told' = [told EXCEPT !.ready = IF AnnouncesReady(Event) THEN Append(@, Event.arg) ELSE @,
                             !.seq = Taken.seq]
    BY ZenonT(60), <1>2 DEF Joins
  <2>5. CASE Event.arg = 0
    <3> DEFINE d == Dave(join, 0, {}, FALSE)
    <3>1. Connects(d) /\ served' = served
      BY ZenonT(60), <1>2, <2>5 DEF Joins
    <3>2. 0 \in Ids \cup {None} /\ {} \in SUBSET Ids /\ FALSE \in BOOLEAN
      BY ConnectAssumption
    <3>3. d \in DaveStates /\ d.runtime = 0 /\ d.welcomed = {} /\ d.localInit = FALSE
      BY <2>1, <3>2 DEF Dave, DaveStates, JoinStates
    <3>4. /\ told' \in Told /\ told'.seq = Taken.seq /\ told'.keys = told.keys
          /\ told'.commit = told.commit /\ told'.ready = told.ready
      BY ZenonT(60), <2>1, <2>4, <2>5 DEF Told, AnnouncesReady
    <3> HIDE DEF d
    <3> QED
      BY <2>2, <3>1, <3>3, <3>4, ConnectsKeeps
  <2>6. CASE Event.arg # 0
    <3> DEFINE j == Pends(join, Event)
               welcome == Event.type = "Welcome"
               pending == [id |-> Event.arg, welcome |-> welcome]
    <3>1. Continue(j)
      BY <1>2, <2>6 DEF Joins
    <3>2. pending \in PendingTransitions /\ pending # None /\ pending.id = Event.arg
      <4>1. welcome \in BOOLEAN /\ Event.arg \in Ids \ {0}
        BY <2>3, <2>6, Zenon
      <4> HIDE DEF welcome
      <4> QED
        BY <4>1, NoneAssumption DEF PendingTransitions
    <3>3. j = [join EXCEPT !.session = FALSE, !.key = FALSE, !.prepared = {}, !.grace = FALSE,
                           !.pending = pending]
      BY DEF Pends
    <3> HIDE DEF j, pending
    <3>4. /\ j \in JoinStates /\ j.pending = pending /\ ~j.session /\ ~j.grace
      BY ZenonT(60), <2>1, <3>2, <3>3 DEF JoinStates
    <3>5. Append(told.ready, Event.arg) = <<Event.arg>> /\ <<Event.arg>> \in Seq(Ids)
      BY <2>2, <2>3
    <3>6. /\ told' \in Told /\ told'.seq = Taken.seq /\ told'.keys = told.keys
          /\ told'.commit = told.commit /\ told'.ready = <<Event.arg>>
      BY ZenonT(60), <2>1, <2>4, <2>6, <3>5 DEF Told, AnnouncesReady
    <3> QED
      BY ZenonT(60), <2>2, <3>1, <3>2, <3>4, <3>6, ContinueKeeps
  <2> QED
    BY <2>5, <2>6
<1> QED
  BY <1>1, <1>2

\* Every event of the DAVE loop.
LEMMA DaveEventKeeps == ConnectInv /\ DaveEvent => ConnectInv'
BY ExecuteKeeps, PassedOverKeeps, PeerKeeps, PrepareEpochKeeps, ProposalsKeeps, JoinsKeeps
   DEF DaveEvent

-----------------------------------------------------------------------------
(* The handshake before the DAVE loop. *)

\* expect_session_description: a tolerated event changes the users known and
\* recognized together; the description ends the handshake or starts the loop.
LEMMA DescriptionKeeps == ConnectInv /\ Description => ConnectInv'
<1> SUFFICES ASSUME ConnectInv, Description
             PROVE  ConnectInv'
  OBVIOUS
<1>1. /\ attempt.stage = "description" /\ Event # None
      /\ Event \in Messages /\ join \in JoinStates /\ session = None
      /\ told \in Told /\ Taken.seq \in SeqNumbers
  BY LoopFacts DEF Description
<1>2. /\ told.keys = 0 /\ ~told.commit /\ ~join.session /\ ~join.grace
      /\ join.pending = None /\ told.ready = <<>>
      /\ told.peers \cup {Self} \subseteq join.recognized
  BY <1>1 DEF ConnectInv, StageInv, PeersRecognized
<1>3. /\ attempt.link \in Links /\ link[attempt.link] \in WebSockets
      /\ link \in [Links -> WebSockets]
  BY <1>1 DEF ConnectInv, TypeOK, StageInv
<1>4. /\ Taken \in WebSockets /\ Taken.held
      /\ Taken.open => Taken.heart = "running"
  BY <1>1, <1>3, ReceivedFacts DEF Taken, Event, ConnectInv, HeldInv, HeartbeatKept
<1>5. ASSUME NEW stage \in {"description", "dave"}, NEW j \in JoinStates,
             attempt'.stage = stage, attempt'.link = attempt.link,
             attempt'.elapsed \in BOOLEAN, attempt' \in [stage : Stages, link : Links \cup {None}, elapsed : BOOLEAN],
             join' = j, link' = [link EXCEPT ![attempt.link] = Taken],
             session' = session, served' = served,
             told' \in Told, told'.seq = Taken.seq, told'.ready = <<>>, ~told'.commit,
             told'.keys = IF stage = "dave" THEN 1 ELSE 0,
             j.pending = None, ~j.grace,
             j.session <=> stage = "dave", j.session => j.key,
             told'.peers \cup {Self} \subseteq j.recognized
      PROVE  ConnectInv'
  <2> USE <1>5
  <2>1. link' \in [Links -> WebSockets] /\ link'[attempt.link] = Taken
    BY <1>3, <1>4
  <2>2. TypeOK'
    BY <1>1, <2>1 DEF ConnectInv, TypeOK, Told
  <2>3. StageInv'
    <3>1. attempt.link # None
      BY <1>3, NoneAssumption DEF Links
    <3> QED
      BY <1>1, <3>1 DEF StageInv
  <2>4. SessionMovedOnce' /\ PeersRecognized' /\ ResumeAcksLast'
    BY DEF SessionMovedOnce, PeersRecognized, ResumeAcksLast
  <2>5. DaveTold' /\ ReadyMatchesRuntime' /\ OneKeyPackage'
    BY <1>1 DEF DaveTold, ReadyMatchesRuntime, OneKeyPackage
  <2>6. SeqInv'
    BY <1>1, <2>1 DEF SeqInv
  <2>7. HeldInv' /\ HeartbeatKept'
    BY <1>1, <1>4, <2>1 DEF HeldInv, HeartbeatKept
  <2> QED
    BY <2>2, <2>3, <2>4, <2>5, <2>6, <2>7 DEF ConnectInv
<1>6. CASE Fails
  BY <1>1, <1>6, FailsKeeps
<1>7. CASE /\ Tolerated(Event)
           /\ join' = [join EXCEPT !.recognized =
                CASE Event.type = "ClientsConnect" -> @ \cup {Event.arg}
                  [] Event.type = "ClientDisconnect" -> @ \ {Event.arg}
                  [] OTHER -> @]
           /\ link' = [link EXCEPT ![attempt.link] = Taken]
           /\ Heard /\ Stay /\ UNCHANGED <<session, served>>
  <2> DEFINE known == CASE Event.type = "ClientsConnect" -> join.recognized \cup {Event.arg}
                        [] Event.type = "ClientDisconnect" -> join.recognized \ {Event.arg}
                        [] OTHER -> join.recognized
             j == [join EXCEPT !.recognized = known]
  <2>1. known \in SUBSET Users
    BY <1>1, MessageFacts DEF JoinStates
  <2>2. /\ told' \in Told /\ told'.seq = Taken.seq /\ told'.keys = 0 /\ ~told'.commit
        /\ told'.ready = <<>> /\ told'.peers = Peers(Event)
    BY <1>1, <1>2, <1>7, HeardFacts
  <2>3. Peers(Event) \cup {Self} \subseteq known
    BY <1>2, <1>7 DEF Peers, Tolerated
  <2>4. join' = j
    BY <1>7
  <2> HIDE DEF known
  <2>5. /\ j \in JoinStates /\ j.recognized = known /\ j.pending = None /\ ~j.grace
        /\ ~j.session
    BY <1>1, <1>2, <2>1 DEF JoinStates
  <2>6. /\ attempt' = attempt /\ attempt \in [stage : Stages, link : Links \cup {None}, elapsed : BOOLEAN]
    BY <1>7 DEF Stay, ConnectInv, TypeOK
  <2> HIDE DEF j
  <2> QED
    BY <1>1, <1>5, <1>7, <2>2, <2>3, <2>4, <2>5, <2>6
<1>8. CASE Event.type = "Description" /\ Heard /\ Connects(None) /\ UNCHANGED served
  <2>1. /\ told' \in Told /\ told'.seq = Taken.seq /\ told'.keys = 0
    BY <1>1, <1>2, <1>8, HeardFacts
  <2>2. told'.keys <= 1 /\ None \in DaveStates \cup {None} /\ served' = served
    BY <1>8, <2>1
  <2> QED
    BY <1>1, <1>8, <2>1, <2>2, ConnectsKeeps, Zenon
<1>9. CASE /\ Enter("dave")
           /\ join' = KeyPackage([join EXCEPT !.session = TRUE, !.recognized = Recognized(@)])
           /\ link' = [link EXCEPT ![attempt.link] = Taken]
           /\ told' = [told EXCEPT !.keys = @ + 1, !.seq = Taken.seq]
           /\ UNCHANGED <<session, served>>
  <2> DEFINE j == KeyPackage([join EXCEPT !.session = TRUE, !.recognized = Recognized(@)])
  <2>1. /\ j \in JoinStates /\ j.recognized = join.recognized \cup {Self}
        /\ j.pending = None /\ ~j.grace /\ j.session /\ j.key
    BY ZenonT(60), <1>1, <1>2, ConnectAssumption DEF JoinStates, KeyPackage, Recognized
  <2>2. /\ told' \in Told /\ told'.seq = Taken.seq /\ told'.keys = 1 /\ ~told'.commit
        /\ told'.ready = <<>> /\ told'.peers = told.peers
    <3>1. told.keys + 1 = 1
      BY <1>2
    <3>2. told' = [told EXCEPT !.keys = 1, !.seq = Taken.seq]
      BY ZenonT(60), <1>9, <3>1
    <3>3. /\ told' \in Told /\ told'.seq = Taken.seq /\ told'.keys = 1
          /\ told'.commit = told.commit /\ told'.ready = told.ready /\ told'.peers = told.peers
      BY ZenonT(60), <1>1, <3>2 DEF Told
    <3> QED
      BY <1>2, <3>3
  <2>3. /\ attempt' \in [stage : Stages, link : Links \cup {None}, elapsed : BOOLEAN]
        /\ attempt'.stage = "dave" /\ attempt'.link = attempt.link
    BY ZenonT(60), <1>9 DEF Enter, ConnectInv, TypeOK, Stages
  <2>4. join' = j
    BY <1>9
  <2> HIDE DEF j
  <2> QED
    BY <1>1, <1>2, <1>5, <1>9, <2>1, <2>2, <2>3, <2>4
<1> QED
  BY <1>6, <1>7, <1>8, <1>9 DEF Description

\* A websocket is opened for a new session.
LEMMA ConnectKeeps == ConnectInv /\ Connect => ConnectInv'
<1> SUFFICES ASSUME ConnectInv, Connect
             PROVE  ConnectInv'
  OBVIOUS
<1> USE DEF ConnectInv
<1>1. /\ session = None /\ attempt.stage = "idle" /\ join' = join
      /\ attempt.link = None /\ told = NothingTold /\ join = None
  BY DEF Connect, StageInv
<1>2. CASE /\ session' = [Session(None, None) EXCEPT !.media = FALSE]
           /\ UNCHANGED <<attempt, link, told, served>>
  <2>1. /\ session' \in Sessions /\ session'.gateway = None /\ session'.dave = None
        /\ session'.suspendedSeq = None
    BY ZenonT(60), <1>2 DEF Session, Sessions
  <2>2. session' # None
    BY <2>1, NoneAssumption
  <2>3. TypeOK'
    BY <1>1, <1>2, <2>1 DEF TypeOK
  <2>4. StageInv'
    BY <1>1, <1>2, <2>1, <2>2 DEF StageInv
  <2>5. SessionMovedOnce' /\ PeersRecognized' /\ ResumeAcksLast'
    BY <1>1, <1>2 DEF SessionMovedOnce, PeersRecognized, ResumeAcksLast
  <2>6. DaveTold' /\ ReadyMatchesRuntime' /\ OneKeyPackage'
    BY <1>1, <1>2, <2>1 DEF DaveTold, ReadyMatchesRuntime, OneKeyPackage
  <2>7. SeqInv'
    BY <1>1, <1>2, <2>1, NothingToldFacts DEF SeqInv, SeqAck
  <2>8. HeldInv' /\ HeartbeatKept'
    BY <1>1, <1>2, <2>1 DEF HeldInv, HeartbeatKept
  <2> QED
    BY <2>3, <2>4, <2>5, <2>6, <2>7, <2>8
<1>3. ASSUME NEW l \in FreshLinks,
             link' = [link EXCEPT ![l] = WebSocket],
             attempt' = [stage |-> "hello", link |-> l, elapsed |-> FALSE],
             told' = NothingTold, served' = 0, session' = session
      PROVE  ConnectInv'
  <2>1. l \in Links /\ l # None
    BY NoneAssumption DEF FreshLinks, Links
  <2>2. attempt'.stage = "hello" /\ attempt'.link = l
    BY <1>3
  <2>3. TypeOK'
    BY <1>1, <1>3, <2>1, NewLinkFacts, NothingToldFacts, ConnectAssumption DEF TypeOK, Stages
  <2>4. StageInv'
    BY SMTT(60), <1>1, <1>3, <2>1, <2>2 DEF StageInv
  <2>5. SessionMovedOnce' /\ PeersRecognized' /\ ResumeAcksLast'
    BY <2>2 DEF SessionMovedOnce, PeersRecognized, ResumeAcksLast
  <2>6. DaveTold' /\ ReadyMatchesRuntime' /\ OneKeyPackage'
    BY <1>1, <1>3, <2>2, NothingToldFacts DEF DaveTold, ReadyMatchesRuntime, OneKeyPackage
  <2>7. SeqInv' /\ HeldInv' /\ HeartbeatKept'
    BY <1>1, <1>3, <2>2 DEF SeqInv, HeldInv, HeartbeatKept
  <2> QED
    BY <2>3, <2>4, <2>5, <2>6, <2>7
<1> QED
  BY <1>2, <1>3 DEF Connect

\* Hello, then identify or resume: the link gets its heartbeat, and for a
\* resume the session's sequence number.
LEMMA HelloKeeps == ConnectInv /\ Hello => ConnectInv'
<1> SUFFICES ASSUME ConnectInv, Hello
             PROVE  ConnectInv'
  OBVIOUS
<1> USE DEF ConnectInv
<1>1. /\ attempt.stage = "hello" /\ Event # None
      /\ attempt.link \in Links /\ link[attempt.link] \in WebSockets
      /\ join = None /\ link \in [Links -> WebSockets]
  BY DEF Hello, TypeOK, StageInv
<1>2. attempt.link # None
  BY <1>1 DEF StageInv
<1> DEFINE w == SpawnHeartbeat(Taken)
<1>3. Taken \in WebSockets
  BY <1>1, ReceivedFacts DEF Taken, Event
<1>4. w \in WebSockets /\ w.held /\ w.heart = "running" /\ Dropped(w) \in WebSockets
  BY <1>3, DroppedFacts
<1> HIDE DEF w
<1>5. CASE Event.type # "Hello"
  BY <1>1, <1>5, FailsKeeps DEF Hello
<1>6. ASSUME NEW v \in WebSockets, link' = [link EXCEPT ![attempt.link] = v],
             attempt' = Idle, UNCHANGED <<join, session, told, served>>
      PROVE  ConnectInv'
  <2>1. attempt'.stage = "idle" /\ attempt'.link = None
    BY <1>6 DEF Idle
  <2>2. TypeOK'
    BY <1>1, <1>6 DEF TypeOK, Idle, Stages
  <2>3. StageInv'
    BY SMTT(60), <1>1, <1>6, <2>1 DEF StageInv
  <2>4. SessionMovedOnce' /\ PeersRecognized' /\ ResumeAcksLast'
    BY <2>1 DEF SessionMovedOnce, PeersRecognized, ResumeAcksLast
  <2>5. DaveTold' /\ ReadyMatchesRuntime' /\ OneKeyPackage'
    BY <1>1, <1>6, <2>1 DEF DaveTold, ReadyMatchesRuntime, OneKeyPackage
  <2>6. session # None => attempt.link # session.gateway
    BY <1>1 DEF StageInv
  <2>7. SeqInv'
    BY <1>1, <1>6, <2>1, <2>6 DEF SeqInv, SeqAck, TypeOK, Sessions
  <2>8. session # None => session.receiveClosed \/ session.gateway = None
    BY <1>1 DEF StageInv
  <2>9. HeldInv' /\ HeartbeatKept'
    BY <1>6, <2>1, <2>8 DEF HeldInv, HeartbeatKept
  <2> QED
    BY <2>2, <2>3, <2>4, <2>5, <2>7, <2>9
<1>7. ASSUME NEW v \in WebSockets, v.held, v.heart = "running",
             NEW stage \in {"ready", "resuming"},
             stage = "ready" <=> session = None, session # None => v.seq = SeqAck,
             link' = [link EXCEPT ![attempt.link] = v],
             Enter(stage), UNCHANGED <<join, session, told, served>>
      PROVE  ConnectInv'
  <2>1. /\ attempt'.stage = stage /\ attempt'.link = attempt.link
        /\ attempt' \in [stage : Stages, link : Links \cup {None}, elapsed : BOOLEAN]
    BY ZenonT(60), <1>7 DEF Enter, TypeOK, Stages
  <2>2. link' \in [Links -> WebSockets] /\ link'[attempt.link] = v
    BY <1>1, <1>7
  <2>3. TypeOK'
    BY <1>7, <2>1, <2>2 DEF TypeOK
  <2>4. StageInv'
    BY <1>1, <1>2, <1>7, <2>1 DEF StageInv
  <2>5. SessionMovedOnce' /\ PeersRecognized'
    BY <1>7, <2>1 DEF SessionMovedOnce, PeersRecognized
  <2>6. DaveTold' /\ ReadyMatchesRuntime' /\ OneKeyPackage'
    BY <1>1, <1>7, <2>1 DEF DaveTold, ReadyMatchesRuntime, OneKeyPackage
  <2>7. session # None => /\ attempt.link # session.gateway
                          /\ session.receiveClosed \/ session.gateway = None
    BY <1>1 DEF StageInv
  <2>8. session # None => SeqAck' = SeqAck
    BY <1>1, <1>7, <2>7 DEF SeqAck, TypeOK, Sessions
  <2>9. SeqInv' /\ ResumeAcksLast'
    BY SMTT(60), <1>7, <2>1, <2>2, <2>8 DEF SeqInv, ResumeAcksLast
  <2>10. HeldInv' /\ HeartbeatKept'
    BY <1>7, <2>1, <2>2, <2>7 DEF HeldInv, HeartbeatKept
  <2> QED
    BY <2>3, <2>4, <2>5, <2>6, <2>9, <2>10
<1>8. CASE Event.type = "Hello" /\ session = None
  <2>1. PICK ok \in Sent(attempt.link) :
           /\ IF ok THEN Enter("ready") ELSE attempt' = Idle
           /\ link' = [link EXCEPT ![attempt.link] = IF ok THEN w ELSE Dropped(w)]
           /\ UNCHANGED <<join, session, told, served>>
    BY <1>8 DEF Hello, w
  <2>2. CASE ok
    BY ZenonT(60), <1>4, <1>7, <1>8, <2>1, <2>2
  <2>3. CASE ~ok
    BY ZenonT(60), <1>4, <1>6, <2>1, <2>3
  <2> QED
    BY <2>2, <2>3
<1>9. CASE Event.type = "Hello" /\ session # None
  <2> DEFINE v == [w EXCEPT !.seq = SeqAck]
  <2>1. PICK ok \in Sent(attempt.link) :
           /\ IF ok THEN Enter("resuming") ELSE attempt' = Idle
           /\ link' = [link EXCEPT ![attempt.link] = IF ok THEN v ELSE Dropped(w)]
           /\ UNCHANGED <<join, session, told, served>>
    BY <1>9 DEF Hello, w
  <2>2. SeqAck \in SeqNumbers
    BY <1>9 DEF SeqInv, TypeOK
  <2>3. v \in WebSockets /\ v.held /\ v.heart = "running" /\ v.seq = SeqAck
    BY <1>4, <2>2 DEF WebSockets
  <2> HIDE DEF v
  <2>4. CASE ok
    BY ZenonT(60), <1>7, <1>9, <2>1, <2>3, <2>4
  <2>5. CASE ~ok
    BY ZenonT(60), <1>4, <1>6, <2>1, <2>5
  <2> QED
    BY <2>4, <2>5
<1> QED
  BY <1>5, <1>8, <1>9

\* Ready and select protocol: the wait for the description begins with no user
\* known but the service.
LEMMA ReadyKeeps == ConnectInv /\ Ready => ConnectInv'
<1> SUFFICES ASSUME ConnectInv, Ready
             PROVE  ConnectInv'
  OBVIOUS
<1> USE DEF ConnectInv
<1>1. /\ attempt.stage = "ready" /\ Event # None
      /\ attempt.link \in Links /\ link[attempt.link] \in WebSockets
      /\ link \in [Links -> WebSockets] /\ session = None /\ told = NothingTold
      /\ attempt.link # None
  BY DEF Ready, TypeOK, StageInv
<1>2. CASE Fails
  BY <1>1, <1>2, FailsKeeps
<1>3. CASE ~Fails
  <2> DEFINE j == [session |-> FALSE, key |-> FALSE, prepared |-> {}, pending |-> None,
                   grace |-> FALSE, recognized |-> {Self}]
  <2>1. /\ Enter("description") /\ link' = [link EXCEPT ![attempt.link] = Taken]
        /\ join' = j /\ UNCHANGED <<session, told, served>>
    BY <1>3 DEF Ready
  <2>2. /\ j \in JoinStates /\ j.pending = None /\ ~j.session /\ ~j.grace
        /\ j.recognized = {Self}
    BY ConnectAssumption DEF JoinStates
  <2> HIDE DEF j
  <2>3. /\ Taken \in WebSockets /\ Taken.held
        /\ Taken.open => Taken.heart = "running"
    BY <1>1, ReceivedFacts DEF Taken, Event, HeldInv, HeartbeatKept
  <2>4. link' \in [Links -> WebSockets] /\ link'[attempt.link] = Taken
    BY <1>1, <2>1, <2>3
  <2>5. /\ attempt'.stage = "description" /\ attempt'.link = attempt.link
        /\ attempt' \in [stage : Stages, link : Links \cup {None}, elapsed : BOOLEAN]
    BY ZenonT(60), <2>1 DEF Enter, TypeOK, Stages
  <2>6. TypeOK'
    BY <2>1, <2>2, <2>4, <2>5 DEF TypeOK
  <2>7. StageInv'
    BY <1>1, <2>1, <2>2, <2>5, NothingToldFacts DEF StageInv
  <2>8. SessionMovedOnce' /\ PeersRecognized' /\ ResumeAcksLast'
    BY <1>1, <2>1, <2>2, <2>5, NothingToldFacts DEF SessionMovedOnce, PeersRecognized, ResumeAcksLast
  <2>9. DaveTold' /\ ReadyMatchesRuntime' /\ OneKeyPackage'
    BY SMTT(60), <1>1, <2>1, <2>2, <2>5, NothingToldFacts DEF DaveTold, ReadyMatchesRuntime, OneKeyPackage
  <2>10. SeqInv' /\ HeldInv' /\ HeartbeatKept'
    BY <1>1, <2>1, <2>3, <2>4, <2>5 DEF SeqInv, HeldInv, HeartbeatKept
  <2> QED
    BY <2>6, <2>7, <2>8, <2>9, <2>10
<1> QED
  BY <1>2, <1>3

\* A step that leaves a session and no call in progress: its parts.
LEMMA OpenKeeps ==
  ASSUME ConnectInv, attempt'.stage = "idle", attempt'.link = None,
         attempt'.elapsed \in BOOLEAN,
         attempt' \in [stage : Stages, link : Links \cup {None}, elapsed : BOOLEAN],
         join' = None, served' = served, link' \in [Links -> WebSockets],
         session' \in Sessions, told' \in Told, told'.keys <= 1,
         DaveTold', SeqAck' = told'.seq,
         session'.gateway # None /\ ~session'.receiveClosed =>
           /\ link'[session'.gateway].held
           /\ link'[session'.gateway].open => link'[session'.gateway].heart = "running"
  PROVE  ConnectInv'
<1>1. session' # None
  BY NoneAssumption
<1>2. TypeOK'
  BY DEF ConnectInv, TypeOK, Told
<1>3. StageInv'
  BY <1>1 DEF StageInv
<1>4. SessionMovedOnce' /\ PeersRecognized' /\ ResumeAcksLast'
  BY DEF SessionMovedOnce, PeersRecognized, ResumeAcksLast
<1>5. ReadyMatchesRuntime' /\ OneKeyPackage'
  BY DEF DaveTold, ReadyMatchesRuntime, OneKeyPackage
<1>6. SeqInv' /\ HeldInv' /\ HeartbeatKept'
  BY DEF SeqInv, HeldInv, HeartbeatKept
<1> QED
  BY <1>2, <1>3, <1>4, <1>5, <1>6 DEF ConnectInv

\* Resumed: the session goes over to the new link, which has read what the
\* session is now told.
LEMMA ResumedKeeps == ConnectInv /\ Resumed => ConnectInv'
<1> SUFFICES ASSUME ConnectInv, Resumed
             PROVE  ConnectInv'
  OBVIOUS
<1>1. /\ attempt.stage = "resuming" /\ Event # None
      /\ attempt.link \in Links /\ link[attempt.link] \in WebSockets
      /\ link \in [Links -> WebSockets] /\ session # None /\ session \in Sessions
      /\ attempt.link # None /\ join = None /\ told \in Told /\ told.keys <= 1
  BY DEF Resumed, ConnectInv, TypeOK, StageInv, OneKeyPackage, Told
<1>2. CASE Event.type # "Resumed"
  BY <1>1, <1>2, FailsKeeps DEF Resumed
<1>3. CASE Event.type = "Resumed"
  <2>1. /\ attempt' = Idle
        /\ link' = [l \in Links |-> CASE l = attempt.link -> Taken
                                     [] l = session.gateway -> Dropped(link[l])
                                     [] OTHER -> link[l]]
        /\ session' = [session EXCEPT !.gateway = attempt.link, !.receiveClosed = FALSE,
                                      !.suspendedSeq = None, !.speaking = FALSE]
        /\ told' = [told EXCEPT !.seq = Taken.seq]
        /\ UNCHANGED <<join, served>>
    BY SMTT(60), <1>3 DEF Resumed
  <2>2. /\ Taken \in WebSockets /\ Taken.held
        /\ Taken.open => Taken.heart = "running"
    BY <1>1, ReceivedFacts DEF Taken, Event, ConnectInv, HeldInv, HeartbeatKept
  <2>3. link' \in [Links -> WebSockets] /\ link'[attempt.link] = Taken
    <3>1. session.gateway # attempt.link
      BY <1>1 DEF ConnectInv, StageInv
    <3>2. ASSUME NEW l \in Links
          PROVE  /\ link'[l] \in WebSockets
                 /\ l = attempt.link => link'[l] = Taken
      <4>1. CASE l = attempt.link
        BY <2>1, <2>2, <3>1, <4>1
      <4>2. CASE l = session.gateway
        BY <1>1, <2>1, <3>1, <4>2, DroppedFacts
      <4>3. CASE l # attempt.link /\ l # session.gateway
        BY <1>1, <2>1, <4>3
      <4> QED
        BY <4>1, <4>2, <4>3
    <3> QED
      BY <1>1, <2>1, <3>2
  <2>4. /\ session' \in Sessions /\ session'.gateway = attempt.link
        /\ session'.dave = session.dave
    BY ZenonT(60), <1>1, <2>1 DEF Sessions
  <2>5. /\ told' \in Told /\ told'.seq = Taken.seq /\ told'.ready = told.ready
        /\ told'.commit = told.commit /\ told'.keys = told.keys
    BY ZenonT(60), <1>1, <2>1, <2>2 DEF Told, WebSockets
  <2>6. /\ attempt'.stage = "idle" /\ attempt'.link = None /\ attempt'.elapsed \in BOOLEAN
        /\ attempt' \in [stage : Stages, link : Links \cup {None}, elapsed : BOOLEAN]
    BY <2>1 DEF Idle, Stages
  <2>7. DaveTold'
    BY <1>1, <2>4, <2>5 DEF ConnectInv, DaveTold
  <2>8. SeqAck' = told'.seq
    BY SMTT(60), <1>1, <2>3, <2>4, <2>5 DEF SeqAck
  <2> QED
    BY <1>1, <2>1, <2>2, <2>3, <2>4, <2>5, <2>6, <2>7, <2>8, OpenKeeps
<1> QED
  BY <1>2, <1>3

\* The self-only deadline: the session stays without a runtime.
LEMMA GraceEndsKeeps == ConnectInv /\ GraceEnds => ConnectInv'
<1> SUFFICES ASSUME ConnectInv, GraceEnds
             PROVE  ConnectInv'
  OBVIOUS
<1> DEFINE d == Dave(join, None, {}, FALSE)
<1>1. /\ attempt.stage = "dave" /\ join.grace
      /\ attempt' = Idle /\ join' = None /\ session' = Session(attempt.link, d)
      /\ UNCHANGED <<told, served>>
  BY DEF GraceEnds
<1>2. /\ attempt.link \in Links /\ link \in [Links -> WebSockets] /\ attempt.link # None
      /\ join \in JoinStates /\ told \in Told
  BY <1>1 DEF ConnectInv, TypeOK, StageInv, Told
<1>3. link' = link
  BY <1>2 DEF GraceEnds, Kept
<1>4. /\ told.keys = 1 /\ ~told.commit /\ told.ready = <<>>
  BY <1>1, DaveLoopFacts
<1>5. d \in DaveStates /\ d.runtime = None /\ d.welcomed = {} /\ ~d.localInit
  BY <1>2 DEF Dave, DaveStates, JoinStates
<1> HIDE DEF d
<1>6. /\ session' \in Sessions /\ session'.gateway = attempt.link /\ session'.dave = d
  BY <1>1, <1>2, <1>5, SessionFacts
<1>7. /\ attempt'.stage = "idle" /\ attempt'.link = None /\ attempt'.elapsed \in BOOLEAN
      /\ attempt' \in [stage : Stages, link : Links \cup {None}, elapsed : BOOLEAN]
  BY <1>1 DEF Idle, Stages
<1>8. DaveTold'
  BY <1>1, <1>4, <1>5, <1>6 DEF DaveTold
<1>9. SeqAck' = told'.seq
  BY SMTT(60), <1>1, <1>2, <1>3, <1>6 DEF ConnectInv, SeqInv, SeqAck
<1>10. /\ link'[session'.gateway].held
       /\ link'[session'.gateway].open => link'[session'.gateway].heart = "running"
  BY <1>1, <1>3, <1>6 DEF ConnectInv, HeldInv, HeartbeatKept
<1>11. told'.keys <= 1
  BY <1>1, <1>4
<1> QED
  BY <1>1, <1>2, <1>3, <1>6, <1>7, <1>8, <1>9, <1>10, <1>11, OpenKeeps

-----------------------------------------------------------------------------
(* The connection in its session. *)

\* An event is read: the session is told its sequence number.
LEMMA SessionReceivesKeeps == ConnectInv /\ SessionReceives => ConnectInv'
<1> SUFFICES ASSUME ConnectInv, SessionReceives
             PROVE  ConnectInv'
  OBVIOUS
<1> DEFINE l == session.gateway
           w == Received(link[l])
<1>1. /\ attempt.stage = "idle" /\ session # None /\ l # None /\ ~session.receiveClosed
      /\ link[l].inbox # None /\ link' = [link EXCEPT ![l] = w]
      /\ told' = [told EXCEPT !.seq = w.seq] /\ UNCHANGED <<attempt, join, served>>
  BY DEF SessionReceives, Open
<1>2. /\ session \in Sessions /\ link \in [Links -> WebSockets] /\ told \in Told
      /\ told.keys <= 1 /\ join = None /\ attempt.link = None
      /\ attempt \in [stage : Stages, link : Links \cup {None}, elapsed : BOOLEAN]
  BY <1>1 DEF ConnectInv, TypeOK, StageInv, OneKeyPackage, Told
<1>3. l \in Links
  BY <1>1, <1>2 DEF Sessions
<1>4. link[l].held /\ (link[l].open => link[l].heart = "running")
  BY <1>1 DEF ConnectInv, HeldInv, HeartbeatKept
<1>5. /\ w \in WebSockets /\ w.held = link[l].held
      /\ w.open = link[l].open /\ w.heart = link[l].heart
  BY <1>1, <1>2, <1>3, ReceivedFacts
<1>6. PICK b \in {session.speaking, TRUE} : session' = [session EXCEPT !.speaking = b]
  BY ZenonT(60) DEF SessionReceives
<1>7. /\ session' \in Sessions /\ session'.gateway = l /\ session'.dave = session.dave
  BY ZenonT(60), <1>2, <1>6 DEF Sessions
<1> HIDE DEF w
<1>8. link' \in [Links -> WebSockets] /\ link'[l] = w
  BY <1>1, <1>2, <1>3, <1>5
<1>9. /\ told' \in Told /\ told'.seq = w.seq /\ told'.ready = told.ready
      /\ told'.commit = told.commit /\ told'.keys = told.keys
  BY SMTT(60), <1>1, <1>2, <1>5 DEF Told, WebSockets
<1>10. DaveTold'
  BY <1>1, <1>7, <1>9 DEF ConnectInv, DaveTold
<1>11. SeqAck' = told'.seq
  BY <1>1, <1>7, <1>8, <1>9 DEF SeqAck
<1> HIDE DEF l
<1> QED
  BY ZenonT(60), <1>1, <1>2, <1>4, <1>5, <1>7, <1>8, <1>9, <1>10, <1>11, OpenKeeps

\* The session finds its gateway closed, or gives it up.
LEMMA SuspendKeeps ==
  ASSUME ConnectInv, SessionFindsClosed \/ Suspend
  PROVE  ConnectInv'
<1>1. /\ attempt.stage = "idle" /\ session # None
      /\ UNCHANGED <<attempt, join, told, served>>
  BY ZenonT(60) DEF SessionFindsClosed, Suspend, Open
<1>2. /\ session \in Sessions /\ link \in [Links -> WebSockets] /\ told \in Told
      /\ told.keys <= 1 /\ join = None /\ attempt.link = None
      /\ attempt \in [stage : Stages, link : Links \cup {None}, elapsed : BOOLEAN]
  BY <1>1 DEF ConnectInv, TypeOK, StageInv, OneKeyPackage, Told
<1>3. SeqAck = told.seq
  BY <1>1 DEF ConnectInv, SeqInv
<1>4. ASSUME session' \in Sessions, session'.dave = session.dave,
             link' \in [Links -> WebSockets], SeqAck' = SeqAck,
             session'.receiveClosed \/ session'.gateway = None
      PROVE  ConnectInv'
  <2>1. DaveTold'
    BY <1>1, <1>4 DEF ConnectInv, DaveTold
  <2>2. SeqAck' = told'.seq
    BY <1>1, <1>3, <1>4
  <2> QED
    BY <1>1, <1>2, <1>4, <2>1, <2>2, OpenKeeps
<1>5. CASE SessionFindsClosed
  <2> DEFINE l == session.gateway
  <2>1. /\ l \in Links /\ l # None /\ link' = [link EXCEPT ![l] = ShutDown(link[l])]
        /\ session' = [session EXCEPT !.receiveClosed = TRUE]
    BY <1>2, <1>5 DEF SessionFindsClosed, Sessions
  <2>2. /\ session' \in Sessions /\ session'.dave = session.dave /\ session'.receiveClosed
        /\ session'.gateway = l
    BY ZenonT(60), <1>2, <2>1 DEF Sessions
  <2>3. link' \in [Links -> WebSockets] /\ link'[l].seq = link[l].seq
    BY <1>2, <2>1, DroppedFacts
  <2>4. SeqAck' = SeqAck
    BY <2>1, <2>2, <2>3 DEF SeqAck
  <2> QED
    BY <1>4, <2>2, <2>3, <2>4
<1>6. CASE Suspend
  <2>1. /\ session' \in Sessions /\ session'.dave = session.dave
        /\ session'.gateway = None /\ session'.suspendedSeq = SeqAck
    <3>1. SeqAck \in SeqNumbers
      BY <1>2, <1>3 DEF Told
    <3> HIDE DEF SeqAck
    <3> QED
      BY ZenonT(60), <1>2, <1>6, <3>1 DEF Suspend, Suspended, Sessions
  <2>2. link' \in [Links -> WebSockets]
    <3>1. CASE session.gateway = None
      BY <1>2, <1>6, <3>1 DEF Suspend
    <3>2. CASE session.gateway # None
      <4>1. session.gateway \in Links
        BY <1>2, <3>2 DEF Sessions
      <4>2. ASSUME NEW w \in WebSockets
            PROVE  [w EXCEPT !.open = FALSE] \in WebSockets
        BY ZenonT(60) DEF WebSockets
      <4> QED
        BY <1>2, <1>6, <3>2, <4>1, <4>2, DroppedFacts DEF Suspend
    <3> QED
      BY <3>1, <3>2
  <2>3. SeqAck' = SeqAck
    BY <2>1 DEF SeqAck
  <2> QED
    BY <1>4, <2>1, <2>2, <2>3
<1> QED
  BY <1>5, <1>6

\* A resume begins on a fresh link; the session keeps the sequence number.
LEMMA ResumeKeeps == ConnectInv /\ Resume => ConnectInv'
<1> SUFFICES ASSUME ConnectInv, Resume
             PROVE  ConnectInv'
  OBVIOUS
<1> USE DEF ConnectInv
<1>1. /\ attempt.stage = "idle" /\ session # None
      /\ session.receiveClosed \/ session.gateway = None
      /\ UNCHANGED <<join, session, told, served>>
  BY DEF Resume, Open
<1>2. PICK l \in FreshLinks :
        /\ link' = [[k \in Links |-> IF k = session.gateway THEN ShutDown(link[k]) ELSE link[k]]
                      EXCEPT ![l] = WebSocket]
        /\ attempt' = [stage |-> "hello", link |-> l, elapsed |-> FALSE]
  BY ZenonT(60) DEF Resume
<1>3. l \in Links /\ l # session.gateway /\ l # None
  BY <1>1, NoneAssumption DEF FreshLinks, InUse, Links
<1>4. link' \in [Links -> WebSockets]
  BY <1>2, <1>3, NewLinkFacts, DroppedFacts DEF TypeOK
<1>5. session.gateway \in Links => link'[session.gateway].seq = link[session.gateway].seq
  BY <1>2, <1>3, DroppedFacts DEF TypeOK
<1>6. attempt'.stage = "hello" /\ attempt'.link = l
  BY <1>2
<1>7. TypeOK'
  BY <1>1, <1>2, <1>3, <1>4 DEF TypeOK, Stages
<1>8. StageInv'
  BY SMTT(60), <1>1, <1>3, <1>6 DEF StageInv
<1>9. SessionMovedOnce' /\ PeersRecognized' /\ ResumeAcksLast'
  BY <1>6 DEF SessionMovedOnce, PeersRecognized, ResumeAcksLast
<1>10. DaveTold' /\ ReadyMatchesRuntime' /\ OneKeyPackage'
  BY <1>1, <1>6 DEF DaveTold, ReadyMatchesRuntime, OneKeyPackage
<1>11. SeqInv'
  BY SMTT(60), <1>1, <1>5, <1>6 DEF SeqInv, SeqAck, TypeOK, Sessions
<1>12. HeldInv' /\ HeartbeatKept'
  BY <1>1, <1>6 DEF HeldInv, HeartbeatKept
<1> QED
  BY <1>7, <1>8, <1>9, <1>10, <1>11, <1>12

\* Dropping the session.
LEMMA DropKeeps == ConnectInv /\ Drop => ConnectInv'
<1> SUFFICES ASSUME ConnectInv, Drop
             PROVE  ConnectInv'
  OBVIOUS
<1> USE DEF ConnectInv
<1>1. /\ attempt.stage = "idle" /\ session' = None /\ told' = NothingTold
      /\ UNCHANGED <<attempt, join, served>>
  BY DEF Drop, Open
<1>2. link' \in [Links -> WebSockets]
  BY DroppedFacts DEF Drop, TypeOK
<1>3. TypeOK'
  BY SMTT(60), <1>1, <1>2, NothingToldFacts DEF TypeOK
<1>4. StageInv' /\ SessionMovedOnce' /\ PeersRecognized' /\ ResumeAcksLast'
  BY SMTT(60), <1>1 DEF StageInv, SessionMovedOnce, PeersRecognized, ResumeAcksLast
<1>5. DaveTold' /\ ReadyMatchesRuntime' /\ OneKeyPackage'
  BY SMTT(60), <1>1, NothingToldFacts DEF DaveTold, ReadyMatchesRuntime, OneKeyPackage, StageInv
<1>6. SeqInv' /\ HeldInv' /\ HeartbeatKept'
  BY SMTT(60), <1>1 DEF SeqInv, HeldInv, HeartbeatKept
<1> QED
  BY <1>3, <1>4, <1>5, <1>6

-----------------------------------------------------------------------------
(* The gateway, the clock and the heartbeat tasks. *)

\* A step of the environment: no link is opened, no sequence number changes, no
\* heartbeat that somebody holds stops on an open link.
LEMMA QuietKeeps ==
  ASSUME ConnectInv, UNCHANGED <<join, session, told>>, served' \in 0..MaxSeq,
         attempt'.stage = attempt.stage, attempt'.link = attempt.link,
         attempt' \in [stage : Stages, link : Links \cup {None}, elapsed : BOOLEAN],
         link' \in [Links -> WebSockets],
         \A l \in Links : /\ link'[l].seq = link[l].seq /\ link'[l].held = link[l].held
                          /\ link'[l].open => link[l].open
                          /\ link[l].held /\ link'[l].open => link'[l].heart = link[l].heart
  PROVE  ConnectInv'
<1> USE DEF ConnectInv
<1>1. TypeOK'
  BY SMTT(60) DEF TypeOK
<1>2. StageInv' /\ SessionMovedOnce' /\ PeersRecognized'
  BY SMTT(60) DEF StageInv, SessionMovedOnce, PeersRecognized
<1>3. DaveTold' /\ ReadyMatchesRuntime' /\ OneKeyPackage'
  BY SMTT(60) DEF DaveTold, ReadyMatchesRuntime, OneKeyPackage
<1>4. attempt.stage # "idle" => attempt.link \in Links
  BY DEF TypeOK, StageInv
<1>5. session # None /\ session.gateway # None => session.gateway \in Links
  BY DEF TypeOK, Sessions
<1>6. SeqInv' /\ ResumeAcksLast'
  BY SMTT(60), <1>4, <1>5 DEF SeqInv, SeqAck, ResumeAcksLast
<1>7. HeldInv' /\ HeartbeatKept'
  BY <1>4, <1>5 DEF HeldInv, HeartbeatKept
<1> QED
  BY SMTT(60), <1>1, <1>2, <1>3, <1>6, <1>7

\* The clock, a heartbeat task that ends and the gateway preserve the invariant.
LEMMA EnvironmentKeeps ==
  ASSUME ConnectInv,
         NEW l \in Links,
         \/ Tick \/ HeartbeatStops(l) \/ GatewayCloses(l)
         \/ \E e \in Events, sequenced \in BOOLEAN : GatewaySends(l, e, sequenced)
  PROVE  ConnectInv'
<1>1. /\ link \in [Links -> WebSockets] /\ served \in 0..MaxSeq
      /\ attempt \in [stage : Stages, link : Links \cup {None}, elapsed : BOOLEAN]
  BY DEF ConnectInv, TypeOK
<1>2. CASE Tick
  <2>1. /\ attempt' = [attempt EXCEPT !.elapsed = TRUE]
        /\ UNCHANGED <<link, join, session, told, served>>
    BY <1>2 DEF Tick
  <2>2. /\ attempt'.stage = attempt.stage /\ attempt'.link = attempt.link
        /\ attempt' \in [stage : Stages, link : Links \cup {None}, elapsed : BOOLEAN]
    BY ZenonT(60), <1>1, <2>1
  <2> QED
    BY <1>1, <2>1, <2>2, QuietKeeps
<1>3. ASSUME NEW w \in WebSockets, link' = [link EXCEPT ![l] = w],
             w.seq = link[l].seq, w.held = link[l].held, w.open => link[l].open,
             link[l].held /\ w.open => w.heart = link[l].heart,
             UNCHANGED <<attempt, join, session, told>>, served' \in 0..MaxSeq
      PROVE  ConnectInv'
  <2>1. link' \in [Links -> WebSockets]
    BY <1>1, <1>3
  <2>2. \A k \in Links : /\ link'[k].seq = link[k].seq /\ link'[k].held = link[k].held
                         /\ link'[k].open => link[k].open
                         /\ link[k].held /\ link'[k].open => link'[k].heart = link[k].heart
    BY <1>1, <1>3
  <2> QED
    BY <1>1, <1>3, <2>1, <2>2, QuietKeeps
<1>4. link[l] \in WebSockets
  BY <1>1
<1>5. CASE HeartbeatStops(l)
  <2> DEFINE b == link[l].open /\ l \in InUse
             w == [link[l] EXCEPT !.heart = "stopped", !.open = b]
  <2>1. link' = [link EXCEPT ![l] = w] /\ UNCHANGED <<attempt, join, session, told, served>>
    BY ZenonT(60), <1>1, <1>5 DEF HeartbeatStops
  <2>2. b \in BOOLEAN /\ (b => link[l].open)
    BY <1>4 DEF WebSockets
  <2>3. link[l].held => ~link[l].open
    BY ZenonT(60), <1>5 DEF HeartbeatStops, Sent
  <2> HIDE DEF b
  <2>4. w \in WebSockets /\ w.seq = link[l].seq /\ w.held = link[l].held /\ w.open = b
    BY ZenonT(60), <1>4, <2>2 DEF WebSockets
  <2> HIDE DEF w
  <2> QED
    BY ZenonT(60), <1>1, <1>3, <2>1, <2>2, <2>3, <2>4
<1>6. CASE GatewayCloses(l)
  <2> DEFINE w == [link[l] EXCEPT !.open = FALSE]
  <2>1. link' = [link EXCEPT ![l] = w] /\ UNCHANGED <<attempt, join, session, told, served>>
    BY <1>1, <1>6 DEF GatewayCloses
  <2>2. w \in WebSockets /\ w.seq = link[l].seq /\ w.held = link[l].held /\ ~w.open
    BY ZenonT(60), <1>4 DEF WebSockets
  <2> HIDE DEF w
  <2> QED
    BY ZenonT(60), <1>1, <1>3, <2>1, <2>2
<1>7. ASSUME NEW e \in Events, NEW sequenced \in BOOLEAN, GatewaySends(l, e, sequenced)
      PROVE  ConnectInv'
  <2> DEFINE q == IF sequenced THEN served + 1 ELSE None
             m == [type |-> e.type, arg |-> e.arg, seq |-> q]
             w == [link[l] EXCEPT !.inbox = m]
  <2>1. /\ link' = [link EXCEPT ![l] = w] /\ UNCHANGED <<attempt, join, session, told>>
        /\ sequenced => served < MaxSeq
        /\ served' = IF sequenced THEN served + 1 ELSE served
    BY <1>1, <1>7 DEF GatewaySends
  <2>2. q \in SeqNumbers /\ served' \in 0..MaxSeq
    BY <1>1, <2>1, ConnectAssumption
  <2> HIDE DEF q
  <2>3. m \in Messages
    BY <2>2, SentFacts
  <2> HIDE DEF m
  <2>4. /\ w \in WebSockets /\ w.seq = link[l].seq /\ w.held = link[l].held
        /\ w.open = link[l].open /\ w.heart = link[l].heart
    BY <1>4, <2>3 DEF WebSockets
  <2> HIDE DEF w
  <2> QED
    BY ZenonT(60), <1>3, <2>1, <2>2, <2>4
<1> QED
  BY <1>2, <1>5, <1>6, <1>7

-----------------------------------------------------------------------------
(* The invariant. *)

\* Before the first attempt the invariant holds.
LEMMA InitInv == Init => ConnectInv
<1> SUFFICES ASSUME Init
             PROVE  ConnectInv
  OBVIOUS
<1>1. /\ attempt = Idle /\ attempt.stage = "idle" /\ attempt.link = None
      /\ link = [l \in Links |-> NoWebSocket]
      /\ join = None /\ session = None /\ told = NothingTold /\ served = 0
  BY DEF Init, Idle
<1>2. TypeOK
  BY <1>1, NewLinkFacts, NothingToldFacts, ConnectAssumption DEF TypeOK, Idle, Stages
<1>3. StageInv /\ SessionMovedOnce /\ PeersRecognized /\ ResumeAcksLast
  BY <1>1 DEF StageInv, SessionMovedOnce, PeersRecognized, ResumeAcksLast
<1>4. DaveTold /\ ReadyMatchesRuntime /\ OneKeyPackage
  BY <1>1, NothingToldFacts DEF DaveTold, ReadyMatchesRuntime, OneKeyPackage
<1>5. SeqInv /\ HeldInv /\ HeartbeatKept
  BY <1>1 DEF SeqInv, HeldInv, HeartbeatKept
<1> QED
  BY <1>2, <1>3, <1>4, <1>5 DEF ConnectInv

\* Every step of the connection preserves ConnectInv.
LEMMA NextKeeps == ConnectInv /\ [Next]_vars => ConnectInv'
<1> SUFFICES ASSUME ConnectInv, [Next]_vars
             PROVE  ConnectInv'
  OBVIOUS
<1>1. CASE UNCHANGED vars
  <2> USE <1>1 DEF vars
  <2>1. TypeOK' /\ StageInv' /\ OneKeyPackage' /\ SessionMovedOnce'
    BY SMTT(60) DEF ConnectInv, TypeOK, StageInv, OneKeyPackage, SessionMovedOnce
  <2>2. ReadyMatchesRuntime' /\ DaveTold' /\ PeersRecognized'
    BY SMTT(60) DEF ConnectInv, ReadyMatchesRuntime, DaveTold, PeersRecognized
  <2>3. SeqInv' /\ ResumeAcksLast' /\ HeldInv' /\ HeartbeatKept'
    BY DEF ConnectInv, SeqInv, SeqAck, ResumeAcksLast, HeldInv, HeartbeatKept
  <2> QED
    BY SMTT(60), <2>1, <2>2, <2>3 DEF ConnectInv
<1>2. CASE Connect
  BY <1>2, ConnectKeeps
<1>3. CASE Step
  <2>1. CASE TimesOut \/ ReceiveFails
    BY <2>1, FailsKeeps DEF TimesOut, ReceiveFails
  <2> QED
    BY <1>3, <2>1, HelloKeeps, ReadyKeeps, ResumedKeeps, DescriptionKeeps, DaveEventKeeps DEF Step
<1>4. CASE GraceEnds
  BY <1>4, GraceEndsKeeps
<1>5. CASE Cancelled
  BY <1>5, FailsKeeps DEF Cancelled
<1>6. CASE SessionReceives
  BY <1>6, SessionReceivesKeeps
<1>7. CASE SessionFindsClosed \/ Suspend
  BY <1>7, SuspendKeeps
<1>8. CASE Resume
  BY <1>8, ResumeKeeps
<1>9. CASE Drop
  BY <1>9, DropKeeps
<1>10. CASE Tick
  <2>1. attempt.link \in Links
    BY <1>10 DEF Tick, ConnectInv, TypeOK, StageInv
  <2> QED
    BY <1>10, <2>1, EnvironmentKeeps
<1>11. CASE \E l \in Links :
              \/ HeartbeatStops(l) \/ GatewayCloses(l)
              \/ \E e \in Events, sequenced \in BOOLEAN : GatewaySends(l, e, sequenced)
  BY <1>11, EnvironmentKeeps
<1> QED
  BY <1>1, <1>2, <1>3, <1>4, <1>5, <1>6, <1>7, <1>8, <1>9, <1>10, <1>11 DEF Next

\* At every moment of every connect, resume, suspension and drop: one key
\* package at most, the DAVE session moved once, "ready" announced for what the
\* session runs, announced peers recognized, the last sequence number kept for
\* the resume, heartbeats going on over every link in use.
THEOREM ConnectInvariant == Spec => []ConnectInv
<1>1. Init => ConnectInv
  BY InitInv
<1>2. ConnectInv /\ [Next]_vars => ConnectInv'
  BY NextKeeps
<1> QED
  BY <1>1, <1>2, PTL DEF Spec

\* The gateway hears "ready" for the transition the session runs and for no
\* other.
THEOREM ReadyAlwaysMatches == Spec => []ReadyMatchesRuntime
<1>1. ConnectInv => ReadyMatchesRuntime
  BY DEF ConnectInv
<1> QED
  BY <1>1, ConnectInvariant, PTL

\* A step that ends without a runtime of a numbered transition, or not in a new
\* session.
Adopted ==
  session = None /\ session' # None =>
       \/ session'.dave = None
       \/ session'.dave.runtime \in {None, 0}
       \/ /\ link[attempt.link].inbox # None
          /\ link[attempt.link].inbox.type = "Execute"
          /\ link[attempt.link].inbox.arg = session'.dave.runtime

\* A session is built from what the event at hand executes, or without a numbered
\* transition.
LEMMA ConnectsAdopted ==
  ASSUME NEW d, Connects(d),
         \/ d = None
         \/ d.runtime \in {None, 0}
         \/ Event # None /\ Event.type = "Execute" /\ Event.arg = d.runtime
  PROVE  Adopted
<1>1. session'.dave = d
  BY DEF Connects, Session
<1> QED
  BY <1>1 DEF Adopted, Event

\* A step of the DAVE loop that builds a session executes its transition or
\* founds the group.
LEMMA DaveEventAdopted == DaveEvent => Adopted
<1> SUFFICES ASSUME DaveEvent
             PROVE  Adopted
  OBVIOUS
<1>1. ASSUME session' = session
      PROVE  Adopted
  BY <1>1 DEF Adopted
<1>2. ASSUME NEW w, NEW b, Connects(Dave(join, 0, w, b))
      PROVE  Adopted
  <2>1. Dave(join, 0, w, b).runtime = 0
    BY DEF Dave
  <2> QED
    BY <1>2, <2>1, ConnectsAdopted
<1>3. CASE Execute(Event)
  <2>1. CASE Executes(Event)
    <3> DEFINE d == Dave(join, join.pending.id,
                         IF join.pending.welcome THEN {join.pending.id} ELSE {}, FALSE)
    <3>1. Connects(d) /\ d.runtime = join.pending.id
      BY SMTT(60), <1>3, <2>1 DEF Execute, Dave
    <3>2. Event # None /\ Event.type = "Execute" /\ Event.arg = join.pending.id
      BY <1>3, <2>1 DEF Execute, Executes, DaveEvent
    <3> HIDE DEF d
    <3> QED
      BY <3>1, <3>2, ConnectsAdopted
  <2>2. CASE ~Executes(Event)
    BY <1>1, <1>3, <2>2 DEF Execute, Continue
  <2> QED
    BY <2>1, <2>2
<1>4. CASE Waiting(Event) \/ Peer(Event) \/ ExternalSender(Event) \/ PrepareEpoch(Event)
           \/ Ignored(Event)
  BY ZenonT(60), <1>1, <1>4 DEF Waiting, Peer, ExternalSender, PrepareEpoch, Ignored, Continue, Fails
<1>5. CASE Proposals(Event)
  BY ZenonT(60), <1>1, <1>2, <1>5 DEF Proposals, LocalCreator, Continue, Fails
<1>6. CASE Joins(Event)
  BY ZenonT(60), <1>1, <1>2, <1>6 DEF Joins, Continue, Fails
<1> QED
  BY <1>3, <1>4, <1>5, <1>6 DEF DaveEvent

\* No step adopts a runtime but the execution of its transition.
LEMMA NextAdopted == ConnectInv /\ [Next]_vars => Adopted
<1> SUFFICES ASSUME ConnectInv, [Next]_vars
             PROVE  Adopted
  OBVIOUS
<1>1. ASSUME session' = session \/ session # None
      PROVE  Adopted
  BY <1>1 DEF Adopted
<1>2. CASE UNCHANGED vars
  BY <1>1, <1>2 DEF vars
<1>3. CASE Connect
  <2>1. ASSUME session' = [Session(None, None) EXCEPT !.media = FALSE]
        PROVE  session'.dave = None
    BY <2>1 DEF Session
  <2> QED
    BY <1>1, <1>3, <2>1 DEF Connect, Adopted
<1>4. CASE Description
  BY <1>1, <1>4, ConnectsAdopted DEF Description, Fails
<1>5. CASE GraceEnds
  BY <1>5 DEF GraceEnds, Session, Dave, Adopted
<1>6. CASE Hello \/ Ready \/ TimesOut \/ ReceiveFails \/ Cancelled \/ Tick \/ Resume
  BY <1>1, <1>6 DEF Hello, Ready, TimesOut, ReceiveFails, Cancelled, Tick, Resume, Fails
<1>7. CASE SessionReceives \/ SessionFindsClosed \/ Suspend \/ Drop
  BY ZenonT(60), <1>1, <1>7 DEF SessionReceives, SessionFindsClosed, Suspend, Drop, Open
<1>8. CASE \E l \in Links :
             \/ HeartbeatStops(l) \/ GatewayCloses(l)
             \/ \E e \in Events, sequenced \in BOOLEAN : GatewaySends(l, e, sequenced)
  BY ZenonT(60), <1>1, <1>8 DEF HeartbeatStops, GatewayCloses, GatewaySends
<1>9. CASE Resumed
  BY <1>1, <1>9 DEF Resumed, ConnectInv, StageInv
<1> QED
  BY <1>2, <1>3, <1>4, <1>5, <1>6, <1>7, <1>8, <1>9, DaveEventAdopted DEF Next, Step

\* A runtime of a numbered transition is adopted by the gateway's execution of
\* that transition, and by no other step of the connection.
THEOREM OnlyExecutionAdopts == Spec => AdoptedOnExecute
<1>1. ConnectInv /\ [Next]_vars => [Adopted]_vars
  BY NextAdopted
<1>2. Spec => [][Adopted]_vars
  BY <1>1, ConnectInvariant, PTL DEF Spec
<1> QED
  BY <1>2 DEF AdoptedOnExecute, Adopted
=============================================================================
