------------------------ MODULE VoiceObserverProofs ------------------------
(***************************************************************************)
(* Proofs about VoiceObserver, for every set of users, sources and         *)
(* transitions and every number of arrivals.  First the joins and what a   *)
(* call returns: ListenInv is inductive, and a refused transition never    *)
(* completes a join.  Then the types and the map: with the updates that a  *)
(* join defers, the map stays what the gateway said.                       *)
(***************************************************************************)
EXTENDS VoiceObserver, TLAPS, WellFoundedInduction

-----------------------------------------------------------------------------
(* Facts about the operators. *)

\* Without a join nothing is refused.
LEMMA NoJoinFacts == IsPending(NoJoin) /\ NoJoin.refused = {} /\ NoJoin.invalidated = {}
<1>1. PICK p : p = Pending(FALSE, {}, {}, FALSE)
  BY ZenonT(60)
<1>2. IsPending(p) /\ p.refused = {} /\ p.invalidated = {}
  BY Zenon, <1>1 DEF Pending, IsPending
<1>3. ASSUME NEW q, q = [p EXCEPT !.key = FALSE, !.keys = 0]
      PROVE  IsPending(q) /\ q.refused = {} /\ q.invalidated = {}
  BY Zenon, <1>2, <1>3 DEF IsPending
<1> QED
  BY Zenon, <1>1, <1>3 DEF NoJoin

\* A session that just connected has the shape of one.
LEMMA NewSessionFacts == IsSession(NewSession)
BY Zenon DEF NewSession, IsSession

\* send_pending_join_key_package sends nothing when the join has sent one.
LEMMA KeyPackageFacts ==
  ASSUME NEW p, IsPending(p)
  PROVE  /\ IsPending(KeyPackage(p)) /\ KeyPackage(p).key
         /\ KeyPackage(p).refused = p.refused /\ KeyPackage(p).invalidated = p.invalidated
         /\ KeyPackage(p).saw = p.saw
         /\ KeyPackage(p).keys = IF p.key THEN p.keys ELSE p.keys + 1
BY Zenon DEF KeyPackage, IsPending

\* What a call returns names its kind, its user and whom the call asked for.
LEMMA ToldFacts ==
  ASSUME NEW kind, NEW u, Return(Told(kind, u))
  PROVE  out'.kind = kind
BY Zenon DEF Return, Told, Nothing

\* A call that returns a packet returns it as that of the user it is mapped to.
LEMMA PacketFacts ==
  ASSUME NEW u, NEW s, Return([Told("packet", u) EXCEPT !.ssrc = s])
  PROVE  out'.kind = "packet" /\ out'.user = u /\ out'.from = call.from
BY Zenon DEF Return, Told, Nothing

\* A call that returns a frame returns it as opened with the runtime, or silent.
LEMMA FrameFacts ==
  ASSUME NEW u, NEW s, NEW payload, NEW late, Return(Frame(u, s, payload, late))
  PROVE  /\ out'.user = u /\ out'.from = call.from
         /\ out'.opened = (payload = "silence" \/ obs.dave)
BY Zenon DEF Return, Frame, Nothing

\* apply_observer_dave_ready gives the session its runtime, and completes one
\* transition.
LEMMA DaveReadyFacts ==
  ASSUME NEW id, IsSession(obs)
  PROVE  /\ IsSession(DaveReady(id)) /\ DaveReady(id).dave
         /\ DaveReady(id).completed = obs.completed \cup {id}
<1> SUFFICES ASSUME NEW o, o = DaveReady(id)
             PROVE  IsSession(o) /\ o.dave /\ o.completed = obs.completed \cup {id}
  OBVIOUS
<1> QED
  BY Zenon DEF DaveReady, IsSession

-----------------------------------------------------------------------------
(* The kinds of steps. *)

\* The end of a session.
LEMMA CloseKeeps ==
  ASSUME Close
  PROVE  ListenInv'
<1>1. /\ phase' = "closed" /\ pend' = NoJoin /\ obs' = NewSession /\ out' = Nothing
      /\ authored' = FALSE
  BY Zenon DEF Close
<1>2. KeyPackagePerSession' /\ LeavesAuthoring' /\ RuntimeKept'
  BY Zenon, <1>1 DEF KeyPackagePerSession, LeavesAuthoring, RuntimeKept
<1>3. FrameFromExpected' /\ FramesDecrypted'
  BY Zenon, <1>1 DEF FrameFromExpected, FramesDecrypted, Nothing
<1>4. RefusalsKept' /\ IsPending(pend') /\ IsSession(obs')
  BY Zenon, <1>1, NoJoinFacts, NewSessionFacts DEF RefusalsKept
<1> QED
  BY Zenon, <1>2, <1>3, <1>4 DEF ListenInv

\* A step of a call: the join and the runtime stay, and what is returned is the
\* expected user's, and opened when the channel uses DAVE.
LEMMA CallKeeps ==
  ASSUME ListenInv, UNCHANGED <<phase, secure, pend, dropped, authored>>,
         IsSession(obs'), obs'.dave = obs.dave,
         \/ out' = out
         \/ /\ out'.kind \in {"frame", "packet"} => out'.from \in {None, out'.user}
            /\ out'.kind = "frame" /\ secure /\ ~dropped => out'.opened
  PROVE  ListenInv'
<1>1. FrameFromExpected' /\ FramesDecrypted'
  BY Zenon DEF ListenInv, FrameFromExpected, FramesDecrypted
<1>2. KeyPackagePerSession' /\ LeavesAuthoring' /\ RuntimeKept' /\ RefusalsKept'
  BY Zenon DEF ListenInv, KeyPackagePerSession, LeavesAuthoring, RuntimeKept, RefusalsKept
<1> QED
  BY Zenon, <1>1, <1>2 DEF ListenInv

\* A step of a join that goes on.
LEMMA JoinKeeps ==
  ASSUME ListenInv, phase \in {"seeding", "joining"}, phase' \in {"seeding", "joining"},
         UNCHANGED <<secure, obs, out, dropped, authored>>,
         IsPending(pend'), pend'.key, pend'.keys = 1, RefusalsKept'
  PROVE  ListenInv'
<1>1. FrameFromExpected' /\ FramesDecrypted' /\ LeavesAuthoring'
  BY Zenon DEF ListenInv, FrameFromExpected, FramesDecrypted, LeavesAuthoring
<1>2. KeyPackagePerSession' /\ RuntimeKept'
  BY Zenon DEF KeyPackagePerSession, RuntimeKept
<1> QED
  BY Zenon, <1>1, <1>2 DEF ListenInv

\* The join's events other than MLS messages, and the end of the seeding.
LEMMA JoinEventKeeps ==
  ASSUME ListenInv,
         \/ \E u \in Users : JoinConnect(u) \/ JoinDisconnect(u)
         \/ \E s \in Ssrcs : JoinSpeaking(s)
         \/ JoinExternalSender
         \/ \E id \in Ids \cup {None} : JoinPrepareEpoch(id)
         \/ \E event \in MlsEvents \cup {None} : SeedEnds(event)
  PROVE  ListenInv'
<1> USE DEF Learns, Joining, Defer
<1>1. phase \in {"seeding", "joining"}
  BY Zenon DEF JoinConnect, JoinDisconnect, JoinSpeaking, JoinExternalSender, JoinPrepareEpoch, SeedEnds
<1>2. IsPending(pend) /\ pend.key /\ pend.keys = 1 /\ RefusalsKept
  BY Zenon, <1>1 DEF ListenInv, KeyPackagePerSession
<1>3. ASSUME IsPending(pend'), pend'.key, pend'.keys = 1, pend'.refused = pend.refused,
             pend'.invalidated = pend.invalidated, pend.saw => pend'.saw,
             UNCHANGED <<secure, obs, out, dropped, authored>>,
             phase' \in {"seeding", "joining"}
      PROVE  ListenInv'
  <2>1. RefusalsKept'
    BY Zenon, <1>2, <1>3 DEF RefusalsKept
  <2> QED
    BY Zenon, <1>1, <1>3, <2>1, JoinKeeps
<1>4. ASSUME NEW u \in Users, JoinConnect(u)
      PROVE  ListenInv'
  BY Zenon, <1>1, <1>2, <1>3, <1>4 DEF JoinConnect, IsPending
<1>5. ASSUME NEW u \in Users, JoinDisconnect(u)
      PROVE  ListenInv'
  BY Zenon, <1>1, <1>2, <1>3, <1>5 DEF JoinDisconnect, IsPending
<1>6. ASSUME NEW s \in Ssrcs, JoinSpeaking(s)
      PROVE  ListenInv'
  BY Zenon, <1>1, <1>2, <1>3, <1>6 DEF JoinSpeaking, IsPending
<1>7. CASE JoinExternalSender
  BY Zenon, <1>1, <1>2, <1>3, <1>7 DEF JoinExternalSender, IsPending
<1>8. ASSUME NEW id \in Ids \cup {None}, JoinPrepareEpoch(id)
      PROVE  ListenInv'
  <2> DEFINE p == [pend EXCEPT !.prepared = Prepared(id)]
  <2>1. /\ IsPending(p) /\ p.key /\ p.keys = 1 /\ p.refused = pend.refused
        /\ p.invalidated = pend.invalidated /\ p.saw = pend.saw
    BY <1>2 DEF IsPending
  <2>2. /\ pend' = IF phase = "seeding" THEN p ELSE KeyPackage(p)
        /\ UNCHANGED <<phase, secure, obs, out, dropped, authored>>
    BY Zenon, <1>8 DEF JoinPrepareEpoch
  <2> HIDE DEF p
  <2> QED
    BY Zenon, <1>1, <1>3, <2>1, <2>2, KeyPackageFacts
<1>9. ASSUME NEW event \in MlsEvents \cup {None}, SeedEnds(event)
      PROVE  ListenInv'
  BY Zenon, <1>1, <1>2, <1>3, <1>9 DEF SeedEnds, IsPending
<1> QED
  BY Zenon, <1>4, <1>5, <1>6, <1>7, <1>8, <1>9

\* The join completes: the session listens with a runtime.
LEMMA ReadyKeeps ==
  ASSUME ListenInv, NEW id, Ready(id), ~authored'
  PROVE  ListenInv'
<1>1. /\ phase' = "listening" /\ obs' = DaveReady(id) /\ pend' = NoJoin
      /\ UNCHANGED <<secure, out, dropped>>
  BY Zenon DEF Ready
<1>2. IsSession(obs') /\ obs'.dave
  BY Zenon, <1>1, DaveReadyFacts DEF ListenInv
<1>3. KeyPackagePerSession' /\ LeavesAuthoring' /\ RuntimeKept'
  BY Zenon, <1>1, <1>2 DEF KeyPackagePerSession, LeavesAuthoring, RuntimeKept
<1>4. FrameFromExpected' /\ FramesDecrypted'
  BY Zenon, <1>1 DEF ListenInv, FrameFromExpected, FramesDecrypted
<1>5. RefusalsKept' /\ IsPending(pend')
  BY Zenon, <1>1, NoJoinFacts DEF RefusalsKept
<1> QED
  BY Zenon, <1>2, <1>3, <1>4, <1>5 DEF ListenInv

\* Proposals in a join: kept, or authored by an observer that may.
LEMMA JoinProposalsKeeps == ListenInv /\ JoinProposals => ListenInv'
<1> SUFFICES ASSUME ListenInv, JoinProposals
             PROVE  ListenInv'
  OBVIOUS
<1>1. /\ phase = "joining" /\ IsPending(pend) /\ pend.key /\ pend.keys = 1 /\ RefusalsKept
  BY Zenon DEF JoinProposals, ListenInv, KeyPackagePerSession
<1>2. ASSUME NEW winner, NEW staged,
             \/ pend' = [pend EXCEPT !.seeded = None, !.winner = winner, !.staged = staged]
             \/ pend' = [pend EXCEPT !.seeded = None, !.staged = staged],
             UNCHANGED <<phase, secure, obs, out, dropped, authored>>
      PROVE  ListenInv'
  <2>1. /\ IsPending(pend') /\ pend'.key /\ pend'.keys = 1 /\ pend'.refused = pend.refused
        /\ pend'.invalidated = pend.invalidated /\ pend'.saw = pend.saw
    BY Zenon, <1>1, <1>2 DEF IsPending
  <2>2. RefusalsKept'
    BY Zenon, <1>1, <2>1 DEF RefusalsKept
  <2> QED
    BY Zenon, <1>1, <1>2, <2>1, <2>2, JoinKeeps
<1>3. CASE ~Awaits /\ authored' = ~author /\ Ready(0)
  <2>1. ~authored'
    BY <1>3, Zenon DEF Awaits
  <2> QED
    BY Zenon, <1>3, <2>1, ReadyKeeps
<1> QED
  BY Zenon, <1>2, <1>3 DEF JoinProposals

\* A join that declares a transition invalid starts over with a key package.
LEMMA RestartedFacts ==
  ASSUME NEW id, IsPending(pend)
  PROVE  /\ IsPending(Restarted(id)) /\ Restarted(id).key /\ Restarted(id).keys = 1
         /\ Restarted(id).refused = pend.refused \cup {id}
         /\ Restarted(id).invalidated = pend.invalidated \cup {id} /\ Restarted(id).saw
<1>1. PICK p : p = [pend EXCEPT !.prepared = {}, !.invalidated = @ \cup {id}, !.key = FALSE,
                            !.refused = @ \cup {id},
                            !.keys = 0, !.winner = FALSE, !.staged = 0, !.saw = TRUE,
                            !.seeded = None]
  OBVIOUS
<1>2. /\ IsPending(p) /\ ~p.key /\ p.keys = 0 /\ p.saw
      /\ p.refused = pend.refused \cup {id} /\ p.invalidated = pend.invalidated \cup {id}
  BY Zenon, <1>1 DEF IsPending
<1>3. Restarted(id) = KeyPackage(p)
  BY Zenon, <1>1 DEF Restarted
<1> QED
  BY <1>2, <1>3, KeyPackageFacts

\* A commit or a welcome preserves the invariant, whether it is passed over,
\* completes the join or restarts it.
LEMMA JoinTransitionKeeps ==
  ASSUME ListenInv, NEW id \in Ids, JoinTransition(id)
  PROVE  ListenInv'
<1>1. /\ phase = "joining" /\ IsPending(pend) /\ pend.key /\ pend.keys = 1 /\ RefusalsKept
      /\ ~authored
  BY Zenon DEF JoinTransition, ListenInv, KeyPackagePerSession, LeavesAuthoring
<1>2. CASE Ready(id) /\ UNCHANGED authored
  BY Zenon, <1>1, <1>2, ReadyKeeps
<1>3. CASE /\ pend' = [pend EXCEPT !.prepared = @ \ {id}, !.seeded = None]
           /\ UNCHANGED <<phase, secure, obs, out, dropped, authored>>
  <2>1. /\ IsPending(pend') /\ pend'.key /\ pend'.keys = 1 /\ pend'.refused = pend.refused
        /\ pend'.invalidated = pend.invalidated /\ pend'.saw = pend.saw
    BY Zenon, <1>1, <1>3 DEF IsPending
  <2>2. RefusalsKept'
    BY Zenon, <1>1, <2>1 DEF RefusalsKept
  <2> QED
    BY Zenon, <1>1, <1>3, <2>1, <2>2, JoinKeeps
<1>4. CASE /\ pend' = Restarted(id)
           /\ UNCHANGED <<phase, secure, obs, out, dropped, authored>>
  <2>1. /\ IsPending(pend') /\ pend'.key /\ pend'.keys = 1 /\ pend'.saw
        /\ pend'.refused = pend.refused \cup {id}
        /\ pend'.invalidated = pend.invalidated \cup {id}
    BY Zenon, <1>1, <1>4, RestartedFacts
  <2>2. RefusalsKept'
    BY Zenon, <1>1, <2>1 DEF RefusalsKept
  <2> QED
    BY Zenon, <1>1, <1>4, <2>1, <2>2, JoinKeeps
<1> QED
  BY Zenon, <1>2, <1>3, <1>4 DEF JoinTransition

-----------------------------------------------------------------------------
(* Listening. *)

\* An MLS failure: the session waits for a new join, without its runtime.
LEMMA RejoinKeeps ==
  ASSUME ListenInv, NEW invalidated, Rejoin(invalidated)
  PROVE  ListenInv'
<1>1. /\ phase' = "joining" /\ pend' = Pending(TRUE, obs.recognized, invalidated, TRUE)
      /\ obs' = [obs EXCEPT !.dave = FALSE]
      /\ UNCHANGED <<secure, out, dropped, authored>>
  BY Zenon DEF Rejoin, Reinitialized
<1>2. /\ IsPending(pend') /\ pend'.key /\ pend'.keys = 1 /\ pend'.saw
      /\ pend'.refused = pend'.invalidated
  BY Zenon, <1>1 DEF Pending, IsPending
<1>3. IsSession(obs')
  BY Zenon, <1>1 DEF ListenInv, IsSession
<1>4. FrameFromExpected' /\ FramesDecrypted' /\ LeavesAuthoring'
  BY Zenon, <1>1 DEF ListenInv, FrameFromExpected, FramesDecrypted, LeavesAuthoring
<1>5. KeyPackagePerSession' /\ RuntimeKept' /\ RefusalsKept'
  BY Zenon, <1>1, <1>2 DEF KeyPackagePerSession, RuntimeKept, RefusalsKept
<1> QED
  BY Zenon, <1>2, <1>3, <1>4, <1>5 DEF ListenInv

\* What a call returns: nothing, or the frame or the packet of the user it asks
\* for.
LEMMA ReturnKeeps ==
  ASSUME ListenInv, phase = "listening",
         UNCHANGED <<phase, secure, pend, dropped, authored>>,
         IsSession(obs'), obs'.dave = obs.dave,
         \/ \E kind \in {"leave", "speaking", "timeout"} : \E u : Return(Told(kind, u))
         \/ \E u, s, payload, late :
              /\ ~Unexpected(u)
              /\ \/ Return(Frame(u, s, payload, late))
                 \/ Return([Told("packet", u) EXCEPT !.ssrc = s])
  PROVE  ListenInv'
<1>1. secure /\ ~dropped => obs.dave
  BY Zenon DEF ListenInv, RuntimeKept
<1>2. CASE \E kind \in {"leave", "speaking", "timeout"} : \E u : Return(Told(kind, u))
  <2>1. out'.kind \in {"leave", "speaking", "timeout"}
    BY Zenon, <1>2, ToldFacts
  <2> QED
    BY Zenon, <2>1, CallKeeps
<1>3. ASSUME NEW u, NEW s, NEW payload, NEW late, ~Unexpected(u),
             Return(Frame(u, s, payload, late))
      PROVE  ListenInv'
  <2>1. /\ out'.user = u /\ out'.from = call.from
        /\ out'.opened = (payload = "silence" \/ obs.dave)
    BY Zenon, <1>3, FrameFacts
  <2>2. out'.from \in {None, out'.user}
    BY Zenon, <1>3, <2>1 DEF Unexpected
  <2>3. secure /\ ~dropped => out'.opened
    BY <1>1, <2>1, Zenon
  <2> QED
    BY Zenon, <2>2, <2>3, CallKeeps
<1>4. ASSUME NEW u, NEW s, ~Unexpected(u), Return([Told("packet", u) EXCEPT !.ssrc = s])
      PROVE  ListenInv'
  <2>1. /\ out'.kind = "packet" /\ out'.user = u /\ out'.from = call.from
    BY Zenon, <1>4, PacketFacts
  <2>2. out'.from \in {None, out'.user}
    BY Zenon, <1>4, <2>1 DEF Unexpected
  <2> QED
    BY Zenon, <2>1, <2>2, CallKeeps
<1> QED
  BY Zenon, <1>2, <1>3, <1>4

\* What a call has queued.
LEMMA QueueKeeps == ListenInv /\ QueueStep => ListenInv'
<1> SUFFICES ASSUME ListenInv, QueueStep
             PROVE  ListenInv'
  OBVIOUS
<1>1. IsSession(obs) /\ phase = "listening"
  BY Zenon DEF ListenInv, QueueStep, TakeDisconnect, TakeSpeaking, TryPending
<1>2. CASE TakeDisconnect
  <2>1. IsSession(obs') /\ obs'.dave = obs.dave
    BY Zenon, <1>1, <1>2 DEF TakeDisconnect, IsSession
  <2> QED
    BY Zenon, <1>1, <1>2, <2>1, ReturnKeeps DEF TakeDisconnect
<1>3. CASE TakeSpeaking
  <2>1. IsSession(obs') /\ obs'.dave = obs.dave
    BY Zenon, <1>1, <1>3 DEF TakeSpeaking, IsSession
  <2>2. CASE out' = out
    BY Zenon, <1>3, <2>1, <2>2, CallKeeps DEF TakeSpeaking
  <2>3. CASE Return(Told("speaking", call.from))
    BY Zenon, <1>1, <1>3, <2>1, <2>3, ReturnKeeps DEF TakeSpeaking
  <2> QED
    BY Zenon, <1>3, <2>2, <2>3 DEF TakeSpeaking
<1>4. ASSUME NEW dropping, obs' = Without(dropping)
      PROVE  IsSession(obs') /\ obs'.dave = obs.dave
  BY Zenon, <1>1, <1>4 DEF Without, IsSession
<1>5. CASE TryPending
  <2>1. CASE obs' = Without(Foreign) /\ UNCHANGED <<phase, secure, pend, out, dropped, authored>>
    BY Zenon, <1>4, <2>1, CallKeeps
  <2>2. ASSUME NEW s \in Mapped \ Foreign, NEW before \in SUBSET Mapped,
               obs' = Without({s} \cup (before \cap Foreign)),
               Return(Frame(obs.ssrcs[s], s, obs.packets[s], s \in passed)),
               UNCHANGED <<phase, secure, pend, dropped, authored>>
        PROVE  ListenInv'
    <3>1. ~Unexpected(obs.ssrcs[s])
      BY Zenon DEF Foreign
    <3>2. IsSession(obs') /\ obs'.dave = obs.dave
      BY Zenon, <1>4, <2>2
    <3> QED
      BY Zenon, <1>1, <2>2, <3>1, <3>2, ReturnKeeps
  <2> QED
    BY Zenon, <1>5, <2>1, <2>2, CloseKeeps DEF TryPending
<1> QED
  BY Zenon, <1>2, <1>3, <1>5 DEF QueueStep

\* The packet of a source mapped to a user the call asks for.
LEMMA MappedPacketKeeps ==
  ASSUME ListenInv, phase = "listening", NEW u, NEW s, NEW payload, ~Unexpected(u),
         MappedPacket(u, s, payload),
         UNCHANGED <<phase, secure, pend, dropped, authored>>
  PROVE  ListenInv'
<1>1. PICK o : o = [obs EXCEPT !.ssrcs[s] = u, !.packets[s] = None]
  OBVIOUS
<1>2. IsSession(o) /\ o.dave = obs.dave
  BY Zenon, <1>1 DEF ListenInv, IsSession
<1>3. ASSUME NEW p, p = Buffer(o, s, payload)
      PROVE  IsSession(p) /\ p.dave = obs.dave
  BY Zenon, <1>2, <1>3 DEF Buffer, IsSession
<1>4. obs' = o \/ obs' = Buffer(o, s, payload)
  BY Zenon, <1>1 DEF MappedPacket
<1>5. IsSession(obs') /\ obs'.dave = obs.dave
  BY Zenon, <1>2, <1>3, <1>4
<1>6. CASE out' = out
  BY Zenon, <1>5, <1>6, CallKeeps
<1>7. CASE Return(Frame(u, s, payload, FALSE)) \/ Return([Told("packet", u) EXCEPT !.ssrc = s])
  BY Zenon, <1>5, <1>7, ReturnKeeps
<1> QED
  BY Zenon, <1>6, <1>7 DEF MappedPacket, GoesOn

\* A packet preserves the invariant, whether it is returned, kept or passed over.
LEMMA PacketKeeps ==
  ASSUME ListenInv, NEW s \in Ssrcs, NEW payload \in Payloads, Packet(s, payload)
  PROVE  ListenInv'
<1>1. /\ phase = "listening" /\ UNCHANGED <<phase, secure, pend, dropped, authored>>
      /\ IsSession(obs)
  BY Zenon DEF Packet, Receives, Waits, ListenInv
<1>2. ASSUME NEW u, obs' = [obs EXCEPT !.ssrcs[s] = u]
      PROVE  IsSession(obs') /\ obs'.dave = obs.dave
  BY Zenon, <1>1, <1>2 DEF IsSession
<1>3. ASSUME NEW p, obs' = [obs EXCEPT !.packets[s] = p]
      PROVE  IsSession(obs') /\ obs'.dave = obs.dave
  BY Zenon, <1>1, <1>3 DEF IsSession
<1>4. CASE UnknownPacket(s, payload)
  <2>1. CASE UNCHANGED <<obs, passed>> /\ GoesOn
    BY Zenon, <1>1, <2>1, CallKeeps DEF GoesOn
  <2>2. CASE /\ Guessing /\ obs' = [obs EXCEPT !.ssrcs[s] = call.from]
             /\ Return(Frame(call.from, s, payload, FALSE))
    <3>1. ~Unexpected(call.from)
      BY Zenon DEF Unexpected
    <3>2. IsSession(obs') /\ obs'.dave = obs.dave
      BY Zenon, <1>2, <2>2
    <3> QED
      BY Zenon, <1>1, <2>2, <3>1, <3>2, ReturnKeeps
  <2>3. ASSUME NEW c \in Inferred, MappedPacket(c, s, payload)
        PROVE  ListenInv'
    <3>1. ~Unexpected(c)
      BY Zenon DEF Inferred
    <3> QED
      BY Zenon, <1>1, <2>3, <3>1, MappedPacketKeeps
  <2>4. CASE obs' = Buffer(obs, s, payload) /\ GoesOn
    BY Zenon, <1>1, <1>3, <2>4, CallKeeps DEF GoesOn, Buffer
  <2> QED
    BY Zenon, <1>4, <2>1, <2>2, <2>3, <2>4 DEF UnknownPacket
<1>5. CASE ~Unexpected(obs.ssrcs[s]) /\ MappedPacket(obs.ssrcs[s], s, payload)
  BY Zenon, <1>1, <1>5, MappedPacketKeeps
<1>6. CASE obs' = [obs EXCEPT !.packets[s] = None] /\ GoesOn
  BY Zenon, <1>1, <1>3, <1>6, CallKeeps DEF GoesOn
<1> QED
  BY Zenon, <1>4, <1>5, <1>6 DEF Packet

\* Gateway events while a call waits.
LEMMA GatewayEventKeeps ==
  ASSUME ListenInv,
         \/ \E s \in Ssrcs, named, on \in BOOLEAN : Speaking(s, named, on)
         \/ \E u \in Users : ClientsConnect(u) \/ ClientDisconnect(u)
         \/ Proposals \/ Ignored \/ GatewayClosed
         \/ \E id \in Ids : Transition(id)
  PROVE  ListenInv'
<1>1. IsSession(obs)
  BY Zenon DEF ListenInv
<1>2. ASSUME UNCHANGED <<phase, secure, pend, dropped, authored>>, out' = out,
             IsSession(obs'), obs'.dave = obs.dave
      PROVE  ListenInv'
  BY Zenon, <1>2, CallKeeps
<1>3. ASSUME NEW s \in Ssrcs, NEW named \in BOOLEAN, NEW on \in BOOLEAN, Speaking(s, named, on)
      PROVE  ListenInv'
  <2>1. \/ obs' = obs
        \/ \E u, n : obs' = [obs EXCEPT !.ssrcs[s] = u, !.states = n]
    BY Zenon, <1>3 DEF Speaking
  <2>2. IsSession(obs') /\ obs'.dave = obs.dave
    BY Zenon, <1>1, <2>1 DEF IsSession
  <2> QED
    BY Zenon, <1>2, <1>3, <2>2 DEF Speaking, Again
<1>4. ASSUME NEW u \in Users, ClientsConnect(u)
      PROVE  ListenInv'
  <2>1. IsSession(obs') /\ obs'.dave = obs.dave
    BY Zenon, <1>1, <1>4 DEF ClientsConnect, IsSession
  <2> QED
    BY Zenon, <1>2, <1>4, <2>1 DEF ClientsConnect, Again
<1>5. ASSUME NEW u \in Users, ClientDisconnect(u)
      PROVE  ListenInv'
  <2>1. IsSession(obs') /\ obs'.dave = obs.dave
    BY Zenon, <1>1, <1>5 DEF ClientDisconnect, IsSession
  <2> QED
    BY Zenon, <1>2, <1>5, <2>1 DEF ClientDisconnect, Again
<1>6. CASE Proposals
  <2>1. CASE Rejoin({})
    BY Zenon, <2>1, RejoinKeeps
  <2>2. CASE obs' = [obs EXCEPT !.proposals = @ + 1] /\ Again
             /\ UNCHANGED <<phase, secure, pend, dropped, authored>>
    <3>1. IsSession(obs') /\ obs'.dave = obs.dave
      BY Zenon, <1>1, <2>2 DEF IsSession
    <3> QED
      BY Zenon, <1>2, <2>2, <3>1 DEF Again
  <2>3. CASE Again /\ UNCHANGED <<phase, secure, pend, obs, dropped, authored>>
    BY Zenon, <1>1, <1>2, <2>3 DEF Again
  <2> QED
    BY Zenon, <1>6, <2>1, <2>2, <2>3 DEF Proposals
<1>7. CASE Ignored
  BY Zenon, <1>1, <1>2, <1>7 DEF Ignored, Again, GoesOn
<1>8. CASE GatewayClosed
  <2>1. IsSession(obs') /\ obs'.dave = obs.dave
    BY Zenon, <1>1, <1>8 DEF GatewayClosed, IsSession
  <2> QED
    BY Zenon, <1>2, <1>8, <2>1 DEF GatewayClosed, GoesOn
<1>9. ASSUME NEW id \in Ids, Transition(id)
      PROVE  ListenInv'
  <2>1. CASE Rejoin({id})
    BY Zenon, <2>1, RejoinKeeps
  <2>2. CASE obs' = Applied(id) /\ Again /\ UNCHANGED <<phase, secure, pend, dropped, authored>>
    <3>1. IsSession(obs') /\ obs'.dave = obs.dave
      BY Zenon, <1>1, <2>2 DEF Applied, IsSession
    <3> QED
      BY Zenon, <1>2, <2>2, <3>1 DEF Again
  <2> QED
    BY Zenon, <1>9, <2>1, <2>2 DEF Transition
<1> QED
  BY Zenon, <1>3, <1>4, <1>5, <1>6, <1>7, <1>8, <1>9

-----------------------------------------------------------------------------
(* The invariant. *)

\* Before the first call the invariant holds.
LEMMA InitInv == Init => ListenInv
<1> SUFFICES ASSUME Init
             PROVE  ListenInv
  OBVIOUS
<1>1. /\ phase = "closed" /\ pend = NoJoin /\ obs = NewSession /\ out = Nothing
      /\ authored = FALSE
  BY Zenon DEF Init
<1>2. KeyPackagePerSession /\ LeavesAuthoring /\ RuntimeKept
  BY Zenon, <1>1 DEF KeyPackagePerSession, LeavesAuthoring, RuntimeKept
<1>3. FrameFromExpected /\ FramesDecrypted
  BY Zenon, <1>1 DEF FrameFromExpected, FramesDecrypted, Nothing
<1>4. RefusalsKept /\ IsPending(pend) /\ IsSession(obs)
  BY Zenon, <1>1, NoJoinFacts, NewSessionFacts DEF RefusalsKept
<1> QED
  BY Zenon, <1>2, <1>3, <1>4 DEF ListenInv

\* A connection, with DAVE or without.
LEMMA ConnectKeeps == Connect => ListenInv'
<1> SUFFICES ASSUME NEW dave \in BOOLEAN, NEW authoring \in BOOLEAN, NEW speaker \in BOOLEAN,
                    NEW known \in SUBSET Users, Connected(dave, authoring, known, speaker)
             PROVE  ListenInv'
  BY Zenon DEF Connect
<1>1. /\ secure' = dave /\ phase' = IF dave THEN "seeding" ELSE "listening"
      /\ pend' = IF dave THEN Pending(FALSE, known, {}, speaker) ELSE NoJoin
      /\ obs' = NewSession /\ out' = Nothing /\ authored' = FALSE
  BY Zenon DEF Connected
<1>2. /\ IsPending(pend') /\ pend'.refused = {} /\ pend'.invalidated = {}
      /\ dave => pend'.key /\ pend'.keys = 1
  <2>1. CASE dave
    BY Zenon, <1>1, <2>1 DEF Pending, IsPending
  <2>2. CASE ~dave
    BY Zenon, <1>1, <2>2, NoJoinFacts
  <2> QED
    BY Zenon, <2>1, <2>2
<1>3. KeyPackagePerSession' /\ LeavesAuthoring' /\ RuntimeKept'
  BY Zenon, <1>1, <1>2 DEF KeyPackagePerSession, LeavesAuthoring, RuntimeKept
<1>4. FrameFromExpected' /\ FramesDecrypted'
  BY Zenon, <1>1 DEF FrameFromExpected, FramesDecrypted, Nothing
<1>5. RefusalsKept' /\ IsSession(obs')
  BY Zenon, <1>1, <1>2, NewSessionFacts DEF RefusalsKept
<1> QED
  BY Zenon, <1>2, <1>3, <1>4, <1>5 DEF ListenInv

\* A dropped call takes a join under way with it: from then on the session may
\* listen without a runtime.
LEMMA CancelKeeps == ListenInv /\ Cancel => ListenInv'
<1> SUFFICES ASSUME ListenInv, Cancel
             PROVE  ListenInv'
  OBVIOUS
<1>1. /\ phase = "listening" \/ phase = "joining"
      /\ phase' = "listening" /\ pend' = NoJoin /\ UNCHANGED <<secure, obs, out, authored>>
  BY Zenon DEF Cancel, Waits
<1>2. ~dropped' => ~dropped /\ phase # "joining"
  BY Zenon DEF Cancel
<1>3. KeyPackagePerSession' /\ LeavesAuthoring' /\ RuntimeKept'
  BY Zenon, <1>1, <1>2 DEF ListenInv, KeyPackagePerSession, LeavesAuthoring, RuntimeKept
<1>4. FrameFromExpected' /\ FramesDecrypted'
  BY Zenon, <1>1, <1>2 DEF ListenInv, FrameFromExpected, FramesDecrypted
<1>5. RefusalsKept' /\ IsPending(pend') /\ IsSession(obs')
  BY Zenon, <1>1, NoJoinFacts DEF ListenInv, RefusalsKept
<1> QED
  BY Zenon, <1>3, <1>4, <1>5 DEF ListenInv

\* Every step of the observer preserves ListenInv.
LEMMA NextKeeps == ListenInv /\ [Next]_vars => ListenInv'
<1> SUFFICES ASSUME ListenInv, [Next]_vars
             PROVE  ListenInv'
  OBVIOUS
<1>1. IsSession(obs)
  BY Zenon DEF ListenInv
<1>2. CASE UNCHANGED vars
  BY Zenon, <1>1, <1>2, CallKeeps DEF vars
<1>3. CASE Connect
  BY Zenon, <1>3, ConnectKeeps
<1>4. CASE Drop \/ Fails \/ JoinFails \/ \E s \in Ssrcs : BrokenPacket(s)
  BY Zenon, <1>4, CloseKeeps DEF Drop, Fails, JoinFails, BrokenPacket
<1>5. CASE JoinStep
  BY Zenon, <1>4, <1>5, JoinEventKeeps, JoinProposalsKeeps, JoinTransitionKeeps DEF JoinStep
<1>6. ASSUME NEW kind, NEW from, Begin(kind, from)
      PROVE  ListenInv'
  <2>1. out'.kind = "nothing"
    BY Zenon, <1>6 DEF Begin, Nothing
  <2> QED
    BY Zenon, <1>1, <1>6, <2>1, CallKeeps DEF Begin
<1>7. CASE QueueStep
  BY Zenon, <1>7, QueueKeeps
<1>8. CASE ReceiveStep
  BY Zenon, <1>4, <1>8, PacketKeeps, GatewayEventKeeps DEF ReceiveStep
<1>9. CASE Elapse
  BY Zenon, <1>1, <1>9, CallKeeps DEF Elapse
<1>10. CASE TimesOut
  <2>1. CASE Close
    BY Zenon, <2>1, CloseKeeps
  <2>2. CASE /\ phase = "listening" /\ Return(Told("timeout", None))
             /\ UNCHANGED <<phase, secure, pend, obs, dropped, authored>>
    BY Zenon, <1>1, <2>2, ReturnKeeps
  <2> QED
    BY Zenon, <1>10, <2>1, <2>2 DEF TimesOut
<1>11. CASE Cancel
  BY Zenon, <1>11, CancelKeeps
<1> QED
  BY Zenon, <1>2, <1>3, <1>4, <1>5, <1>6, <1>7, <1>8, <1>9, <1>10, <1>11 DEF Next

\* Whatever the gateway sends and however packets and events interleave: every
\* MLS session of a join has sent one key package, an observer that leaves
\* proposals to the sender sends no commit, and a call returns no frame but the
\* expected user's, decrypted when the channel uses DAVE.
THEOREM ListenInvariant == Spec => []ListenInv
<1>1. Init => ListenInv
  BY Zenon, InitInv
<1>2. ListenInv /\ [Next]_vars => ListenInv'
  BY Zenon, NextKeeps
<1> QED
  BY <1>1, <1>2, PTL DEF Spec

\* In a channel that uses DAVE every frame returned was decrypted, or is the
\* silence frame, unless a call was dropped while it was joining again.
THEOREM FramesAlwaysDecrypted == Spec => []FramesDecrypted
<1>1. ListenInv => FramesDecrypted
  BY Zenon DEF ListenInv
<1> QED
  BY <1>1, ListenInvariant, PTL

\* What a step that completes a join may add to the completed transitions.
StaysOut ==
    phase = "joining" /\ phase' = "listening"
       => \A id \in pend.refused : id \in obs'.completed => id \in obs.completed

\* Completing a transition that was not refused completes no refused one.
LEMMA ReadyStaysOut ==
  ASSUME ListenInv, NEW id, Ready(id), id \notin pend.refused
  PROVE  StaysOut
<1>1. obs'.completed = obs.completed \cup {id}
  BY Zenon, DaveReadyFacts DEF ListenInv, Ready
<1> QED
  BY Zenon, <1>1 DEF StaysOut

\* No step completes a join with a transition that the join refused.
LEMMA NextStaysOut == ListenInv /\ [Next]_vars => StaysOut
<1> SUFFICES ASSUME ListenInv, [Next]_vars, phase = "joining", phase' = "listening"
             PROVE  StaysOut
  BY Zenon DEF StaysOut
<1>1. CASE \E id \in Ids : JoinTransition(id)
  <2>1. PICK id \in Ids : JoinTransition(id)
    BY Zenon, <1>1
  <2>2. Admits(id) /\ Ready(id)
    BY Zenon, <2>1 DEF JoinTransition
  <2>3. id \notin pend.refused
    BY Zenon, <2>2 DEF Admits, ListenInv, RefusalsKept
  <2> QED
    BY Zenon, <2>2, <2>3, ReadyStaysOut
<1>2. CASE JoinProposals
  <2>1. ~Awaits /\ Ready(0)
    BY Zenon, <1>2 DEF JoinProposals
  <2>2. pend.refused = {}
    BY Zenon, <2>1 DEF Awaits, ListenInv, RefusalsKept
  <2> QED
    BY Zenon, <2>1, <2>2, ReadyStaysOut
<1>3. CASE Cancel
  BY Zenon, <1>3 DEF Cancel, StaysOut
<1>4. CASE Close
  BY Zenon, <1>4 DEF Close
<1>5. CASE UNCHANGED phase
  BY Zenon, <1>5
<1>6. CASE JoinStep
  BY Zenon, <1>1, <1>2, <1>4, <1>5, <1>6
     DEF JoinStep, JoinConnect, JoinDisconnect, JoinSpeaking, JoinExternalSender,
         JoinPrepareEpoch, SeedEnds, JoinFails
<1> QED
  BY Zenon, <1>3, <1>4, <1>5, <1>6
     DEF Next, Connect, Drop, Begin, QueueStep, TakeDisconnect, TakeSpeaking, TryPending,
         ReceiveStep, Packet, BrokenPacket, Receives, Waits, Speaking, ClientsConnect,
         ClientDisconnect, Proposals, Transition, Ignored, GatewayClosed, Elapse, TimesOut,
         Fails, vars

\* A transition that a join told the gateway was invalid never completes that
\* join: neither through a message for it that still comes, nor as the founding
\* commit of the observer's own.
THEOREM RefusedNeverCompletes == Spec => InvalidatedStaysOut
<1>1. ListenInv /\ [Next]_vars => [StaysOut]_vars
  BY Zenon, NextStaysOut
<1>2. Spec => [][StaysOut]_vars
  BY <1>1, ListenInvariant, PTL DEF Spec
<1> QED
  BY Zenon, <1>2 DEF InvalidatedStaysOut, StaysOut

-----------------------------------------------------------------------------
(* The map of sources: what the updates that a join defers make of it.     *)

\* A non-empty set of naturals has a least element: what stands in for
\* induction over the number of updates.
LEMMA LeastNat ==
  ASSUME NEW T, T \subseteq Nat, T # {}
  PROVE  \E x \in T : \A y \in T : x <= y
<1>1. PICK x \in T : \A y \in T : ~(<<y, x>> \in OpToRel(<, Nat))
  BY Zenon, NatLessThanWellFounded, WFMin
<1>2. ASSUME NEW y \in T PROVE x <= y
  <2>1. SUFFICES ASSUME y < x PROVE FALSE
    OBVIOUS
  <2>2. <<y, x>> \in Nat \X Nat
    OBVIOUS
  <2>3. <<y, x>> \in OpToRel(<, Nat)
    BY Zenon, <2>1, <2>2 DEF OpToRel
  <2> QED
    BY Zenon, <1>1, <2>3
<1> QED
  BY Zenon, <1>2

\* g satisfies the recursive definition in ApplyUpdates for the first n updates.
AppliesUpTo(o, updates, n, g) ==
    g = [i \in 0 .. n |-> IF i = 0 THEN o ELSE ApplyUpdate(g[i - 1], updates[i])]

\* Such a function exists: the least n without one would be the successor of
\* one that has it.
LEMMA ApplierExists ==
  ASSUME NEW o, NEW updates, NEW n \in Nat
  PROVE  \E g : AppliesUpTo(o, updates, n, g)
<1> DEFINE T == {m \in Nat : ~ \E g : AppliesUpTo(o, updates, m, g)}
<1>1. SUFFICES ASSUME T # {} PROVE FALSE
  OBVIOUS
<1>2. PICK m \in T : \A y \in T : m <= y
  <2>1. T \subseteq Nat
    OBVIOUS
  <2> HIDE DEF T
  <2> QED
    BY Zenon, <1>1, <2>1, LeastNat
<1>3. m # 0
  <2>1. AppliesUpTo(o, updates, 0, [i \in 0 .. 0 |-> o])
    BY DEF AppliesUpTo
  <2> QED
    BY Zenon, <2>1
<1>4. m - 1 \in Nat /\ m - 1 \notin T
  BY SMTT(60), <1>2, <1>3
<1>5. PICK g : AppliesUpTo(o, updates, m - 1, g)
  BY Zenon, <1>4
<1> DEFINE h == [i \in 0 .. m |-> IF i = m THEN ApplyUpdate(g[m - 1], updates[m]) ELSE g[i]]
<1>6. ASSUME NEW i \in 0 .. m
      PROVE  h[i] = IF i = 0 THEN o ELSE ApplyUpdate(h[i - 1], updates[i])
  <2>1. CASE i = m
    <3>1. h[i] = ApplyUpdate(g[m - 1], updates[m])
      BY Zenon, <2>1
    <3>2. h[m - 1] = g[m - 1]
      BY SMTT(60), <1>3, <1>4
    <3> QED
      BY Zenon, <3>1, <3>2, <2>1, <1>3
  <2>2. CASE i # m
    <3>1. i \in 0 .. (m - 1)
      BY SMTT(60), <2>2
    <3>2. g[i] = IF i = 0 THEN o ELSE ApplyUpdate(g[i - 1], updates[i])
      BY Zenon, <3>1, <1>5 DEF AppliesUpTo
    <3>3. h[i] = g[i]
      BY Zenon, <2>2
    <3>4. i # 0 => h[i - 1] = g[i - 1]
      BY <3>1
    <3> QED
      BY Zenon, <3>2, <3>3, <3>4
  <2> QED
    BY Zenon, <2>1, <2>2
<1>7. AppliesUpTo(o, updates, m, h)
  <2>1. h = [i \in 0 .. m |-> h[i]]
    OBVIOUS
  <2> HIDE DEF h
  <2> QED
    BY Zenon, <1>6, <2>1 DEF AppliesUpTo
<1> QED
  BY Zenon, <1>7, <1>2

\* ApplyUpdates is the last value of such a function.
LEMMA ApplyUpdatesApplies ==
  ASSUME NEW o, NEW updates \in Seq(Updates)
  PROVE  \E g : AppliesUpTo(o, updates, Len(updates), g) /\ ApplyUpdates(o, updates) = g[Len(updates)]
<1> DEFINE u == CHOOSE g : AppliesUpTo(o, updates, Len(updates), g)
<1>1. Len(updates) \in Nat
  OBVIOUS
<1>2. AppliesUpTo(o, updates, Len(updates), u)
  BY Zenon, <1>1, ApplierExists
<1>3. ApplyUpdates(o, updates) = u[Len(updates)]
  BY Zenon DEF ApplyUpdates, AppliesUpTo
<1> QED
  BY ZenonT(60), <1>2, <1>3

\* The part of a session that an update may change.
Charted(o) ==
    /\ IsSession(o) /\ o.recognized \subseteq Users \cup {Self} /\ o.candidates \subseteq Users
    /\ o.ssrcs \in [Ssrcs -> Users \cup {None}]

\* One update gives its source to its user, and takes no source from a user but
\* the one it names and those of the user who leaves.
Moves(o, x, p) ==
    /\ Charted(p)
    /\ \A s \in Ssrcs, v \in Users :
         \/ x = [ssrc |-> s, user |-> v]
         \/ o.ssrcs[s] = v /\ x.ssrc # s /\ x # [ssrc |-> None, user |-> v]
         => p.ssrcs[s] = v

\* apply_pending_gateway_updates, one update.
LEMMA ApplyUpdateMoves ==
  ASSUME NEW o, Charted(o), NEW x \in Updates
  PROVE  Moves(o, x, ApplyUpdate(o, x))
<1> DEFINE p == ApplyUpdate(o, x)
<1>1. /\ x.ssrc \in Ssrcs \cup {None} /\ x.user \in Users
      /\ x = [ssrc |-> x.ssrc, user |-> x.user] /\ None \notin Ssrcs
  BY ObserverConstants DEF Updates
<1>2. CASE x.ssrc # None
  <2>1. p = [o EXCEPT !.ssrcs[x.ssrc] = x.user]
    BY Zenon, <1>2 DEF ApplyUpdate
  <2>2. /\ IsSession(p) /\ p.recognized = o.recognized /\ p.candidates = o.candidates
        /\ p.ssrcs = [o.ssrcs EXCEPT ![x.ssrc] = x.user]
    <3> HIDE DEF p
    <3> QED
      BY Zenon, <2>1 DEF Charted, IsSession
  <2> HIDE DEF p
  <2>3. /\ p.ssrcs \in [Ssrcs -> Users \cup {None}]
        /\ \A s \in Ssrcs : p.ssrcs[s] = IF s = x.ssrc THEN x.user ELSE o.ssrcs[s]
    BY <1>1, <1>2, <2>2 DEF Charted
  <2>4. Charted(p)
    BY <2>2, <2>3, Zenon DEF Charted
  <2>5. ASSUME NEW s \in Ssrcs, NEW v \in Users,
               \/ x = [ssrc |-> s, user |-> v]
               \/ o.ssrcs[s] = v /\ x.ssrc # s /\ x # [ssrc |-> None, user |-> v]
        PROVE  p.ssrcs[s] = v
    BY <1>1, <1>2, <2>3, <2>5
  <2> QED
    BY Zenon, <2>4, <2>5 DEF Moves, p
<1>3. CASE x.ssrc = None
  <2>1. PICK r : p = [o EXCEPT !.ssrcs = Forget(@, x.user),
                               !.candidates = @ \ {x.user},
                               !.recognized = r] /\ r \in {o.recognized, o.recognized \ {x.user}}
    BY Zenon, <1>3 DEF ApplyUpdate
  <2> HIDE DEF p
  <2>2. /\ IsSession(p) /\ p.recognized = r /\ p.candidates = o.candidates \ {x.user}
        /\ p.ssrcs = Forget(o.ssrcs, x.user)
    BY Zenon, <2>1 DEF Charted, IsSession
  <2>3. /\ p.ssrcs \in [Ssrcs -> Users \cup {None}]
        /\ \A s \in Ssrcs : p.ssrcs[s] = IF o.ssrcs[s] = x.user THEN None ELSE o.ssrcs[s]
    BY <1>1, <2>2 DEF Charted, Forget
  <2>4. Charted(p)
    BY <2>1, <2>2, <2>3 DEF Charted
  <2>5. ASSUME NEW s \in Ssrcs, NEW v \in Users,
               \/ x = [ssrc |-> s, user |-> v]
               \/ o.ssrcs[s] = v /\ x.ssrc # s /\ x # [ssrc |-> None, user |-> v]
        PROVE  p.ssrcs[s] = v
    BY <1>1, <1>3, <2>3, <2>5
  <2> QED
    BY Zenon, <2>4, <2>5 DEF Moves, p
<1> QED
  BY Zenon, <1>2, <1>3

\* apply_pending_gateway_updates, all of them: a source stands for whom the
\* updates leave it.
LEMMA ApplyUpdatesMaps ==
  ASSUME NEW o, Charted(o), NEW updates \in Seq(Updates)
  PROVE  /\ Charted(ApplyUpdates(o, updates))
         /\ \A s \in Ssrcs, v \in Users :
              StandsFor(o.ssrcs, updates, s, v) => ApplyUpdates(o, updates).ssrcs[s] = v
<1> DEFINE n == Len(updates)
<1>1. n \in Nat /\ \A i \in 1 .. n : updates[i] \in Updates
  OBVIOUS
<1>2. PICK g : AppliesUpTo(o, updates, n, g) /\ ApplyUpdates(o, updates) = g[n]
  BY Zenon, ApplyUpdatesApplies
<1> HIDE DEF n
<1>3. \A i \in 0 .. n : g[i] = IF i = 0 THEN o ELSE ApplyUpdate(g[i - 1], updates[i])
  BY Zenon, <1>2 DEF AppliesUpTo
<1>4. g[0] = o /\ n \in 0 .. n
  BY <1>1, <1>3
<1>5. ASSUME NEW i \in 1 .. n, Charted(g[i - 1])
      PROVE  Moves(g[i - 1], updates[i], g[i])
  <2>1. i \in 0 .. n /\ i # 0 /\ updates[i] \in Updates
    BY <1>1
  <2>2. g[i] = ApplyUpdate(g[i - 1], updates[i])
    BY Zenon, <1>3, <2>1
  <2> QED
    BY Zenon, <1>5, <2>1, <2>2, ApplyUpdateMoves
<1>6. ASSUME NEW T, T \subseteq 0 .. n, T # {}
      PROVE  \E m \in T : m \in 0 .. n /\ (m = 0 \/ (m \in 1 .. n /\ m - 1 \in 0 .. n /\ m - 1 \notin T))
  <2>1. T \subseteq Nat
    BY <1>6
  <2>2. PICK m \in T : \A y \in T : m <= y
    BY Zenon, <1>6, <2>1, LeastNat
  <2>3. m \in 0 .. n /\ (m # 0 => m \in 1 .. n /\ m - 1 \in 0 .. n /\ ~(m <= m - 1))
    BY <1>1, <1>6, <2>2
  <2> QED
    BY Zenon, <2>2, <2>3
<1>7. ASSUME NEW i \in 0 .. n
      PROVE  Charted(g[i])
  <2> DEFINE T == {j \in 0 .. n : ~Charted(g[j])}
  <2>1. SUFFICES ASSUME T # {} PROVE FALSE
    OBVIOUS
  <2>2. T \subseteq 0 .. n
    OBVIOUS
  <2> HIDE DEF T
  <2>3. PICK m \in T : m \in 0 .. n /\ (m = 0 \/ (m \in 1 .. n /\ m - 1 \in 0 .. n /\ m - 1 \notin T))
    BY Zenon, <1>6, <2>1, <2>2
  <2> USE DEF T
  <2>4. m # 0
    BY Zenon, <1>4, <2>3
  <2>5. m \in 1 .. n /\ Charted(g[m - 1])
    BY Zenon, <2>3, <2>4
  <2>6. Charted(g[m])
    BY Zenon, <1>5, <2>5 DEF Moves
  <2> QED
    BY Zenon, <2>3, <2>6
<1>8. ASSUME NEW s \in Ssrcs, NEW v \in Users, StandsFor(o.ssrcs, updates, s, v)
      PROVE  g[n].ssrcs[s] = v
  <2>1. PICK k \in 0 .. n :
          /\ IF k = 0 THEN o.ssrcs[s] = v ELSE updates[k] = [ssrc |-> s, user |-> v]
          /\ \A i \in (k + 1) .. n :
                 updates[i].ssrc # s /\ updates[i] # [ssrc |-> None, user |-> v]
    BY Zenon, <1>8 DEF StandsFor, n
  <2>2. g[k].ssrcs[s] = v
    <3>1. CASE k = 0
      BY Zenon, <1>4, <2>1, <3>1
    <3>2. CASE k # 0
      <4>1. k \in 1 .. n /\ k - 1 \in 0 .. n
        BY <1>1, <3>2
      <4>2. Moves(g[k - 1], updates[k], g[k])
        BY Zenon, <1>5, <1>7, <4>1
      <4> QED
        BY Zenon, <2>1, <3>2, <4>2 DEF Moves
    <3> QED
      BY Zenon, <3>1, <3>2
  <2> DEFINE T == {j \in 0 .. n : j >= k /\ g[j].ssrcs[s] # v}
  <2>3. SUFFICES ASSUME T # {} PROVE FALSE
    BY <1>1
  <2>4. T \subseteq 0 .. n
    OBVIOUS
  <2> HIDE DEF T
  <2>5. PICK m \in T : m \in 0 .. n /\ (m = 0 \/ (m \in 1 .. n /\ m - 1 \in 0 .. n /\ m - 1 \notin T))
    BY Zenon, <1>6, <2>3, <2>4
  <2> USE DEF T
  <2>6. m >= k /\ g[m].ssrcs[s] # v
    BY Zenon, <2>5
  <2>7. m # k
    BY Zenon, <2>2, <2>6
  <2>8. m \in (k + 1) .. n /\ m \in 1 .. n /\ m - 1 \in 0 .. n /\ m - 1 >= k
    BY <1>1, <2>5, <2>6, <2>7
  <2>9. g[m - 1].ssrcs[s] = v
    <3>1. m - 1 \notin T
      BY <2>5, <2>8
    <3> QED
      BY Zenon, <2>8, <3>1
  <2>10. Moves(g[m - 1], updates[m], g[m])
    BY Zenon, <1>5, <1>7, <2>8
  <2>11. updates[m].ssrc # s /\ updates[m] # [ssrc |-> None, user |-> v]
    BY Zenon, <2>1, <2>8
  <2> QED
    BY Zenon, <2>6, <2>9, <2>10, <2>11 DEF Moves
<1> QED
  BY Zenon, <1>2, <1>4, <1>7, <1>8

\* Without updates a source stands for whom the map gives it.
LEMMA StandsWithout ==
  ASSUME NEW map, NEW s, NEW u
  PROVE  StandsFor(map, <<>>, s, u) <=> map[s] = u
<1>1. Len(<<>>) = 0 /\ 0 .. 0 = {0} /\ (0 + 1) .. 0 = {}
  OBVIOUS
<1> QED
  BY Zenon, <1>1 DEF StandsFor

\* One more update: it names the source, or leaves it where it stands.
LEMMA StandsAppended ==
  ASSUME NEW map, NEW updates \in Seq(Updates), NEW x \in Updates, NEW s, NEW u,
         \/ x = [ssrc |-> s, user |-> u]
         \/ /\ StandsFor(map, updates, s, u)
            /\ x.ssrc # s /\ x # [ssrc |-> None, user |-> u]
  PROVE  StandsFor(map, Append(updates, x), s, u)
<1> DEFINE n == Len(updates)
           longer == Append(updates, x)
<1>1. /\ n \in Nat /\ Len(longer) = n + 1 /\ longer[n + 1] = x
      /\ \A i \in 1 .. n : longer[i] = updates[i]
  OBVIOUS
<1> HIDE DEF n, longer
<1>2. CASE x = [ssrc |-> s, user |-> u]
  <2>1. n + 1 \in 0 .. (n + 1) /\ n + 1 # 0 /\ ((n + 1) + 1) .. (n + 1) = {}
    BY <1>1
  <2> QED
    BY Zenon, <1>1, <1>2, <2>1 DEF StandsFor, longer
<1>3. CASE /\ StandsFor(map, updates, s, u)
           /\ x.ssrc # s /\ x # [ssrc |-> None, user |-> u]
  <2>1. PICK k \in 0 .. n :
          /\ IF k = 0 THEN map[s] = u ELSE updates[k] = [ssrc |-> s, user |-> u]
          /\ \A i \in (k + 1) .. n :
                 updates[i].ssrc # s /\ updates[i] # [ssrc |-> None, user |-> u]
    BY Zenon, <1>3 DEF StandsFor, n
  <2>2. k \in 0 .. (n + 1) /\ (k # 0 => k \in 1 .. n)
    BY <1>1
  <2>3. IF k = 0 THEN map[s] = u ELSE longer[k] = [ssrc |-> s, user |-> u]
    BY Zenon, <1>1, <2>1, <2>2
  <2>4. ASSUME NEW i \in (k + 1) .. (n + 1)
        PROVE  longer[i].ssrc # s /\ longer[i] # [ssrc |-> None, user |-> u]
    <3>1. i = n + 1 \/ (i \in (k + 1) .. n /\ i \in 1 .. n)
      BY <1>1
    <3> QED
      BY Zenon, <1>1, <1>3, <2>1, <3>1
  <2> QED
    BY Zenon, <1>1, <2>2, <2>3, <2>4 DEF StandsFor, longer
<1> QED
  BY Zenon, <1>2, <1>3

-----------------------------------------------------------------------------
(* The types and the map, step by step. *)

MapInv == TypeOK /\ MappingKept

\* Events and packets are counted up to their bound.
LEMMA ArrivalFacts ==
  ASSUME TypeOK, arrivals' = arrivals \/ Arrives
  PROVE  arrivals' \in 0 .. MaxArrivals /\ arrivals <= arrivals' /\ arrivals \in Nat
  BY ObserverConstants DEF TypeOK, Arrives

\* A join that is over, or not yet begun, and a session that just connected.
LEMMA NewTyped ==
  /\ PendingTyped(NoJoin) /\ NoJoin.staged = 0 /\ NoJoin.updates = <<>>
  /\ SessionTyped(NewSession) /\ NewSession.proposals = 0
  /\ Idle \in Calls
<1>1. /\ PendingTyped(NoJoin) /\ NoJoin.staged = 0 /\ NoJoin.updates = <<>>
  BY ObserverConstants DEF NoJoin, Pending, PendingTyped
<1>2. SessionTyped(NewSession) /\ NewSession.proposals = 0
  BY ObserverConstants DEF NewSession, SessionTyped
<1>3. Idle \in Calls
  BY DEF Idle, Calls
<1> QED
  BY Zenon, <1>1, <1>2, <1>3

\* What a step makes of the call.
LEMMA CallTyped ==
  ASSUME call \in Calls
  PROVE  /\ \A r \in BOOLEAN : [call EXCEPT !.retry = r] \in Calls
         /\ [call EXCEPT !.elapsed = TRUE] \in Calls
         /\ call.from \in Users \cup {None}
  BY ZenonT(60), ObserverConstants DEF Calls

\* Nobody was heard: there is nothing to map.
LEMMA NothingHeard ==
  ASSUME {secure', author', dropped', authored'} \subseteq BOOLEAN, arrivals' = 0, call' = Idle,
         phase' \in {"closed", "seeding", "listening"}, PendingTyped(pend'), pend'.staged = 0,
         pend'.updates = <<>>, obs' = NewSession, heard' = [s \in Ssrcs |-> None], passed' = {}
  PROVE  MapInv'
<1>1. arrivals' \in 0 .. MaxArrivals /\ pend'.staged <= arrivals'
  BY ObserverConstants
<1>2. SessionTyped(obs') /\ obs'.proposals <= arrivals' /\ call' \in Calls
  BY NewTyped
<1>3. heard' \in [Ssrcs -> Users \cup {None}] /\ \A s \in Ssrcs : heard'[s] = None
  OBVIOUS
<1>4. phase' \in {"closed", "seeding", "joining", "listening"}
  OBVIOUS
<1>5. passed' \subseteq {s \in Ssrcs : obs'.packets[s] # None}
  OBVIOUS
<1>6. TypeOK'
  BY Zenon, <1>1, <1>2, <1>3, <1>4, <1>5 DEF TypeOK
<1>7. MappingKept'
  BY Zenon, <1>3 DEF MappingKept
<1> QED
  BY Zenon, <1>6, <1>7 DEF MapInv

\* The end of a session.
LEMMA CloseMaps ==
  ASSUME MapInv, Close
  PROVE  MapInv'
<1>1. /\ phase' = "closed" /\ pend' = NoJoin /\ obs' = NewSession /\ call' = Idle
      /\ heard' = [s \in Ssrcs |-> None] /\ passed' = {} /\ dropped' = FALSE
      /\ authored' = FALSE /\ arrivals' = 0 /\ UNCHANGED <<secure, author>>
  BY Zenon DEF Close
<1>2. {secure', author', dropped', authored'} \subseteq BOOLEAN
  BY ZenonT(60), <1>1 DEF MapInv, TypeOK
<1> QED
  BY Zenon, <1>1, <1>2, NewTyped, NothingHeard

\* A connection.
LEMMA ConnectMaps == Connect => MapInv'
<1> SUFFICES ASSUME NEW dave \in BOOLEAN, NEW authoring \in BOOLEAN, NEW speaker \in BOOLEAN,
                    NEW known \in SUBSET Users, Connected(dave, authoring, known, speaker)
             PROVE  MapInv'
  BY Zenon DEF Connect
<1>1. /\ secure' = dave /\ author' = authoring
      /\ phase' = IF dave THEN "seeding" ELSE "listening"
      /\ pend' = IF dave THEN Pending(FALSE, known, {}, speaker) ELSE NoJoin
      /\ obs' = NewSession /\ call' = Idle /\ heard' = [s \in Ssrcs |-> None]
      /\ passed' = {} /\ dropped' = FALSE /\ authored' = FALSE /\ arrivals' = 0
  BY Zenon DEF Connected
<1>2. {secure', author', dropped', authored'} \subseteq BOOLEAN
  BY ZenonT(60), <1>1
<1>3. ASSUME NEW p, p = Pending(FALSE, known, {}, speaker)
      PROVE  PendingTyped(p) /\ p.staged = 0 /\ p.updates = <<>>
  BY <1>3, ObserverConstants DEF Pending, PendingTyped
<1>4. PendingTyped(pend') /\ pend'.staged = 0 /\ pend'.updates = <<>>
  BY Zenon, <1>1, <1>3, NewTyped
<1>5. phase' \in {"closed", "seeding", "listening"}
  BY Zenon, <1>1
<1> QED
  BY Zenon, <1>1, <1>2, <1>4, <1>5, NothingHeard

\* A step of a join that goes on.
LEMMA JoinMaps ==
  ASSUME MapInv, phase \in {"seeding", "joining"}, phase' \in {"seeding", "joining"},
         UNCHANGED <<secure, author, obs, passed, dropped, authored>>,
         arrivals' = arrivals \/ Arrives, call' \in Calls,
         PendingTyped(pend'), pend'.staged <= arrivals',
         heard' \in [Ssrcs -> Users \cup {None}],
         ~dropped => \A s \in Ssrcs :
             heard'[s] # None => StandsFor(obs.ssrcs, pend'.updates, s, heard'[s])
  PROVE  MapInv'
<1>1. arrivals' \in 0 .. MaxArrivals /\ arrivals <= arrivals' /\ arrivals \in Nat
  BY Zenon, ArrivalFacts DEF MapInv
<1>2. SessionTyped(obs) /\ obs.proposals <= arrivals
      /\ passed \subseteq {s \in Ssrcs : obs.packets[s] # None}
      /\ {secure, author, dropped, authored} \subseteq BOOLEAN
  BY Zenon DEF MapInv, TypeOK
<1>3. obs.proposals <= arrivals'
  BY <1>1, <1>2 DEF SessionTyped
<1>4. phase' \in {"closed", "seeding", "joining", "listening"}
      /\ phase' \notin {"closed", "listening"}
  BY Zenon
<1>5. TypeOK'
  BY Zenon, <1>1, <1>2, <1>3, <1>4 DEF TypeOK
<1>6. MappingKept'
  BY Zenon, <1>4 DEF MappingKept
<1> QED
  BY Zenon, <1>5, <1>6 DEF MapInv

\* A step of a join that defers nothing.
LEMMA JoinMapsOn ==
  ASSUME MapInv, phase \in {"seeding", "joining"}, phase' \in {"seeding", "joining"},
         UNCHANGED <<secure, author, obs, heard, passed, dropped, authored>>,
         arrivals' = arrivals \/ Arrives, call' \in Calls,
         PendingTyped(pend'), pend'.staged <= arrivals', pend'.updates = pend.updates
  PROVE  MapInv'
<1>1. heard \in [Ssrcs -> Users \cup {None}]
  BY Zenon DEF MapInv, TypeOK
<1>2. ~dropped => \A s \in Ssrcs :
             heard[s] # None => StandsFor(obs.ssrcs, pend.updates, s, heard[s])
  BY Zenon DEF MapInv, MappingKept
<1> QED
  BY Zenon, <1>1, <1>2, JoinMaps

\* An update that a join defers: it is heard now and applied later.
LEMMA DeferMaps ==
  ASSUME MapInv, IsPending(pend), Learns, NEW x \in Updates, Defer(x),
         UNCHANGED <<phase, secure, author, obs, call, passed, dropped, authored>>,
         heard' \in [Ssrcs -> Users \cup {None}],
         \A s \in Ssrcs : heard'[s] # None =>
             \/ x = [ssrc |-> s, user |-> heard'[s]]
             \/ /\ heard'[s] = heard[s]
                /\ x.ssrc # s /\ x # [ssrc |-> None, user |-> heard[s]]
  PROVE  MapInv'
<1>1. phase \in {"seeding", "joining"} /\ phase' \in {"seeding", "joining"}
  BY Zenon DEF Learns, Joining
<1>2. /\ PendingTyped(pend) /\ pend.staged <= arrivals /\ call \in Calls
      /\ pend.updates \in Seq(Updates)
  BY Zenon DEF MapInv, TypeOK, PendingTyped
<1>3. /\ pend'.updates = Append(pend.updates, x) /\ pend'.recognized = pend.recognized
      /\ pend'.prepared = pend.prepared /\ pend'.invalidated = pend.invalidated
      /\ pend'.staged = pend.staged /\ pend'.seeded = pend.seeded
      /\ Arrives
  BY Zenon DEF Defer, IsPending
<1>4. Append(pend.updates, x) \in Seq(Updates)
  BY <1>2
<1>5. PendingTyped(pend')
  BY Zenon, <1>2, <1>3, <1>4 DEF PendingTyped
<1>6. pend'.staged <= arrivals'
  <2>1. arrivals <= arrivals' /\ arrivals \in Nat /\ arrivals' \in 0 .. MaxArrivals
    BY Zenon, <1>3, ArrivalFacts DEF MapInv
  <2> QED
    BY <1>2, <1>3, <2>1 DEF PendingTyped
<1>7. ASSUME ~dropped, NEW s \in Ssrcs, heard'[s] # None
      PROVE  StandsFor(obs.ssrcs, pend'.updates, s, heard'[s])
  <2>1. PICK u : u = heard'[s]
    OBVIOUS
  <2>2. \/ x = [ssrc |-> s, user |-> u]
        \/ /\ StandsFor(obs.ssrcs, pend.updates, s, u)
           /\ x.ssrc # s /\ x # [ssrc |-> None, user |-> u]
    BY Zenon, <1>7, <2>1 DEF MapInv, MappingKept
  <2>3. StandsFor(obs.ssrcs, Append(pend.updates, x), s, u)
    BY Zenon, <1>2, <2>2, StandsAppended
  <2> QED
    BY Zenon, <1>3, <2>1, <2>3
<1>8. call' \in Calls
  BY Zenon, <1>2
<1> QED
  BY Zenon, <1>1, <1>3, <1>5, <1>6, <1>7, <1>8, JoinMaps

\* send_pending_join_key_package changes nothing but the key package.
LEMMA KeyPackageTyped ==
  ASSUME NEW p, IsPending(p), PendingTyped(p)
  PROVE  /\ PendingTyped(KeyPackage(p)) /\ KeyPackage(p).staged = p.staged
         /\ KeyPackage(p).updates = p.updates
<1>1. PICK q : q = KeyPackage(p)
  OBVIOUS
<1>2. /\ q.recognized = p.recognized /\ q.prepared = p.prepared /\ q.invalidated = p.invalidated
      /\ q.staged = p.staged /\ q.seeded = p.seeded /\ q.updates = p.updates
  BY Zenon, <1>1 DEF KeyPackage, IsPending
<1> QED
  BY Zenon, <1>1, <1>2 DEF PendingTyped

\* The join's events other than MLS messages, and the end of the seeding.
LEMMA JoinEventMaps ==
  ASSUME MapInv, IsPending(pend),
         \/ \E u \in Users : JoinConnect(u) \/ JoinDisconnect(u)
         \/ \E s \in Ssrcs : JoinSpeaking(s)
         \/ JoinExternalSender
         \/ \E id \in Ids \cup {None} : JoinPrepareEpoch(id)
         \/ \E event \in MlsEvents \cup {None} : SeedEnds(event)
  PROVE  MapInv'
<1>1. phase \in {"seeding", "joining"}
  BY Zenon DEF JoinConnect, JoinDisconnect, JoinSpeaking, JoinExternalSender, JoinPrepareEpoch,
               SeedEnds, Learns, Joining, Defer
<1>2. /\ PendingTyped(pend) /\ pend.staged <= arrivals /\ call \in Calls /\ TypeOK
      /\ heard \in [Ssrcs -> Users \cup {None}] /\ pend.staged \in Nat
  BY DEF MapInv, TypeOK, PendingTyped
<1>3. ASSUME arrivals' = arrivals \/ Arrives, PendingTyped(pend'), pend'.staged = pend.staged,
             pend'.updates = pend.updates, call' \in Calls, phase' \in {"seeding", "joining"},
             UNCHANGED <<secure, author, obs, heard, passed, dropped, authored>>
      PROVE  MapInv'
  <2>1. arrivals' \in 0 .. MaxArrivals /\ arrivals <= arrivals' /\ arrivals \in Nat
    BY Zenon, <1>2, <1>3, ArrivalFacts
  <2>2. pend'.staged <= arrivals'
    BY <1>2, <1>3, <2>1
  <2> QED
    BY Zenon, <1>1, <1>3, <2>2, JoinMapsOn
<1>4. ASSUME NEW u \in Users, JoinConnect(u)
      PROVE  MapInv'
  <2>1. /\ pend' = [pend EXCEPT !.recognized = @ \cup {u}]
        /\ UNCHANGED <<phase, secure, author, obs, call, heard, passed, dropped, authored>>
        /\ Arrives
    BY Zenon, <1>4 DEF JoinConnect
  <2>2. /\ pend'.updates = pend.updates /\ pend'.recognized = pend.recognized \cup {u}
        /\ pend'.prepared = pend.prepared /\ pend'.invalidated = pend.invalidated
        /\ pend'.staged = pend.staged /\ pend'.seeded = pend.seeded
    BY Zenon, <2>1 DEF IsPending
  <2>3. PendingTyped(pend')
    BY <1>2, <2>2 DEF PendingTyped
  <2> QED
    BY Zenon, <1>1, <1>2, <1>3, <2>1, <2>2, <2>3
<1>5. ASSUME NEW u \in Users, JoinDisconnect(u)
      PROVE  MapInv'
  <2>1. PICK x : x = [ssrc |-> None, user |-> u]
    BY ZenonT(60)
  <2>2. x \in Updates /\ x.ssrc = None /\ x.user = u
    BY <2>1 DEF Updates
  <2>3. /\ Learns /\ Defer(x) /\ heard' = Forget(heard, u)
        /\ UNCHANGED <<phase, secure, author, obs, call, passed, dropped, authored>>
    BY Zenon, <1>5, <2>1 DEF JoinDisconnect
  <2>4. /\ heard' \in [Ssrcs -> Users \cup {None}]
        /\ \A s \in Ssrcs : heard'[s] = IF heard[s] = u THEN None ELSE heard[s]
    BY <1>2, <2>3 DEF Forget
  <2>5. ASSUME NEW s \in Ssrcs, heard'[s] # None
        PROVE  heard'[s] = heard[s] /\ x.ssrc # s /\ x # [ssrc |-> None, user |-> heard[s]]
    <3>1. heard'[s] = heard[s] /\ heard[s] # u
      BY Zenon, <2>4, <2>5
    <3>2. None # s
      BY Zenon, ObserverConstants
    <3> QED
      BY <2>1, <2>2, <3>1, <3>2
  <2> QED
    BY Zenon, <2>2, <2>3, <2>4, <2>5, DeferMaps
<1>6. ASSUME NEW s \in Ssrcs, JoinSpeaking(s)
      PROVE  MapInv'
  <2>1. PICK x : x = [ssrc |-> s, user |-> Owner[s]]
    BY ZenonT(60)
  <2>2. x \in Updates /\ x.ssrc = s /\ x.user = Owner[s] /\ Owner[s] \in Users
    BY <2>1, ObserverConstants DEF Updates
  <2>3. /\ Learns /\ Defer(x) /\ heard' = [heard EXCEPT ![s] = Owner[s]]
        /\ UNCHANGED <<phase, secure, author, obs, call, passed, dropped, authored>>
    BY Zenon, <1>6, <2>1 DEF JoinSpeaking
  <2>4. /\ heard' \in [Ssrcs -> Users \cup {None}]
        /\ \A t \in Ssrcs : heard'[t] = IF t = s THEN Owner[s] ELSE heard[t]
    BY <1>2, <2>2, <2>3
  <2>5. ASSUME NEW t \in Ssrcs
        PROVE  \/ x = [ssrc |-> t, user |-> heard'[t]]
               \/ /\ heard'[t] = heard[t]
                  /\ x.ssrc # t /\ x # [ssrc |-> None, user |-> heard[t]]
    <3>1. CASE t = s
      BY Zenon, <2>1, <2>4, <3>1
    <3>2. CASE t # s
      <4>1. heard'[t] = heard[t] /\ s # None
        BY Zenon, <2>4, <3>2, ObserverConstants
      <4> QED
        BY <2>2, <3>2, <4>1
    <3> QED
      BY Zenon, <3>1, <3>2
  <2> QED
    BY Zenon, <2>2, <2>3, <2>4, <2>5, DeferMaps
<1>7. CASE JoinExternalSender
  <2>1. /\ pend' = [pend EXCEPT !.sender = TRUE]
        /\ UNCHANGED <<phase, secure, author, obs, call, heard, passed, dropped, authored, arrivals>>
    BY Zenon, <1>7 DEF JoinExternalSender
  <2>2. /\ pend'.updates = pend.updates /\ pend'.recognized = pend.recognized
        /\ pend'.prepared = pend.prepared /\ pend'.invalidated = pend.invalidated
        /\ pend'.staged = pend.staged /\ pend'.seeded = pend.seeded
    BY Zenon, <2>1 DEF IsPending
  <2>3. PendingTyped(pend')
    BY Zenon, <1>2, <2>2 DEF PendingTyped
  <2> QED
    BY Zenon, <1>1, <1>2, <1>3, <2>1, <2>2, <2>3
<1>8. ASSUME NEW id \in Ids \cup {None}, JoinPrepareEpoch(id)
      PROVE  MapInv'
  <2>1. PICK p : p = [pend EXCEPT !.prepared = Prepared(id)]
    BY ZenonT(60)
  <2>2. /\ IsPending(p) /\ p.updates = pend.updates /\ p.recognized = pend.recognized
        /\ p.prepared = Prepared(id) /\ p.invalidated = pend.invalidated
        /\ p.staged = pend.staged /\ p.seeded = pend.seeded
    BY Zenon, <2>1 DEF IsPending
  <2>3. PendingTyped(p)
    BY <1>2, <2>2 DEF PendingTyped, Prepared
  <2>4. /\ pend' = IF phase = "seeding" THEN p ELSE KeyPackage(p)
        /\ UNCHANGED <<phase, secure, author, obs, call, heard, passed, dropped, authored>>
        /\ Arrives
    BY Zenon, <1>8, <2>1 DEF JoinPrepareEpoch
  <2>5. PendingTyped(pend') /\ pend'.staged = pend.staged /\ pend'.updates = pend.updates
    BY Zenon, <2>2, <2>3, <2>4, KeyPackageTyped
  <2> QED
    BY Zenon, <1>1, <1>2, <1>3, <2>4, <2>5
<1>9. ASSUME NEW event \in MlsEvents \cup {None}, SeedEnds(event)
      PROVE  MapInv'
  <2>1. /\ pend' = [pend EXCEPT !.seeded = event] /\ phase' = "joining"
        /\ call' = [Idle EXCEPT !.kind = "ready"]
        /\ UNCHANGED <<secure, author, obs, heard, passed, dropped, authored, arrivals>>
    BY Zenon, <1>9 DEF SeedEnds
  <2>2. /\ pend'.updates = pend.updates /\ pend'.recognized = pend.recognized
        /\ pend'.prepared = pend.prepared /\ pend'.invalidated = pend.invalidated
        /\ pend'.staged = pend.staged /\ pend'.seeded = event
    BY Zenon, <2>1 DEF IsPending
  <2>3. PendingTyped(pend')
    BY Zenon, <1>2, <2>2 DEF PendingTyped
  <2>4. call' \in Calls
    BY ZenonT(60), <2>1 DEF Idle, Calls
  <2> QED
    BY Zenon, <1>3, <2>1, <2>2, <2>3, <2>4
<1> QED
  BY Zenon, <1>4, <1>5, <1>6, <1>7, <1>8, <1>9

\* The join completes: the deferred updates make of the map what was heard.
LEMMA ReadyMaps ==
  ASSUME MapInv, ListenInv, NEW id \in Ids, Ready(id), Arrives, authored' \in BOOLEAN
  PROVE  MapInv'
<1>1. /\ phase' = "listening" /\ obs' = DaveReady(id) /\ pend' = NoJoin
      /\ call' = IF call.kind = "ready" THEN Idle ELSE [call EXCEPT !.retry = TRUE]
      /\ UNCHANGED <<secure, author, heard, passed, dropped>>
  BY Zenon DEF Ready
<1>2. /\ PendingTyped(pend) /\ SessionTyped(obs) /\ call \in Calls /\ IsSession(obs)
      /\ heard \in [Ssrcs -> Users \cup {None}] /\ {secure, author, dropped} \subseteq BOOLEAN
      /\ passed \subseteq {s \in Ssrcs : obs.packets[s] # None}
  BY DEF MapInv, TypeOK, ListenInv
<1>3. PICK base : base = [obs EXCEPT !.recognized = pend.recognized,
                                     !.candidates = pend.recognized \ {Self}]
  OBVIOUS
<1>4. /\ IsSession(base) /\ base.recognized = pend.recognized
      /\ base.candidates = pend.recognized \ {Self} /\ base.ssrcs = obs.ssrcs
  BY Zenon, <1>2, <1>3 DEF IsSession
<1>5. Charted(base)
  BY <1>2, <1>4 DEF Charted, PendingTyped, SessionTyped
<1>6. PICK o : o = ApplyUpdates(base, pend.updates)
  OBVIOUS
<1>7. /\ Charted(o)
      /\ \A s \in Ssrcs, v \in Users : StandsFor(obs.ssrcs, pend.updates, s, v) => o.ssrcs[s] = v
  <2>1. pend.updates \in Seq(Updates)
    BY Zenon, <1>2 DEF PendingTyped
  <2> QED
    BY ZenonT(60), <1>4, <1>5, <1>6, <2>1, ApplyUpdatesMaps
<1>8. obs' = [obs EXCEPT !.dave = TRUE, !.completed = @ \cup {id}, !.proposals = 0,
                         !.ssrcs = o.ssrcs, !.candidates = o.candidates,
                         !.recognized = o.recognized]
  BY Zenon, <1>1, <1>3, <1>6 DEF DaveReady
<1>9. /\ obs'.completed = obs.completed \cup {id} /\ obs'.proposals = 0
      /\ obs'.ssrcs = o.ssrcs /\ obs'.candidates = o.candidates
      /\ obs'.recognized = o.recognized /\ obs'.packets = obs.packets
  BY Zenon, <1>2, <1>8 DEF IsSession
<1>10. SessionTyped(obs')
  <2>1. obs'.completed \subseteq Ids /\ obs'.proposals \in 0 .. MaxArrivals
    BY <1>2, <1>9, ObserverConstants DEF SessionTyped
  <2> QED
    BY Zenon, <1>2, <1>7, <1>9, <2>1 DEF SessionTyped, Charted
<1>11. arrivals' \in 0 .. MaxArrivals
  BY Zenon, ArrivalFacts DEF MapInv
<1>12. call' \in Calls
  <2>1. [call EXCEPT !.retry = TRUE] \in Calls
    BY Zenon, <1>2, CallTyped
  <2> QED
    BY Zenon, <1>1, <2>1, NewTyped
<1>13. /\ PendingTyped(pend') /\ pend'.staged <= arrivals' /\ obs'.proposals <= arrivals'
       /\ pend'.updates = <<>>
  BY <1>1, <1>9, <1>11, NewTyped
<1>14. {secure', author', dropped', authored'} \subseteq BOOLEAN
  BY <1>1, <1>2
<1>15. TypeOK'
  BY Zenon, <1>1, <1>2, <1>9, <1>10, <1>11, <1>12, <1>13, <1>14 DEF TypeOK
<1>16. ASSUME ~dropped, NEW s \in Ssrcs, heard[s] # None
       PROVE  StandsFor(obs'.ssrcs, <<>>, s, heard[s])
  <2>1. StandsFor(obs.ssrcs, pend.updates, s, heard[s]) /\ heard[s] \in Users
    BY Zenon, <1>2, <1>16 DEF MapInv, MappingKept
  <2>2. obs'.ssrcs[s] = heard[s]
    BY Zenon, <1>7, <1>9, <2>1
  <2> QED
    BY Zenon, <2>2, StandsWithout
<1>17. MappingKept'
  BY Zenon, <1>1, <1>13, <1>16 DEF MappingKept
<1> QED
  BY Zenon, <1>15, <1>17 DEF MapInv

\* Proposals in a join: kept, or authored.
LEMMA JoinProposalsMaps ==
  ASSUME MapInv, ListenInv, JoinProposals
  PROVE  MapInv'
<1>1. phase = "joining" /\ Arrives /\ IsPending(pend)
  BY Zenon DEF JoinProposals, ListenInv
<1>2. /\ PendingTyped(pend) /\ pend.staged <= arrivals /\ call \in Calls /\ TypeOK
      /\ {author} \subseteq BOOLEAN
  BY DEF MapInv, TypeOK
<1>3. ASSUME NEW winner, NEW staged \in {0, pend.staged + 1},
             \/ pend' = [pend EXCEPT !.seeded = None, !.winner = winner, !.staged = staged]
             \/ pend' = [pend EXCEPT !.seeded = None, !.staged = staged],
             UNCHANGED <<phase, secure, author, obs, call, heard, passed, dropped, authored>>
      PROVE  MapInv'
  <2>1. /\ pend'.updates = pend.updates /\ pend'.recognized = pend.recognized
        /\ pend'.prepared = pend.prepared /\ pend'.invalidated = pend.invalidated
        /\ pend'.staged = staged /\ pend'.seeded = None
    BY Zenon, <1>1, <1>3 DEF IsPending
  <2>2. staged \in 0 .. MaxArrivals /\ staged <= arrivals'
    BY <1>1, <1>2, ObserverConstants DEF Arrives, PendingTyped, TypeOK
  <2>3. PendingTyped(pend')
    BY Zenon, <1>2, <2>1, <2>2 DEF PendingTyped
  <2> QED
    BY Zenon, <1>1, <1>2, <1>3, <2>1, <2>2, <2>3, JoinMapsOn
<1>4. CASE authored' = ~author /\ Ready(0)
  <2>1. 0 \in Ids /\ authored' \in BOOLEAN
    BY Zenon, <1>2, <1>4, ObserverConstants
  <2> QED
    BY Zenon, <1>1, <1>4, <2>1, ReadyMaps
<1>5. CASE /\ pend' = [pend EXCEPT !.seeded = None, !.winner = TRUE,
                                   !.staged = IF pend.winner THEN @ + 1 ELSE 0]
           /\ UNCHANGED <<phase, secure, author, obs, call, out, heard, passed, dropped, authored>>
  <2>1. PICK staged \in {0, pend.staged + 1} :
          pend' = [pend EXCEPT !.seeded = None, !.winner = TRUE, !.staged = staged]
    BY Zenon, <1>5
  <2> QED
    BY Zenon, <1>3, <1>5, <2>1
<1>6. CASE /\ pend' = [pend EXCEPT !.seeded = None, !.staged = @ + 1]
           /\ UNCHANGED <<phase, secure, author, obs, call, out, heard, passed, dropped, authored>>
  <2>1. PICK staged \in {0, pend.staged + 1} :
          pend' = [pend EXCEPT !.seeded = None, !.staged = staged]
    BY Zenon, <1>6
  <2> QED
    BY Zenon, <1>3, <1>6, <2>1
<1> QED
  BY Zenon, <1>4, <1>5, <1>6 DEF JoinProposals

\* A commit or a welcome in a join.
LEMMA JoinTransitionMaps ==
  ASSUME MapInv, ListenInv, NEW id \in Ids, JoinTransition(id)
  PROVE  MapInv'
<1>1. phase = "joining" /\ Arrives /\ IsPending(pend)
  BY Zenon DEF JoinTransition, ListenInv
<1>2. /\ PendingTyped(pend) /\ pend.staged <= arrivals /\ call \in Calls /\ TypeOK
      /\ {authored} \subseteq BOOLEAN
  BY DEF MapInv, TypeOK
<1>3. /\ arrivals' \in 0 .. MaxArrivals /\ arrivals <= arrivals' /\ arrivals \in Nat
  BY Zenon, <1>1, <1>2, ArrivalFacts
<1>4. CASE Ready(id) /\ UNCHANGED authored
  <2>1. authored' \in BOOLEAN
    BY Zenon, <1>2, <1>4
  <2> QED
    BY Zenon, <1>1, <1>4, <2>1, ReadyMaps
<1>5. CASE /\ pend' = [pend EXCEPT !.prepared = @ \ {id}, !.seeded = None]
           /\ UNCHANGED <<phase, secure, author, obs, call, out, heard, passed, dropped, authored>>
  <2>1. /\ pend'.updates = pend.updates /\ pend'.recognized = pend.recognized
        /\ pend'.prepared = pend.prepared \ {id} /\ pend'.invalidated = pend.invalidated
        /\ pend'.staged = pend.staged /\ pend'.seeded = None
    BY Zenon, <1>1, <1>5 DEF IsPending
  <2>2. PendingTyped(pend') /\ pend'.staged <= arrivals'
    BY <1>2, <1>3, <2>1 DEF PendingTyped
  <2> QED
    BY Zenon, <1>1, <1>2, <1>5, <2>1, <2>2, JoinMapsOn
<1>6. CASE /\ pend' = Restarted(id)
           /\ UNCHANGED <<phase, secure, author, obs, call, out, heard, passed, dropped, authored>>
  <2>1. PICK p : p = [pend EXCEPT !.prepared = {}, !.invalidated = @ \cup {id}, !.key = FALSE,
                            !.refused = @ \cup {id},
                            !.keys = 0, !.winner = FALSE, !.staged = 0, !.saw = TRUE,
                            !.seeded = None]
    OBVIOUS
  <2>2. /\ IsPending(p) /\ p.updates = pend.updates /\ p.recognized = pend.recognized
        /\ p.prepared = {} /\ p.invalidated = pend.invalidated \cup {id}
        /\ p.staged = 0 /\ p.seeded = None
    BY Zenon, <1>1, <2>1 DEF IsPending
  <2>3. PendingTyped(p)
    BY <1>2, <2>2, ObserverConstants DEF PendingTyped
  <2>4. pend' = KeyPackage(p)
    BY Zenon, <1>6, <2>1 DEF Restarted
  <2>5. PendingTyped(pend') /\ pend'.staged = 0 /\ pend'.updates = pend.updates
    BY Zenon, <2>2, <2>3, <2>4, KeyPackageTyped
  <2>6. pend'.staged <= arrivals'
    BY <1>3, <2>5
  <2> QED
    BY Zenon, <1>1, <1>2, <1>6, <2>5, <2>6, JoinMapsOn
<1> QED
  BY Zenon, <1>4, <1>5, <1>6 DEF JoinTransition

\* A call that is dropped takes the join it waits for with it.
LEMMA CancelMaps ==
  ASSUME MapInv, Cancel
  PROVE  MapInv'
<1>1. /\ phase = "listening" \/ phase = "joining"
      /\ phase' = "listening" /\ pend' = NoJoin /\ call' = Idle
      /\ UNCHANGED <<secure, author, obs, heard, passed, authored, arrivals>>
      /\ dropped' = (dropped \/ phase = "joining")
  BY Zenon DEF Cancel, Waits
<1>2. ~dropped' => ~dropped /\ phase = "listening"
  BY Zenon, <1>1
<1>3. /\ SessionTyped(obs) /\ obs.proposals <= arrivals /\ arrivals \in 0 .. MaxArrivals
      /\ heard \in [Ssrcs -> Users \cup {None}]
      /\ passed \subseteq {s \in Ssrcs : obs.packets[s] # None}
      /\ {secure, author, authored} \subseteq BOOLEAN
  BY DEF MapInv, TypeOK
<1>4. {secure', author', dropped', authored'} \subseteq BOOLEAN
  <2>1. dropped' \in BOOLEAN
    BY Zenon, <1>1
  <2> QED
    BY Zenon, <1>1, <1>3, <2>1
<1>5. PendingTyped(pend') /\ pend'.staged <= arrivals' /\ pend'.updates = <<>>
  BY <1>1, <1>3, NewTyped
<1>6. TypeOK'
  BY Zenon, <1>1, <1>3, <1>4, <1>5, NewTyped DEF TypeOK
<1>7. ~dropped' => pend.updates = <<>>
  BY Zenon, <1>2 DEF MapInv, MappingKept
<1>8. MappingKept'
  BY Zenon, <1>1, <1>2, <1>5, <1>7 DEF MapInv, MappingKept
<1> QED
  BY Zenon, <1>6, <1>8 DEF MapInv

-----------------------------------------------------------------------------
(* The map while the session listens. *)

\* An MLS failure: a new join, with nothing deferred yet.
LEMMA RejoinMaps ==
  ASSUME MapInv, ListenInv, phase = "listening", NEW invalidated \in SUBSET Ids, Rejoin(invalidated)
  PROVE  MapInv'
<1>1. /\ phase' = "joining" /\ pend' = Pending(TRUE, obs.recognized, invalidated, TRUE)
      /\ obs' = [obs EXCEPT !.dave = FALSE] /\ Arrives
      /\ UNCHANGED <<secure, author, call, heard, passed, dropped, authored>>
  BY Zenon DEF Rejoin, Reinitialized
<1>2. /\ SessionTyped(obs) /\ obs.proposals <= arrivals /\ call \in Calls
      /\ heard \in [Ssrcs -> Users \cup {None}] /\ pend.updates = <<>>
      /\ passed \subseteq {s \in Ssrcs : obs.packets[s] # None}
      /\ {secure, author, dropped, authored} \subseteq BOOLEAN
  BY Zenon DEF MapInv, TypeOK, MappingKept
<1>3. /\ obs'.recognized = obs.recognized /\ obs'.candidates = obs.candidates
      /\ obs'.completed = obs.completed /\ obs'.proposals = obs.proposals
      /\ obs'.ssrcs = obs.ssrcs /\ obs'.packets = obs.packets
  BY Zenon, <1>1 DEF ListenInv, IsSession
<1>4. SessionTyped(obs')
  BY Zenon, <1>2, <1>3 DEF SessionTyped
<1>5. arrivals' \in 0 .. MaxArrivals /\ arrivals <= arrivals' /\ arrivals \in Nat
  BY Zenon, <1>1, ArrivalFacts DEF MapInv
<1>6. ASSUME NEW p, p = Pending(TRUE, obs.recognized, invalidated, TRUE)
      PROVE  PendingTyped(p) /\ p.staged = 0 /\ p.updates = <<>>
  BY <1>2, <1>6, ObserverConstants DEF Pending, PendingTyped, SessionTyped
<1>7. PendingTyped(pend') /\ pend'.updates = <<>> /\ pend'.staged = 0
  BY Zenon, <1>1, <1>6
<1>8. pend'.staged <= arrivals' /\ obs'.proposals <= arrivals'
  BY <1>2, <1>3, <1>5, <1>7 DEF SessionTyped
<1>9. TypeOK'
  BY Zenon, <1>1, <1>2, <1>3, <1>4, <1>5, <1>7, <1>8 DEF TypeOK
<1>10. MappingKept'
  BY Zenon, <1>1, <1>2, <1>3, <1>7 DEF MapInv, MappingKept
<1> QED
  BY Zenon, <1>9, <1>10 DEF MapInv

\* A step of a call: sources that were mapped as heard stay so.
LEMMA ListenMaps ==
  ASSUME MapInv, phase = "listening",
         UNCHANGED <<phase, secure, author, pend, dropped, authored>>,
         arrivals' = arrivals \/ Arrives, call' \in Calls,
         SessionTyped(obs'), obs'.proposals <= arrivals',
         heard' \in [Ssrcs -> Users \cup {None}],
         passed' \subseteq {s \in Ssrcs : obs'.packets[s] # None},
         \A s \in Ssrcs : ~dropped /\ heard'[s] # None =>
             \/ obs'.ssrcs[s] = heard'[s]
             \/ heard'[s] = heard[s] /\ (obs.ssrcs[s] # None => obs'.ssrcs[s] = obs.ssrcs[s])
  PROVE  MapInv'
<1>1. arrivals' \in 0 .. MaxArrivals /\ arrivals <= arrivals' /\ arrivals \in Nat
  BY Zenon, ArrivalFacts DEF MapInv
<1>2. /\ PendingTyped(pend) /\ pend.staged <= arrivals /\ pend.updates = <<>>
      /\ {secure, author, dropped, authored} \subseteq BOOLEAN
  BY Zenon DEF MapInv, TypeOK, MappingKept
<1>3. pend.staged <= arrivals'
  BY <1>1, <1>2 DEF PendingTyped
<1>4. TypeOK'
  BY Zenon, <1>1, <1>2, <1>3 DEF TypeOK
<1>5. ASSUME ~dropped, NEW s \in Ssrcs, heard'[s] # None
      PROVE  obs'.ssrcs[s] = heard'[s]
  <2>1. heard[s] # None => obs.ssrcs[s] = heard[s]
    <3>1. heard[s] # None => StandsFor(obs.ssrcs, <<>>, s, heard[s])
      BY Zenon, <1>2, <1>5 DEF MapInv, MappingKept
    <3>2. PICK map : map = obs.ssrcs
      OBVIOUS
    <3>3. PICK u : u = heard[s]
      OBVIOUS
    <3>4. StandsFor(map, <<>>, s, u) <=> map[s] = u
      BY ZenonT(60), StandsWithout
    <3> QED
      BY Zenon, <3>1, <3>2, <3>3, <3>4
  <2> QED
    BY Zenon, <1>5, <2>1
<1>6. ASSUME ~dropped, NEW s \in Ssrcs, heard'[s] # None
      PROVE  StandsFor(obs'.ssrcs, <<>>, s, heard'[s])
  <2>1. PICK u : u = heard'[s]
    OBVIOUS
  <2>2. obs'.ssrcs[s] = u
    BY Zenon, <1>5, <1>6, <2>1
  <2>3. PICK map : map = obs'.ssrcs
    OBVIOUS
  <2>4. StandsFor(map, <<>>, s, u)
    BY Zenon, <2>2, <2>3, StandsWithout
  <2> QED
    BY Zenon, <2>1, <2>3, <2>4
<1>7. MappingKept'
  BY Zenon, <1>2, <1>6 DEF MappingKept
<1> QED
  BY Zenon, <1>4, <1>7 DEF MapInv

\* A session whose packets and map of sources may differ.
PacketsMoved(o) ==
    /\ o.recognized = obs.recognized /\ o.candidates = obs.candidates
    /\ o.completed = obs.completed /\ o.proposals = obs.proposals

\* A step of a call that changes packets and maps sources that were not.
LEMMA PacketMaps ==
  ASSUME MapInv, phase = "listening",
         UNCHANGED <<phase, secure, author, pend, heard, dropped, authored>>,
         arrivals' = arrivals \/ Arrives, call' \in Calls, PacketsMoved(obs'),
         obs'.ssrcs \in [Ssrcs -> Users \cup {None}],
         obs'.packets \in [Ssrcs -> Payloads \cup {None}],
         passed' \subseteq {s \in Ssrcs : obs'.packets[s] # None},
         \A s \in Ssrcs : obs.ssrcs[s] # None => obs'.ssrcs[s] = obs.ssrcs[s]
  PROVE  MapInv'
<1>1. arrivals' \in 0 .. MaxArrivals /\ arrivals <= arrivals' /\ arrivals \in Nat
  BY Zenon, ArrivalFacts DEF MapInv
<1>2. SessionTyped(obs) /\ obs.proposals <= arrivals /\ heard \in [Ssrcs -> Users \cup {None}]
  BY Zenon DEF MapInv, TypeOK
<1>3. SessionTyped(obs') /\ obs'.proposals = obs.proposals
  BY Zenon, <1>2 DEF SessionTyped, PacketsMoved
<1>4. obs'.proposals <= arrivals'
  BY <1>1, <1>2, <1>3 DEF SessionTyped
<1> QED
  BY Zenon, <1>2, <1>3, <1>4, ListenMaps

\* A step of a call that leaves the map and the packets alone.
LEMMA QuietMaps ==
  ASSUME MapInv, phase = "listening",
         UNCHANGED <<phase, secure, author, pend, heard, passed, dropped, authored>>,
         arrivals' = arrivals \/ Arrives, call' \in Calls, PacketsMoved(obs'),
         obs'.ssrcs = obs.ssrcs, obs'.packets = obs.packets
  PROVE  MapInv'
<1>1. /\ obs.ssrcs \in [Ssrcs -> Users \cup {None}]
      /\ obs.packets \in [Ssrcs -> Payloads \cup {None}]
      /\ passed \subseteq {s \in Ssrcs : obs.packets[s] # None}
  BY Zenon DEF MapInv, TypeOK, SessionTyped
<1> QED
  BY Zenon, <1>1, PacketMaps

\* A call goes on, or returns.
LEMMA CallGoesOn ==
  ASSUME call \in Calls, GoesOn \/ Again \/ (\E r : Return(r)) \/ UNCHANGED <<call, out>>
  PROVE  call' \in Calls
<1>1. CASE GoesOn
  <2>1. (call.kind = "activity") \in BOOLEAN
    OBVIOUS
  <2> QED
    BY Zenon, <1>1, <2>1, CallTyped DEF GoesOn
<1>2. CASE Again
  <2>1. (call.kind # "speaking") \in BOOLEAN
    OBVIOUS
  <2> QED
    BY Zenon, <1>2, <2>1, CallTyped DEF Again
<1>3. CASE \E r : Return(r)
  BY Zenon, <1>3, NewTyped DEF Return
<1> QED
  BY Zenon, <1>1, <1>2, <1>3

\* What a call has queued.
LEMMA QueueMaps ==
  ASSUME MapInv, ListenInv, QueueStep
  PROVE  MapInv'
<1>1. IsSession(obs) /\ phase = "listening" /\ call \in Calls
  BY Zenon DEF MapInv, TypeOK, ListenInv, QueueStep, TakeDisconnect, TakeSpeaking, TryPending
<1>2. /\ obs.ssrcs \in [Ssrcs -> Users \cup {None}]
      /\ obs.packets \in [Ssrcs -> Payloads \cup {None}]
      /\ passed \subseteq {s \in Ssrcs : obs.packets[s] # None}
  BY Zenon DEF MapInv, TypeOK, SessionTyped
<1>3. CASE TakeDisconnect
  <2>1. PacketsMoved(obs') /\ obs'.ssrcs = obs.ssrcs /\ obs'.packets = obs.packets
    BY Zenon, <1>1, <1>3 DEF TakeDisconnect, IsSession, PacketsMoved
  <2>2. call' \in Calls
    BY Zenon, <1>1, <1>3, CallGoesOn DEF TakeDisconnect
  <2> QED
    BY Zenon, <1>1, <1>3, <2>1, <2>2, QuietMaps DEF TakeDisconnect
<1>4. CASE TakeSpeaking
  <2>1. PacketsMoved(obs') /\ obs'.ssrcs = obs.ssrcs /\ obs'.packets = obs.packets
    BY Zenon, <1>1, <1>4 DEF TakeSpeaking, IsSession, PacketsMoved
  <2>2. call' \in Calls
    BY Zenon, <1>1, <1>4, CallGoesOn DEF TakeSpeaking
  <2> QED
    BY Zenon, <1>1, <1>4, <2>1, <2>2, QuietMaps DEF TakeSpeaking
<1>5. ASSUME NEW gone, obs' = Without(gone), passed' = passed \ gone, call' \in Calls,
             UNCHANGED <<phase, secure, author, pend, heard, dropped, authored, arrivals>>
      PROVE  MapInv'
  <2>1. /\ PacketsMoved(obs') /\ obs'.ssrcs = obs.ssrcs
        /\ obs'.packets = [s \in Ssrcs |-> IF s \in gone THEN None ELSE obs.packets[s]]
    BY Zenon, <1>1, <1>5 DEF Without, IsSession, PacketsMoved
  <2>2. /\ obs'.packets \in [Ssrcs -> Payloads \cup {None}]
        /\ passed' \subseteq {s \in Ssrcs : obs'.packets[s] # None}
    BY <1>2, <1>5, <2>1
  <2> QED
    BY Zenon, <1>1, <1>2, <1>5, <2>1, <2>2, PacketMaps
<1>6. CASE TryPending
  <2>1. CASE /\ obs' = Without(Foreign) /\ call' = [call EXCEPT !.retry = FALSE]
             /\ passed' = passed \ Foreign
             /\ UNCHANGED <<phase, secure, author, pend, out, heard, dropped, authored, arrivals>>
    <3>1. call' \in Calls
      BY Zenon, <1>1, <2>1, CallTyped
    <3> QED
      BY Zenon, <1>5, <2>1, <3>1
  <2>2. ASSUME NEW s \in Mapped \ Foreign, NEW before \in SUBSET Mapped,
               obs' = Without({s} \cup (before \cap Foreign)),
               passed' = passed \ ({s} \cup (before \cap Foreign)),
               Return(Frame(obs.ssrcs[s], s, obs.packets[s], s \in passed)),
               UNCHANGED <<phase, secure, author, pend, heard, dropped, authored, arrivals>>
        PROVE  MapInv'
    <3>1. call' \in Calls
      BY Zenon, <1>1, <2>2, CallGoesOn
    <3> QED
      BY Zenon, <1>5, <2>2, <3>1
  <2> QED
    BY Zenon, <1>6, <2>1, <2>2, CloseMaps DEF TryPending
<1> QED
  BY Zenon, <1>3, <1>4, <1>6 DEF QueueStep

\* A source is mapped to a user, and its packet is kept or given up.
LEMMA SourceMaps ==
  ASSUME MapInv, ListenInv, phase = "listening", NEW s \in Ssrcs, NEW u \in Users,
         obs.ssrcs[s] \in {None, u}, NEW p \in Payloads \cup {None},
         UNCHANGED <<phase, secure, author, pend, heard, dropped, authored>>,
         arrivals' = arrivals \/ Arrives, call' \in Calls, passed' = passed \ {s},
         PacketsMoved(obs'), obs'.ssrcs = [obs.ssrcs EXCEPT ![s] = u],
         obs'.packets = [obs.packets EXCEPT ![s] = p]
  PROVE  MapInv'
<1>1. /\ obs.ssrcs \in [Ssrcs -> Users \cup {None}]
      /\ obs.packets \in [Ssrcs -> Payloads \cup {None}]
      /\ passed \subseteq {t \in Ssrcs : obs.packets[t] # None}
  BY Zenon DEF MapInv, TypeOK, SessionTyped
<1>2. /\ obs'.ssrcs \in [Ssrcs -> Users \cup {None}]
      /\ obs'.packets \in [Ssrcs -> Payloads \cup {None}]
      /\ passed' \subseteq {t \in Ssrcs : obs'.packets[t] # None}
      /\ \A t \in Ssrcs : obs.ssrcs[t] # None => obs'.ssrcs[t] = obs.ssrcs[t]
  BY <1>1
<1> QED
  BY Zenon, <1>2, PacketMaps

\* The packet of a source mapped to a user.
LEMMA MappedPacketMaps ==
  ASSUME MapInv, ListenInv, phase = "listening", NEW s \in Ssrcs, NEW u \in Users,
         NEW payload \in Payloads, obs.ssrcs[s] \in {None, u}, MappedPacket(u, s, payload),
         UNCHANGED <<phase, secure, author, pend, heard, dropped, authored>>, Arrives
  PROVE  MapInv'
<1>1. PICK o : o = [obs EXCEPT !.ssrcs[s] = u, !.packets[s] = None]
  OBVIOUS
<1>2. /\ IsSession(o) /\ PacketsMoved(o) /\ o.ssrcs = [obs.ssrcs EXCEPT ![s] = u]
      /\ o.packets = [obs.packets EXCEPT ![s] = None]
  BY Zenon, <1>1 DEF ListenInv, IsSession, PacketsMoved
<1>3. ASSUME NEW q, q = Buffer(o, s, payload)
      PROVE  /\ PacketsMoved(q) /\ q.ssrcs = [obs.ssrcs EXCEPT ![s] = u]
             /\ q.packets = [obs.packets EXCEPT ![s] = payload]
  <2>1. PacketsMoved(q) /\ q.ssrcs = o.ssrcs /\ q.packets = [o.packets EXCEPT ![s] = payload]
    BY Zenon, <1>2, <1>3 DEF Buffer, IsSession, PacketsMoved
  <2>2. obs.packets \in [Ssrcs -> Payloads \cup {None}]
    BY Zenon DEF MapInv, TypeOK, SessionTyped
  <2> QED
    BY <1>2, <2>1, <2>2
<1>4. passed' = passed \ {s} /\ (obs' = o \/ obs' = Buffer(o, s, payload))
  BY Zenon, <1>1 DEF MappedPacket
<1>5. call' \in Calls
  <2>1. call \in Calls
    BY Zenon DEF MapInv, TypeOK
  <2>2. GoesOn \/ \E r : Return(r)
    BY Zenon DEF MappedPacket
  <2> QED
    BY Zenon, <2>1, <2>2, CallGoesOn
<1>6. CASE obs' = o
  BY Zenon, <1>2, <1>4, <1>5, <1>6, SourceMaps
<1>7. CASE obs' = Buffer(o, s, payload)
  BY Zenon, <1>3, <1>4, <1>5, <1>7, SourceMaps
<1> QED
  BY Zenon, <1>4, <1>6, <1>7

\* A packet is returned, kept or passed over.
LEMMA PacketArrivalMaps ==
  ASSUME MapInv, ListenInv, NEW s \in Ssrcs, NEW payload \in Payloads, Packet(s, payload)
  PROVE  MapInv'
<1>1. /\ phase = "listening" /\ Arrives /\ IsSession(obs)
      /\ UNCHANGED <<phase, secure, author, pend, heard, dropped, authored>>
  BY Zenon DEF Packet, Receives, Waits, ListenInv
<1>2. /\ obs.ssrcs \in [Ssrcs -> Users \cup {None}] /\ obs.candidates \subseteq Users
      /\ obs.packets \in [Ssrcs -> Payloads \cup {None}] /\ call \in Calls
      /\ passed \subseteq {t \in Ssrcs : obs.packets[t] # None}
  BY Zenon DEF MapInv, TypeOK, SessionTyped
<1>3. ASSUME NEW p \in Payloads \cup {None}, obs' = [obs EXCEPT !.packets[s] = p],
             passed' = passed \ {s}, GoesOn
      PROVE  MapInv'
  <2>1. /\ PacketsMoved(obs') /\ obs'.ssrcs = obs.ssrcs
        /\ obs'.packets = [obs.packets EXCEPT ![s] = p]
    BY Zenon, <1>1, <1>3 DEF IsSession, PacketsMoved
  <2>2. /\ obs'.packets \in [Ssrcs -> Payloads \cup {None}]
        /\ passed' \subseteq {t \in Ssrcs : obs'.packets[t] # None}
    BY <1>2, <1>3, <2>1
  <2>3. call' \in Calls
    BY Zenon, <1>2, <1>3, CallGoesOn
  <2> QED
    BY Zenon, <1>1, <1>2, <2>1, <2>2, <2>3, PacketMaps
<1>4. CASE obs.ssrcs[s] = None /\ UnknownPacket(s, payload)
  <2>1. CASE UNCHANGED <<obs, passed>> /\ GoesOn
    <3>1. PacketsMoved(obs') /\ call' \in Calls
      BY Zenon, <1>2, <2>1, CallGoesOn DEF PacketsMoved
    <3> QED
      BY Zenon, <1>1, <2>1, <3>1, QuietMaps
  <2>2. CASE /\ Guessing /\ obs' = [obs EXCEPT !.ssrcs[s] = call.from]
             /\ passed' = passed \cup {t \in {s} : obs.packets[t] # None}
             /\ Return(Frame(call.from, s, payload, FALSE))
    <3>1. call.from \in Users
      BY Zenon, <1>2, <2>2, CallTyped DEF Guessing
    <3>2. /\ PacketsMoved(obs') /\ obs'.packets = obs.packets
          /\ obs'.ssrcs = [obs.ssrcs EXCEPT ![s] = call.from]
      BY Zenon, <1>1, <2>2 DEF IsSession, PacketsMoved
    <3>3. /\ obs'.ssrcs \in [Ssrcs -> Users \cup {None}]
          /\ passed' \subseteq {t \in Ssrcs : obs'.packets[t] # None}
          /\ \A t \in Ssrcs : obs.ssrcs[t] # None => obs'.ssrcs[t] = obs.ssrcs[t]
      BY <1>2, <1>4, <2>2, <3>1, <3>2
    <3>4. call' \in Calls
      BY Zenon, <1>2, <2>2, CallGoesOn
    <3> QED
      BY Zenon, <1>1, <1>2, <3>2, <3>3, <3>4, PacketMaps
  <2>3. ASSUME NEW c \in Inferred, MappedPacket(c, s, payload)
        PROVE  MapInv'
    <3>1. c \in Users
      BY Zenon, <1>2 DEF Inferred
    <3> QED
      BY Zenon, <1>1, <1>4, <2>3, <3>1, MappedPacketMaps
  <2>4. CASE obs' = Buffer(obs, s, payload) /\ passed' = passed \ {s} /\ GoesOn
    BY Zenon, <1>3, <2>4 DEF Buffer
  <2> QED
    BY Zenon, <1>4, <2>1, <2>2, <2>3, <2>4 DEF UnknownPacket
<1>5. CASE obs.ssrcs[s] # None /\ MappedPacket(obs.ssrcs[s], s, payload)
  <2>1. obs.ssrcs[s] \in Users
    BY Zenon, <1>2, <1>5
  <2> QED
    BY Zenon, <1>1, <1>5, <2>1, MappedPacketMaps
<1>6. CASE obs' = [obs EXCEPT !.packets[s] = None] /\ passed' = passed \ {s} /\ GoesOn
  BY Zenon, <1>3, <1>6
<1> QED
  BY Zenon, <1>4, <1>5, <1>6 DEF Packet

\* A speaking state names the source, or finds its user by it.
LEMMA SpeakingMaps ==
  ASSUME MapInv, ListenInv, NEW s \in Ssrcs, NEW named \in BOOLEAN, NEW on \in BOOLEAN,
         Speaking(s, named, on)
  PROVE  MapInv'
<1>1. /\ phase = "listening" /\ Arrives /\ IsSession(obs) /\ Again
      /\ UNCHANGED <<phase, secure, author, pend, passed, dropped, authored>>
  BY Zenon DEF Speaking, Waits, ListenInv
<1>2. /\ SessionTyped(obs) /\ obs.proposals <= arrivals /\ call \in Calls
      /\ obs.ssrcs \in [Ssrcs -> Users \cup {None}]
      /\ heard \in [Ssrcs -> Users \cup {None}]
      /\ passed \subseteq {t \in Ssrcs : obs.packets[t] # None}
  BY Zenon DEF MapInv, TypeOK, SessionTyped
<1>3. call' \in Calls
  BY Zenon, <1>1, <1>2, CallGoesOn
<1>4. CASE UNCHANGED <<obs, heard>>
  BY Zenon, <1>1, <1>3, <1>4, QuietMaps DEF PacketsMoved
<1>5. PICK u : u = IF named THEN Owner[s] ELSE obs.ssrcs[s]
  OBVIOUS
<1>6. CASE /\ u # None
           /\ obs' = [obs EXCEPT !.ssrcs[s] = IF on THEN u ELSE @, !.states = Queue(@, u)]
           /\ heard' = IF on /\ named THEN [heard EXCEPT ![s] = u] ELSE heard
  <2>1. u \in Users
    BY <1>2, <1>5, <1>6, ObserverConstants
  <2>2. PICK v, n : /\ obs' = [obs EXCEPT !.ssrcs[s] = v, !.states = n]
                    /\ v = IF on THEN u ELSE obs.ssrcs[s]
    BY Zenon, <1>6
  <2>3. /\ PacketsMoved(obs') /\ obs'.packets = obs.packets
        /\ obs'.ssrcs = [obs.ssrcs EXCEPT ![s] = v]
    BY Zenon, <1>1, <2>2 DEF IsSession, PacketsMoved
  <2>4. obs'.ssrcs \in [Ssrcs -> Users \cup {None}] /\ heard' \in [Ssrcs -> Users \cup {None}]
    BY SMTT(60), <1>2, <1>6, <2>1, <2>2, <2>3
  <2>5. ASSUME NEW t \in Ssrcs, heard'[t] # None
        PROVE  \/ obs'.ssrcs[t] = heard'[t]
               \/ heard'[t] = heard[t] /\ (obs.ssrcs[t] # None => obs'.ssrcs[t] = obs.ssrcs[t])
    BY <1>2, <1>5, <1>6, <2>2, <2>3
  <2>6. SessionTyped(obs') /\ obs'.proposals = obs.proposals
    BY Zenon, <1>2, <2>3, <2>4 DEF SessionTyped, PacketsMoved
  <2>7. obs'.proposals <= arrivals'
    <3>1. arrivals <= arrivals' /\ arrivals \in Nat /\ arrivals' \in 0 .. MaxArrivals
      BY Zenon, <1>1, ArrivalFacts DEF MapInv
    <3> QED
      BY <1>2, <2>6, <3>1 DEF SessionTyped
  <2>8. passed' \subseteq {t \in Ssrcs : obs'.packets[t] # None}
    BY Zenon, <1>1, <1>2, <2>3
  <2> QED
    BY Zenon, <1>1, <1>3, <2>4, <2>5, <2>6, <2>7, <2>8, ListenMaps
<1> QED
  BY Zenon, <1>4, <1>5, <1>6 DEF Speaking

\* A user leaves: none of their sources stays mapped, and none counts as heard.
LEMMA DisconnectMaps ==
  ASSUME MapInv, ListenInv, NEW u \in Users, ClientDisconnect(u)
  PROVE  MapInv'
<1>1. /\ phase = "listening" /\ Arrives /\ IsSession(obs) /\ Again
      /\ UNCHANGED <<phase, secure, author, pend, passed, dropped, authored>>
      /\ heard' = Forget(heard, u)
  BY Zenon DEF ClientDisconnect, Waits, ListenInv
<1>2. /\ SessionTyped(obs) /\ obs.proposals <= arrivals /\ call \in Calls
      /\ obs.ssrcs \in [Ssrcs -> Users \cup {None}]
      /\ heard \in [Ssrcs -> Users \cup {None}]
      /\ passed \subseteq {t \in Ssrcs : obs.packets[t] # None}
  BY Zenon DEF MapInv, TypeOK, SessionTyped
<1>3. call' \in Calls
  BY Zenon, <1>1, <1>2, CallGoesOn
<1>4. /\ obs'.recognized = obs.recognized \ {u} /\ obs'.candidates = obs.candidates \ {u}
      /\ obs'.completed = obs.completed /\ obs'.proposals = obs.proposals
      /\ obs'.packets = obs.packets /\ obs'.ssrcs = Forget(obs.ssrcs, u)
  BY Zenon, <1>1 DEF ClientDisconnect, IsSession
<1>5. /\ heard' \in [Ssrcs -> Users \cup {None}] /\ obs'.ssrcs \in [Ssrcs -> Users \cup {None}]
      /\ \A t \in Ssrcs : heard'[t] = IF heard[t] = u THEN None ELSE heard[t]
      /\ \A t \in Ssrcs : obs'.ssrcs[t] = IF obs.ssrcs[t] = u THEN None ELSE obs.ssrcs[t]
  BY SMTT(60), <1>1, <1>2, <1>4 DEF Forget
<1>6. SessionTyped(obs')
  BY <1>2, <1>4, <1>5 DEF SessionTyped
<1>7. obs'.proposals <= arrivals'
  <2>1. arrivals <= arrivals' /\ arrivals \in Nat /\ arrivals' \in 0 .. MaxArrivals
    BY Zenon, <1>1, ArrivalFacts DEF MapInv
  <2> QED
    BY <1>2, <1>4, <2>1 DEF SessionTyped
<1>8. ASSUME ~dropped, NEW t \in Ssrcs, heard[t] # None
      PROVE  obs.ssrcs[t] = heard[t]
  <2>1. StandsFor(obs.ssrcs, <<>>, t, heard[t])
    BY Zenon, <1>1, <1>8 DEF MapInv, MappingKept
  <2>2. PICK map : map = obs.ssrcs
    OBVIOUS
  <2>3. PICK v : v = heard[t]
    OBVIOUS
  <2>4. StandsFor(map, <<>>, t, v) <=> map[t] = v
    BY Zenon, StandsWithout
  <2> QED
    BY Zenon, <2>1, <2>2, <2>3, <2>4
<1>9. ASSUME NEW t \in Ssrcs, ~dropped, heard'[t] # None
      PROVE  obs'.ssrcs[t] = heard'[t]
  BY Zenon, <1>5, <1>8, <1>9
<1>10. passed' \subseteq {t \in Ssrcs : obs'.packets[t] # None}
  BY Zenon, <1>1, <1>2, <1>4
<1> QED
  BY Zenon, <1>1, <1>3, <1>5, <1>6, <1>7, <1>9, <1>10, ListenMaps

\* The other gateway events while a call waits.
LEMMA GatewayEventMaps ==
  ASSUME MapInv, ListenInv,
         \/ \E u \in Users : ClientsConnect(u)
         \/ Proposals \/ Ignored \/ GatewayClosed
         \/ \E id \in Ids : Transition(id)
  PROVE  MapInv'
<1>1. phase = "listening" /\ IsSession(obs)
  BY Zenon DEF ListenInv, ClientsConnect, Proposals, Ignored, GatewayClosed, Transition, Waits
<1>2. /\ SessionTyped(obs) /\ obs.proposals <= arrivals /\ call \in Calls
      /\ heard \in [Ssrcs -> Users \cup {None}]
      /\ passed \subseteq {t \in Ssrcs : obs.packets[t] # None}
  BY Zenon DEF MapInv, TypeOK
<1>3. ASSUME UNCHANGED <<phase, secure, author, pend, heard, passed, dropped, authored>>,
             arrivals' = arrivals \/ Arrives, Again \/ GoesOn, SessionTyped(obs'),
             obs'.proposals <= arrivals', obs'.ssrcs = obs.ssrcs, obs'.packets = obs.packets
      PROVE  MapInv'
  <2>1. call' \in Calls
    BY Zenon, <1>2, <1>3, CallGoesOn
  <2> QED
    BY Zenon, <1>1, <1>2, <1>3, <2>1, ListenMaps
<1>4. ASSUME arrivals' = arrivals \/ Arrives
      PROVE  obs.proposals <= arrivals'
  <2>1. arrivals <= arrivals' /\ arrivals \in Nat /\ arrivals' \in 0 .. MaxArrivals
    BY Zenon, <1>4, ArrivalFacts DEF MapInv
  <2> QED
    BY <1>2, <2>1 DEF SessionTyped
<1>5. ASSUME NEW u \in Users, ClientsConnect(u)
      PROVE  MapInv'
  <2>1. /\ obs'.recognized = obs.recognized \cup {u} /\ obs'.candidates = obs.candidates \cup {u}
        /\ obs'.completed = obs.completed /\ obs'.proposals = obs.proposals
        /\ obs'.packets = obs.packets /\ obs'.ssrcs = obs.ssrcs
    BY Zenon, <1>1, <1>5 DEF ClientsConnect, IsSession
  <2>2. SessionTyped(obs')
    BY <1>2, <2>1 DEF SessionTyped
  <2> QED
    BY Zenon, <1>3, <1>4, <1>5, <2>1, <2>2 DEF ClientsConnect
<1>6. CASE Proposals
  <2>1. CASE Rejoin({})
    <3>1. {} \in SUBSET Ids
      OBVIOUS
    <3> QED
      BY Zenon, <1>1, <2>1, <3>1, RejoinMaps
  <2>2. CASE /\ obs' = [obs EXCEPT !.proposals = @ + 1] /\ Again /\ Arrives
             /\ UNCHANGED <<phase, secure, author, pend, heard, passed, dropped, authored>>
    <3>1. /\ obs'.recognized = obs.recognized /\ obs'.candidates = obs.candidates
          /\ obs'.completed = obs.completed /\ obs'.proposals = obs.proposals + 1
          /\ obs'.packets = obs.packets /\ obs'.ssrcs = obs.ssrcs
      BY Zenon, <1>1, <2>2 DEF IsSession
    <3>2. obs'.proposals \in 0 .. MaxArrivals /\ obs'.proposals <= arrivals'
      BY <1>2, <2>2, <3>1, ObserverConstants DEF Arrives, SessionTyped, MapInv, TypeOK
    <3>3. SessionTyped(obs')
      BY Zenon, <1>2, <3>1, <3>2 DEF SessionTyped
    <3> QED
      BY Zenon, <1>3, <2>2, <3>1, <3>2, <3>3
  <2>3. CASE /\ Again
             /\ UNCHANGED <<phase, secure, author, pend, obs, heard, passed, dropped, authored, arrivals>>
    BY Zenon, <1>2, <1>3, <1>4, <2>3
  <2> QED
    BY Zenon, <1>6, <2>1, <2>2, <2>3 DEF Proposals
<1>7. CASE Ignored
  BY Zenon, <1>2, <1>3, <1>4, <1>7 DEF Ignored
<1>8. CASE GatewayClosed
  <2>1. /\ obs'.recognized = obs.recognized /\ obs'.candidates = obs.candidates
        /\ obs'.completed = obs.completed /\ obs'.proposals = obs.proposals
        /\ obs'.packets = obs.packets /\ obs'.ssrcs = obs.ssrcs
    BY Zenon, <1>1, <1>8 DEF GatewayClosed, IsSession
  <2>2. SessionTyped(obs')
    BY Zenon, <1>2, <2>1 DEF SessionTyped
  <2> QED
    BY Zenon, <1>3, <1>4, <1>8, <2>1, <2>2 DEF GatewayClosed
<1>9. ASSUME NEW id \in Ids, Transition(id)
      PROVE  MapInv'
  <2>1. CASE Rejoin({id})
    <3>1. {id} \in SUBSET Ids
      OBVIOUS
    <3> QED
      BY Zenon, <1>1, <2>1, <3>1, RejoinMaps
  <2>2. CASE /\ obs' = Applied(id) /\ Again /\ Arrives
             /\ UNCHANGED <<phase, secure, author, pend, heard, passed, dropped, authored>>
    <3>1. /\ obs'.recognized = obs.recognized /\ obs'.candidates = obs.candidates
          /\ obs'.completed = obs.completed \cup {id} /\ obs'.proposals = 0
          /\ obs'.packets = obs.packets /\ obs'.ssrcs = obs.ssrcs
      BY Zenon, <1>1, <2>2 DEF Applied, IsSession
    <3>2. obs'.proposals \in 0 .. MaxArrivals /\ obs'.proposals <= arrivals'
      BY SMTT(60), <2>2, <3>1, ObserverConstants DEF Arrives, MapInv, TypeOK
    <3>3. obs'.completed \subseteq Ids
      BY <1>2, <3>1 DEF SessionTyped
    <3>4. SessionTyped(obs')
      BY Zenon, <1>2, <3>1, <3>2, <3>3 DEF SessionTyped
    <3> QED
      BY Zenon, <1>3, <2>2, <3>1, <3>2, <3>4
  <2> QED
    BY Zenon, <1>9, <2>1, <2>2 DEF Transition
<1> QED
  BY Zenon, <1>5, <1>6, <1>7, <1>8, <1>9

\* Before the first call nobody was heard.
LEMMA InitMaps == Init => MapInv
<1> SUFFICES ASSUME Init
             PROVE  MapInv
  OBVIOUS
<1>1. /\ phase = "closed" /\ pend = NoJoin /\ obs = NewSession /\ call = Idle
      /\ heard = [s \in Ssrcs |-> None] /\ passed = {} /\ dropped = FALSE /\ secure = FALSE
      /\ author = FALSE /\ authored = FALSE /\ arrivals = 0
  BY Zenon DEF Init
<1>2. arrivals \in 0 .. MaxArrivals /\ pend.staged <= arrivals /\ obs.proposals <= arrivals
  BY SMTT(60), <1>1, NewTyped, ObserverConstants
<1>3. /\ heard \in [Ssrcs -> Users \cup {None}] /\ \A s \in Ssrcs : heard[s] = None
      /\ {secure, author, dropped, authored} \subseteq BOOLEAN
      /\ passed \subseteq {s \in Ssrcs : obs.packets[s] # None}
  BY ZenonT(60), <1>1
<1>4. TypeOK
  BY Zenon, <1>1, <1>2, <1>3, NewTyped DEF TypeOK
<1>5. MappingKept
  BY Zenon, <1>1, <1>3, NewTyped DEF MappingKept
<1> QED
  BY Zenon, <1>4, <1>5 DEF MapInv

\* Every step of the observer preserves its types and its map.
LEMMA NextMaps == MapInv /\ ListenInv /\ [Next]_vars => MapInv'
<1> SUFFICES ASSUME MapInv, ListenInv, [Next]_vars
             PROVE  MapInv'
  OBVIOUS
<1>1. IsPending(pend) /\ IsSession(obs) /\ call \in Calls
  BY Zenon DEF ListenInv, MapInv, TypeOK
<1>2. CASE UNCHANGED vars
  <2>1. TypeOK'
    BY Zenon, <1>2 DEF MapInv, TypeOK, vars
  <2>2. MappingKept'
    BY Zenon, <1>2 DEF MapInv, MappingKept, vars
  <2> QED
    BY Zenon, <2>1, <2>2 DEF MapInv
<1>3. CASE Connect
  BY Zenon, <1>3, ConnectMaps
<1>4. CASE Drop \/ Fails \/ JoinFails \/ \E s \in Ssrcs : BrokenPacket(s)
  BY Zenon, <1>4, CloseMaps DEF Drop, Fails, JoinFails, BrokenPacket
<1>5. CASE JoinStep
  BY Zenon, <1>1, <1>4, <1>5, JoinEventMaps, JoinProposalsMaps, JoinTransitionMaps DEF JoinStep
<1>6. ASSUME NEW kind \in {"audio", "activity", "speaking"}, NEW from \in {Service, None},
             Begin(kind, from)
      PROVE  MapInv'
  <2>1. call' \in Calls
    BY <1>6 DEF Begin, Calls
  <2> QED
    BY Zenon, <1>6, <2>1, QuietMaps DEF Begin, PacketsMoved
<1>7. CASE QueueStep
  BY Zenon, <1>7, QueueMaps
<1>8. CASE ReceiveStep
  BY Zenon, <1>4, <1>8, PacketArrivalMaps, SpeakingMaps, DisconnectMaps, GatewayEventMaps
     DEF ReceiveStep
<1>9. CASE Elapse
  <2>1. call' \in Calls /\ UNCHANGED <<phase, secure, author, pend, obs, heard, passed, dropped, authored, arrivals>>
    BY Zenon, <1>1, <1>9, CallTyped DEF Elapse
  <2>2. TypeOK'
    BY Zenon, <2>1 DEF MapInv, TypeOK
  <2>3. MappingKept'
    BY Zenon, <2>1 DEF MapInv, MappingKept
  <2> QED
    BY Zenon, <2>2, <2>3 DEF MapInv
<1>10. CASE TimesOut
  <2>1. CASE Close
    BY Zenon, <2>1, CloseMaps
  <2>2. CASE /\ phase = "listening" /\ Return(Told("timeout", None))
             /\ UNCHANGED <<phase, secure, author, pend, obs, heard, passed, dropped, authored, arrivals>>
    <3>1. call' \in Calls
      BY Zenon, <1>1, <2>2, CallGoesOn
    <3> QED
      BY Zenon, <2>2, <3>1, QuietMaps DEF PacketsMoved
  <2> QED
    BY Zenon, <1>10, <2>1, <2>2 DEF TimesOut
<1>11. CASE Cancel
  BY Zenon, <1>11, CancelMaps
<1> QED
  BY Zenon, <1>2, <1>3, <1>4, <1>5, <1>6, <1>7, <1>8, <1>9, <1>10, <1>11 DEF Next

\* The state of a join, the map of sources and what a call returns are sound at
\* every moment, however joins, restarts, dropped calls, packets and events
\* interleave.
THEOREM ObserverInvariant == Spec => []ObserverInv
<1>1. Init => ListenInv /\ MapInv
  BY Zenon, InitInv, InitMaps
<1>2. (ListenInv /\ MapInv) /\ [Next]_vars => (ListenInv /\ MapInv)'
  BY Zenon, NextKeeps, NextMaps
<1>3. ListenInv /\ MapInv => ObserverInv
  BY Zenon DEF MapInv, ObserverInv
<1> QED
  BY <1>1, <1>2, <1>3, PTL DEF Spec

\* A listening session maps each source to whom the gateway named for it and who
\* has not left: speaking states and departures that a join consumed are applied
\* after it in their order, and no inference replaces them.
THEOREM MappingAlwaysHeard == Spec => []MappingHeard
<1>1. ObserverInv => MappingHeard
  <2> SUFFICES ASSUME ObserverInv, phase = "listening", ~dropped, NEW s \in Ssrcs, heard[s] # None
               PROVE  obs.ssrcs[s] = heard[s]
    BY Zenon DEF MappingHeard
  <2>1. StandsFor(obs.ssrcs, <<>>, s, heard[s])
    BY Zenon DEF ObserverInv, MappingKept
  <2>2. PICK map : map = obs.ssrcs
    OBVIOUS
  <2>3. PICK v : v = heard[s]
    OBVIOUS
  <2>4. StandsFor(map, <<>>, s, v) <=> map[s] = v
    BY Zenon, StandsWithout
  <2> QED
    BY Zenon, <2>1, <2>2, <2>3, <2>4
<1> QED
  BY <1>1, ObserverInvariant, PTL
=============================================================================
