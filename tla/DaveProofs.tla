----------------------------- MODULE DaveProofs -----------------------------
(***************************************************************************)
(* Proofs about DaveTransitions, for any number of transition ids, events  *)
(* of a drain, epochs and groups: DaveInv is inductive, and with it the    *)
(* safety properties of the module hold.                                   *)
(***************************************************************************)
EXTENDS DaveTransitions, TLAPS, NaturalsInduction, WellFoundedInduction

\* OneRuntime without the sequence of places.
InOnePlace ==
    IF s.failed \/ ~negotiated
    THEN s.dave = {} /\ s.initial = {} /\ s.local = {} /\ s.pend = {}
    ELSE \/ s.dave # {} /\ s.initial = {} /\ s.local = {} /\ s.pend = {}
         \/ s.dave = {} /\ s.initial # {} /\ s.local = {} /\ s.pend = {}
         \/ s.dave = {} /\ s.initial = {} /\ s.local # {} /\ s.pend = {}
         \/ s.dave = {} /\ s.initial = {} /\ s.local = {} /\ s.pend # {}

\* The part of DaveInv that a handler can disturb: it is about the session alone.
Sound ==
    /\ s \in Session /\ InOnePlace
    /\ InvalidatedStaysOut /\ EchoesApplied
    /\ \A r \in Runtimes : r.group <= s.groups

\* While a slot has not seen a transition, its frames are of the current epoch.
Current ==
    /\ s.initial = {} /\ s.pend = {}
    /\ \A q \in queued : \A r \in q, d \in s.dave \cup s.local : r.group = d.group => r = d

-----------------------------------------------------------------------------
(* Options, and the places of the runtime.                                 *)

\* An Option holds nothing, or one element of its type.
LEMMA OptionFacts ==
  ASSUME NEW T
  PROVE  /\ {} \in Option(T)
         /\ \A x \in T : {x} \in Option(T)
         /\ \A o \in Option(T) : \A x \in o : x \in T /\ o = {x}
  BY DEF Option

\* InOnePlace says what OneRuntime says.
LEMMA PlacesEquivalent == OneRuntime <=> InOnePlace
<1>1. /\ Homes[1] = s.dave /\ Homes[2] = s.initial
      /\ Homes[3] = s.local /\ Homes[4] = s.pend
  BY DEF Homes
<1>2. 1..4 = {1, 2, 3, 4}
  OBVIOUS
<1> HIDE DEF Homes
<1>3. QED
  BY <1>1, <1>2 DEF OneRuntime, InOnePlace

\* A non-empty set of transition ids has a first one, as a BTreeMap of them has.
LEMMA LeastId ==
  ASSUME NEW T, T \subseteq Nat, T # {}
  PROVE  \E x \in T : \A y \in T : x <= y
<1>1. PICK x \in T : \A y \in T : ~(<<y, x>> \in OpToRel(<, Nat))
  BY Zenon, NatLessThanWellFounded, WFMin
<1>2. ASSUME NEW y \in T PROVE x <= y
  <2>1. SUFFICES ASSUME y < x PROVE FALSE
    OBVIOUS
  <2>2. <<y, x>> \in Nat \X Nat
    OBVIOUS
  <2>3. <<y, x>>[1] < <<y, x>>[2]
    BY <2>1
  <2>4. <<y, x>> \in OpToRel(<, Nat)
    BY Zenon, <2>2, <2>3 DEF OpToRel
  <2>5. QED
    BY Zenon, <1>1, <2>4
<1>3. QED
  BY <1>2

\* next_prepared_transition_id returns a prepared transition or the init one.
LEMMA NextPreparedFacts ==
  ASSUME s.prepared \subseteq Ids
  PROVE  NextPrepared \in Ids /\ (NextPrepared # Init0 => NextPrepared \in s.prepared)
<1>1. CASE s.prepared = {}
  <2>1. Init0 \in Ids
    BY DaveConstants DEF Init0, Ids
  <2>2. QED
    BY <1>1, <2>1 DEF NextPrepared
<1>2. CASE s.prepared # {}
  <2>1. s.prepared \subseteq Nat
    BY DEF Ids
  <2>2. \E i \in s.prepared : \A j \in s.prepared : i <= j
    BY Zenon, <2>1, <1>2, LeastId
  <2>3. \E i \in Ids : i \in s.prepared /\ \A j \in s.prepared : i <= j
    BY Zenon, <2>2
  <2>4. QED
    BY <1>2, <2>3 DEF NextPrepared
<1>3. QED
  BY <1>1, <1>2

-----------------------------------------------------------------------------
(* The three ways a step of a drain ends: a handler returns Ok, a handler  *)
(* fails, the drain returns.                                               *)

\* What the session's part of DaveInv is, in this state and in the next.
LEMMA InvIsSound == DaveInv => Sound
  BY PlacesEquivalent DEF DaveInv, TypeOK, Sound

\* A handler that leaves a sound session, and has named a transition or leaves
\* the frames of the slot current, preserves the invariant.
LEMMA HandledKeeps ==
  ASSUME DaveInv, NEW names \in BOOLEAN, Receive(names), Sound', s.groups <= s'.groups,
         names \/ transitions \/ at # "slot" \/ Current'
  PROVE  DaveInv'
<1> USE DaveConstants
<1>1. OneRuntime'
  <2>1. (OneRuntime <=> InOnePlace)'
    BY PlacesEquivalent, PTL
  <2>2. QED
    BY <2>1 DEF Sound
<1>2. /\ queued' = queued /\ negotiated' = negotiated /\ at' = at
      /\ count' = count + 1 /\ transitions' = (transitions \/ names)
      /\ at \in {"joining", "starting", "slot", "settling"} /\ count < DrainLimit
  BY DEF Receive, owner, Polling, Draining
<1>3. TypeOK'
  BY <1>2 DEF DaveInv, TypeOK, Sound
<1>4. MediaUnderRuntime' /\ InvalidatedStaysOut' /\ EchoesApplied'
  BY <1>2 DEF DaveInv, MediaUnderRuntime, Sound
<1>5. (\A r \in Runtimes \cup UNION queued : r.group <= s.groups)'
  <2>1. ASSUME NEW r \in UNION queued PROVE r.group <= s'.groups
    <3>1. r.group <= s.groups
      BY DEF DaveInv
    <3>2. r \in Runtime
      BY OptionFacts DEF DaveInv, TypeOK
    <3>3. r.group \in Int /\ s.groups \in Int /\ s'.groups \in Int
      BY <3>2 DEF Runtime, DaveInv, TypeOK, Session, Sound
    <3>4. QED
      BY <3>1, <3>3
  <2>2. QED
    BY <2>1, <1>2 DEF Sound
<1>6. QED
  BY ZenonT(60), <1>1, <1>2, <1>3, <1>4, <1>5 DEF DaveInv, Current

\* A session that fails closed is sound: it has no runtime left.
LEMMA FailClosedSound ==
  ASSUME Sound, s' = FailClosed, negotiated' = negotiated
  PROVE  Sound' /\ s'.groups = s.groups
<1>1. s' \in Session
  <2>1. {} \in Option(Runtime) /\ {} \in Option([id : Ids, runtime : Runtime, source : Sources])
    BY Zenon, OptionFacts
  <2>2. s \in Session
    BY DEF Sound
  <2>3. QED
    BY ZenonT(60), <2>1, <2>2 DEF Session, FailClosed
<1>2. /\ s'.dave = {} /\ s'.initial = {} /\ s'.local = {} /\ s'.pend = {}
      /\ s'.failed = TRUE /\ s'.prepared = {} /\ s'.echoes = {} /\ s'.groups = s.groups
  BY DEF Sound, Session, FailClosed
<1>3. QED
  BY <1>1, <1>2 DEF Sound, InOnePlace, InvalidatedStaysOut, EchoesApplied, Runtimes

\* A drain that returns an error does not go on to the slot, and only keeps
\* frames that are settled next.
LEMMA ErrorReturns ==
  ASSUME DaveInv, NEW result \in {"dave", "gateway"}, Draining, Returns(result),
         Sound', s'.groups = s.groups, negotiated' = negotiated
  PROVE  DaveInv'
<1> USE DaveConstants
<1>1. OneRuntime'
  <2>1. (OneRuntime <=> InOnePlace)'
    BY PlacesEquivalent, PTL
  <2>2. QED
    BY <2>1 DEF Sound
<1>2. /\ count' = 0 /\ transitions' = FALSE
      /\ at' \in {"held", "gone", "settling"}
      /\ queued' = {} \/ queued' = queued
      /\ at' \in {"held", "gone"} => queued' = {}
  BY DEF Returns, Draining, Ended, DaveInv
<1>3. TypeOK'
  <2>1. s' \in Session /\ queued \subseteq Option(Runtime) /\ negotiated \in BOOLEAN
    BY Zenon DEF DaveInv, TypeOK, Sound
  <2>2. count' \in 0..DrainLimit
    BY <1>2
  <2>3. transitions' \in BOOLEAN
    BY Zenon, <1>2
  <2>4. queued' \subseteq Option(Runtime)
    BY Zenon, <1>2, <2>1
  <2>5. at' \in {"joining", "held", "starting", "ready", "slot", "settling", "fill", "gone"}
    BY Zenon, <1>2
  <2>6. QED
    BY Zenon, <2>1, <2>2, <2>3, <2>4, <2>5 DEF TypeOK
<1>4. MediaUnderRuntime' /\ InvalidatedStaysOut' /\ EchoesApplied'
  BY <1>2 DEF DaveInv, MediaUnderRuntime, Sound
<1>5. (\A r \in Runtimes \cup UNION queued : r.group <= s.groups)'
  BY <1>2 DEF DaveInv, Sound
<1>6. QED
  BY <1>1, <1>2, <1>3, <1>4, <1>5 DEF DaveInv

\* A handler that fails preserves the invariant.
LEMMA FailsKeeps ==
  ASSUME DaveInv, NEW result \in {"dave", "gateway"}, Fails(result)
  PROVE  DaveInv'
<1>1. Draining /\ Returns(result) /\ s' = FailClosed /\ negotiated' = negotiated
  BY DEF Fails, Polling
<1>2. Sound' /\ s'.groups = s.groups
  BY <1>1, InvIsSound, FailClosedSound
<1>3. QED
  BY <1>1, <1>2, ErrorReturns

\* A session that no step touches stays sound.
LEMMA StaysSound ==
  ASSUME DaveInv, UNCHANGED <<s, negotiated>>
  PROVE  Sound' /\ s'.groups = s.groups
<1>1. Sound
  BY InvIsSound
<1>2. QED
  BY <1>1 DEF Sound, InOnePlace, InvalidatedStaysOut, EchoesApplied, Runtimes

\* A drain that returns Ok has left the runtime at rest, or only joins.
LEMMA OkReturns ==
  ASSUME DaveInv, Draining, Returns("ok"), ~s.failed, UNCHANGED <<s, negotiated>>,
         at # "joining" => s.initial = {} /\ s.local = {} /\ s.pend = {}
  PROVE  DaveInv'
<1> USE DaveConstants
<1>1. Sound' /\ s' = s /\ negotiated' = negotiated
  BY StaysSound
<1>2. OneRuntime'
  <2>1. (OneRuntime <=> InOnePlace)'
    BY PlacesEquivalent, PTL
  <2>2. QED
    BY <1>1, <2>1 DEF Sound
<1>3. /\ count' = 0 /\ transitions' = FALSE
      /\ queued' = {} \/ queued' = queued
      /\ \/ at = "joining" /\ at' = "held" /\ queued = {} /\ queued' = {}
         \/ at = "starting" /\ at' = "ready" /\ queued = {} /\ queued' = {}
         \/ at = "slot" /\ at' = "fill" /\ (queued' = {} \/ (~transitions /\ queued' = queued))
         \/ at = "settling" /\ at' = "fill" /\ queued' = {}
  BY DEF Returns, Draining, Ended, DaveInv
<1>4. TypeOK'
  <2>1. s' \in Session /\ queued \subseteq Option(Runtime) /\ negotiated \in BOOLEAN
    BY Zenon, <1>1 DEF DaveInv, TypeOK, Sound
  <2>2. count' \in 0..DrainLimit
    BY <1>3
  <2>3. transitions' \in BOOLEAN
    BY Zenon, <1>3
  <2>4. queued' \subseteq Option(Runtime)
    BY Zenon, <1>3, <2>1
  <2>5. at' \in {"joining", "held", "starting", "ready", "slot", "settling", "fill", "gone"}
    BY Zenon, <1>3
  <2>6. QED
    BY Zenon, <1>1, <2>1, <2>2, <2>3, <2>4, <2>5 DEF TypeOK
<1>5. MediaUnderRuntime' /\ InvalidatedStaysOut' /\ EchoesApplied'
  BY <1>1, <1>3 DEF DaveInv, MediaUnderRuntime, Sound
<1>6. (\A r \in Runtimes \cup UNION queued : r.group <= s.groups)'
  BY <1>1, <1>3 DEF DaveInv, Sound
<1>7. (at \in {"joining", "held", "starting", "gone"} => queued = {})'
  BY <1>3
<1>8. (at \in {"fill", "ready"} => ~s.failed /\ s.local = {})'
  BY <1>1, <1>3
<1>9. (at \in {"fill", "ready"} => Current)'
  BY <1>1, <1>3 DEF DaveInv, Current
<1>10. QED
  BY <1>2, <1>3, <1>4, <1>5, <1>6, <1>7, <1>8, <1>9 DEF DaveInv, Current

\* Every end of a drain preserves the invariant.
LEMMA DrainReturnKeeps ==
  ASSUME DaveInv, DrainReturn
  PROVE  DaveInv'
<1>1. CASE DrainRefused
  BY <1>1, StaysSound, ErrorReturns DEF DrainRefused
<1>2. CASE DrainNothing
  BY <1>2, OkReturns DEF DrainNothing, InFlight
<1>3. CASE DrainTimeout
  <2>1. Draining /\ ~s.failed /\ Returns(DrainResult) /\ UNCHANGED <<s, negotiated>>
    BY <1>3 DEF DrainTimeout, Polling
  <2>2. CASE DrainResult = "dave"
    BY <2>1, <2>2, StaysSound, ErrorReturns
  <2>3. CASE DrainResult = "ok"
    <3>1. at # "joining" => s.initial = {} /\ s.local = {} /\ s.pend = {}
      BY <2>3 DEF DrainResult, InFlight
    <3>2. QED
      BY <2>1, <2>3, <3>1, OkReturns
  <2>4. QED
    BY <2>2, <2>3 DEF DrainResult
<1>4. CASE DrainBacklog
  BY <1>4, StaysSound, ErrorReturns DEF DrainBacklog, Polling
<1>5. CASE DrainClosed
  BY <1>5, StaysSound, ErrorReturns DEF DrainClosed, Polling
<1>6. QED
  BY <1>1, <1>2, <1>3, <1>4, <1>5 DEF DrainReturn

-----------------------------------------------------------------------------
(* The owner between drains.                                               *)

\* Steps of the owner leave the session alone; the frames a slot prepares are
\* encrypted with the runtime in use.
LEMMA OwnerKeeps ==
  ASSUME DaveInv, Owner
  PROVE  DaveInv'
<1>1. Sound' /\ s' = s /\ negotiated' = negotiated /\ count' = count /\ transitions' = transitions
  BY StaysSound DEF Owner, Play, NextSlot, FillPlayout, TrackEnds, FrameSent, owner
<1>2. OneRuntime'
  <2>1. (OneRuntime <=> InOnePlace)'
    BY PlacesEquivalent, PTL
  <2>2. QED
    BY <1>1, <2>1 DEF Sound
<1>3. \/ at = "held" /\ at' = "starting" /\ queued' = queued
      \/ at = "ready" /\ at' = "slot" /\ queued' = queued
      \/ at = "fill" /\ at' = "ready" /\ queued' \in {queued, queued \cup {s.dave}}
      \/ at \in {"fill", "ready"} /\ at' \in Ended /\ queued' = {}
      \/ at' = at /\ queued' \subseteq queued
  BY DEF Owner, Play, NextSlot, FillPlayout, TrackEnds, FrameSent, owner, Ended
<1>4. queued' \subseteq queued \cup {s.dave}
  BY <1>3
<1>5. TypeOK'
  <2>1. s.dave \in Option(Runtime)
    BY DEF DaveInv, TypeOK, Session
  <2>2. queued' \subseteq Option(Runtime)
    BY Zenon, <1>4, <2>1 DEF DaveInv, TypeOK
  <2>3. at' \in {"joining", "held", "starting", "ready", "slot", "settling", "fill", "gone"}
    BY Zenon, <1>3 DEF DaveInv, TypeOK, Ended
  <2>4. QED
    BY Zenon, <1>1, <2>2, <2>3 DEF DaveInv, TypeOK
<1>6. MediaUnderRuntime'
  <2>1. ASSUME negotiated, at = "fill" PROVE s.dave # {}
    BY <2>1, InvIsSound DEF DaveInv, Sound, InOnePlace
  <2>2. QED
    BY <1>1, <1>3, <2>1 DEF DaveInv, MediaUnderRuntime
<1>7. InvalidatedStaysOut' /\ EchoesApplied'
  BY <1>1 DEF Sound
<1>8. (\A r \in Runtimes \cup UNION queued : r.group <= s.groups)'
  <2>1. UNION queued' \subseteq s.dave \cup UNION queued
    BY <1>4
  <2>2. s.dave \subseteq Runtimes
    BY DEF Runtimes
  <2>3. QED
    BY <1>1, <2>1, <2>2 DEF DaveInv, Sound
<1>9. (at \in {"joining", "held", "starting", "gone"} => queued = {})'
  BY <1>3 DEF DaveInv
<1>10. (at \in {"fill", "ready"} => ~s.failed /\ s.local = {})'
  BY <1>1, <1>3 DEF DaveInv, Ended
<1>11. (at \in {"fill", "ready"} \/ (at = "slot" /\ ~transitions) => Current)'
  <2>1. CASE at = "fill" /\ at' = "ready"
    <3>1. Current /\ s.local = {}
      BY <2>1 DEF DaveInv, Current
    <3>2. \A r, d \in s.dave : r = d
      BY OptionFacts DEF DaveInv, TypeOK, Session
    <3>3. QED
      BY <1>1, <1>4, <3>1, <3>2 DEF Current
  <2>2. CASE queued' \subseteq queued /\ (at' = at \/ (at = "ready" /\ at' = "slot"))
    BY <1>1, <2>2 DEF DaveInv, Current
  <2>3. QED
    BY <1>3, <2>1, <2>2 DEF Ended
<1>12. QED
  BY <1>2, <1>5, <1>6, <1>7, <1>8, <1>9, <1>10, <1>11 DEF DaveInv, Current

-----------------------------------------------------------------------------
(* The event handlers.                                                     *)

\* A handler that changes nothing preserves the invariant.
LEMMA IgnoredKeeps ==
  ASSUME DaveInv, NEW names \in BOOLEAN, Handled(s, names)
  PROVE  DaveInv'
<1>1. Receive(names) /\ s' = s /\ negotiated' = negotiated /\ queued' = queued
  BY DEF Handled, Receive, owner
<1>2. Sound' /\ s'.groups = s.groups
  BY <1>1, StaysSound
<1>3. s.groups <= s'.groups
  BY <1>2 DEF Sound, Session
<1>4. transitions \/ at # "slot" \/ Current'
  BY <1>1 DEF DaveInv, Current
<1>5. QED
  BY <1>1, <1>2, <1>3, <1>4, HandledKeeps

\* A sound session that is polled and has a runtime somewhere negotiated DAVE
\* and has it nowhere else.
LEMMA HomeFacts ==
  ASSUME DaveInv, Polling
  PROVE  /\ ~s.failed
         /\ s.dave # {} => negotiated /\ s.initial = {} /\ s.local = {} /\ s.pend = {}
         /\ s.initial # {} => negotiated /\ s.dave = {} /\ s.local = {} /\ s.pend = {}
         /\ s.local # {} => negotiated /\ s.dave = {} /\ s.initial = {} /\ s.pend = {}
         /\ s.pend # {} => negotiated /\ s.dave = {} /\ s.initial = {} /\ s.local = {}
<1>1. InOnePlace
  BY InvIsSound DEF Sound
<1>2. ~s.failed
  BY DEF Polling
<1>3. QED
  BY <1>1, <1>2 DEF InOnePlace

\* The runtimes of the session, and what the library makes of one, are known.
LEMMA RuntimeFacts ==
  ASSUME DaveInv, NEW r \in Runtimes
  PROVE  /\ r \in Runtime /\ r.group <= s.groups
         /\ Advances(r) => Advanced(r) \in Runtime /\ Advanced(r).group <= s.groups
<1>1. r.group <= s.groups
  BY DEF DaveInv
<1>2. r \in Runtime
  <2>1. /\ s.dave \in Option(Runtime) /\ s.initial \in Option(Runtime)
        /\ s.local \in Option(Runtime)
        /\ s.pend \in Option([id : Ids, runtime : Runtime, source : Sources])
    BY DEF DaveInv, TypeOK, Session
  <2>2. \A p \in s.pend : p \in [id : Ids, runtime : Runtime, source : Sources]
    <3> DEFINE T == [id : Ids, runtime : Runtime, source : Sources]
    <3>1. s.pend \in Option(T)
      BY <2>1
    <3> HIDE DEF T
    <3>2. \A p \in s.pend : p \in T
      BY Zenon, <3>1, OptionFacts
    <3>3. QED
      BY Zenon, <3>2 DEF T
  <2>3. \A p \in s.pend : p.runtime \in Runtime
    BY Zenon, <2>2
  <2>4. \A x \in s.dave \cup s.initial \cup s.local : x \in Runtime
    BY ZenonT(60), <2>1, OptionFacts
  <2>5. r \in s.dave \cup s.initial \cup s.local \/ \E p \in s.pend : r = p.runtime
    BY Zenon DEF Runtimes
  <2>6. QED
    BY Zenon, <2>3, <2>4, <2>5
<1>3. ASSUME Advances(r)
      PROVE  Advanced(r) \in Runtime /\ Advanced(r).group = r.group
  BY <1>2, <1>3, DaveConstants DEF Advances, Advanced, Runtime
<1>4. QED
  BY <1>1, <1>2, <1>3

\* What Polling and the counters give when a handler returns Ok.
LEMMA HandledFacts ==
  ASSUME NEW t, NEW names \in BOOLEAN, Handled(t, names)
  PROVE  Receive(names) /\ Polling /\ s' = t /\ negotiated' = negotiated /\ queued' = queued
  BY DEF Handled, Receive, owner

\* An id that is not invalidated may be announced as prepared.
LEMMA PreparedKeeps ==
  ASSUME DaveInv, NEW id \in Ids, id \notin s.invalidated,
         Handled([s EXCEPT !.prepared = @ \cup {id}], TRUE)
  PROVE  DaveInv'
<1>1. /\ Receive(TRUE) /\ s' = [s EXCEPT !.prepared = @ \cup {id}]
      /\ negotiated' = negotiated
  BY ZenonT(60), HandledFacts
<1>2. s \in Session
  BY DEF DaveInv, TypeOK
<1>3. s' \in Session
  BY <1>1, <1>2 DEF Session
<1>4. /\ s'.dave = s.dave /\ s'.initial = s.initial /\ s'.local = s.local /\ s'.pend = s.pend
      /\ s'.prepared = s.prepared \cup {id} /\ s'.echoes = s.echoes
      /\ s'.localInit = s.localInit /\ s'.invalidated = s.invalidated
      /\ s'.groups = s.groups /\ s'.failed = s.failed
  BY <1>1, <1>2 DEF Session
<1>5. Sound'
  BY <1>1, <1>3, <1>4, InvIsSound
     DEF Sound, InOnePlace, InvalidatedStaysOut, EchoesApplied, Runtimes
<1>6. s.groups <= s'.groups
  BY <1>2, <1>4 DEF Session
<1>7. QED
  BY ZenonT(60), <1>1, <1>5, <1>6, HandledKeeps

\* An announcement may be dropped, with the echo that was awaited under its id.
LEMMA DroppedKeeps ==
  ASSUME DaveInv, NEW id \in Ids, NEW echoes \in SUBSET s.echoes,
         Handled([s EXCEPT !.echoes = echoes, !.prepared = @ \ {id}], TRUE)
  PROVE  DaveInv'
<1>1. /\ Receive(TRUE) /\ s' = [s EXCEPT !.echoes = echoes, !.prepared = @ \ {id}]
      /\ negotiated' = negotiated
  BY ZenonT(60), HandledFacts
<1>2. s \in Session
  BY DEF DaveInv, TypeOK
<1>3. s' \in Session
  BY ZenonT(60), <1>1, <1>2 DEF Session
<1>4. /\ s'.dave = s.dave /\ s'.initial = s.initial /\ s'.local = s.local /\ s'.pend = s.pend
      /\ s'.prepared = s.prepared \ {id} /\ s'.echoes = echoes
      /\ s'.localInit = s.localInit /\ s'.invalidated = s.invalidated
      /\ s'.groups = s.groups /\ s'.failed = s.failed
  BY <1>1, <1>2 DEF Session
<1>5. Sound'
  BY <1>1, <1>3, <1>4, InvIsSound
     DEF Sound, InOnePlace, InvalidatedStaysOut, EchoesApplied, Runtimes
<1>6. s.groups <= s'.groups
  BY <1>2, <1>4 DEF Session
<1>7. QED
  BY ZenonT(60), <1>1, <1>5, <1>6, HandledKeeps

\* The pending transition's fields have their types.
LEMMA PendingFacts ==
  ASSUME DaveInv, NEW p \in s.pend
  PROVE  p.id \in Ids /\ p.runtime \in Runtime /\ p.runtime \in Runtimes
<1> DEFINE T == [id : Ids, runtime : Runtime, source : Sources]
<1>1. s.pend \in Option(T)
  BY DEF DaveInv, TypeOK, Session
<1> HIDE DEF T
<1>2. p \in T
  BY ZenonT(60), <1>1, OptionFacts
<1>3. p.id \in Ids /\ p.runtime \in Runtime
  BY <1>2 DEF T
<1>4. p.runtime \in Runtimes
  BY Zenon DEF Runtimes
<1>5. QED
  BY <1>3, <1>4

\* An execute puts the pending runtime in use, fails, or finds nothing pending.
LEMMA ExecuteKeeps ==
  ASSUME DaveInv, NEW id \in Ids, ExecuteTransition(id)
  PROVE  DaveInv'
<1>1. CASE Handled(s, TRUE)
  BY ZenonT(60), <1>1, IgnoredKeeps
<1>2. CASE Fails("dave")
  BY <1>2, FailsKeeps
<1>3. ASSUME NEW p \in s.pend,
             Handled([s EXCEPT !.pend = {}, !.dave = {p.runtime},
                               !.welcomed = IF p.source = "WelcomeBacked"
                                            THEN @ \cup {id} ELSE @], TRUE)
      PROVE  DaveInv'
  <2>1. /\ Receive(TRUE) /\ Polling /\ negotiated' = negotiated
        /\ s' = [s EXCEPT !.pend = {}, !.dave = {p.runtime},
                          !.welcomed = IF p.source = "WelcomeBacked"
                                       THEN @ \cup {id} ELSE @]
    BY Zenon, <1>3 DEF Handled, Receive, owner
  <2>2. s \in Session
    BY DEF DaveInv, TypeOK
  <2>3. p.runtime \in Runtime /\ p.runtime.group <= s.groups
    BY PendingFacts, RuntimeFacts
  <2>4. /\ {p.runtime} \in Option(Runtime)
        /\ {} \in Option([id : Ids, runtime : Runtime, source : Sources])
    BY Zenon, <2>3, OptionFacts
  <2>5. s' \in Session
    BY ZenonT(60), <2>1, <2>2, <2>4 DEF Session
  <2>6. /\ s'.dave = {p.runtime} /\ s'.initial = s.initial /\ s'.local = s.local /\ s'.pend = {}
        /\ s'.prepared = s.prepared /\ s'.echoes = s.echoes
        /\ s'.localInit = s.localInit /\ s'.invalidated = s.invalidated
        /\ s'.groups = s.groups /\ s'.failed = s.failed
    BY <2>1, <2>2 DEF Session
  <2>7. InOnePlace'
    BY <2>1, <2>6, HomeFacts DEF InOnePlace
  <2>8. (\A r \in Runtimes : r.group <= s.groups)'
    BY <2>1, <2>3, <2>6, HomeFacts DEF Runtimes
  <2>9. Sound'
    BY <2>5, <2>6, <2>7, <2>8 DEF Sound, DaveInv, InvalidatedStaysOut, EchoesApplied
  <2>10. s.groups <= s'.groups
    BY <2>2, <2>6 DEF Session
  <2>11. QED
    BY ZenonT(60), <2>1, <2>9, <2>10, HandledKeeps
<1>4. QED
  BY ZenonT(60), <1>1, <1>2, <1>3 DEF ExecuteTransition

\* ready_pending_transition, for a session t whose runtime was taken out.
LEMMA ReadyPendingKeeps ==
  ASSUME DaveInv, Polling, negotiated, NEW names \in BOOLEAN,
         names \/ transitions \/ at # "slot",
         NEW t \in Session,
         t.dave = {}, t.initial = {}, t.local = {}, t.failed = s.failed, t.groups = s.groups,
         t.prepared \subseteq s.prepared, t.invalidated = s.invalidated,
         t.echoes = s.echoes, t.localInit = s.localInit,
         NEW id \in Ids, id \notin s.invalidated,
         NEW runtime \in Runtime, runtime.group <= s.groups, NEW source \in Sources,
         ReadyPending(t, id, runtime, source, names)
  PROVE  DaveInv'
<1>1. CASE Fails("gateway")
  BY <1>1, FailsKeeps
<1> DEFINE p == [id |-> id, runtime |-> runtime, source |-> source]
<1>2. CASE Handled([t EXCEPT !.pend = {p}], names)
  <2>1. /\ Receive(names) /\ negotiated' = negotiated /\ s' = [t EXCEPT !.pend = {p}]
    BY ZenonT(60), <1>2, HandledFacts
  <2>2. {p} \in Option([id : Ids, runtime : Runtime, source : Sources])
    <3> DEFINE T == [id : Ids, runtime : Runtime, source : Sources]
    <3>1. p \in T
      OBVIOUS
    <3> HIDE DEF T, p
    <3>2. {p} \in Option(T)
      BY Zenon, <3>1, OptionFacts
    <3>3. QED
      BY <3>2 DEF T
  <2>3. p.id = id /\ p.runtime = runtime
    OBVIOUS
  <2> HIDE DEF p
  <2>4. s' \in Session
    BY ZenonT(60), <2>1, <2>2 DEF Session
  <2>5. /\ s'.dave = {} /\ s'.initial = {} /\ s'.local = {} /\ s'.pend = {p}
        /\ s'.prepared \subseteq s.prepared /\ s'.echoes = s.echoes
        /\ s'.localInit = s.localInit /\ s'.invalidated = s.invalidated
        /\ s'.groups = s.groups /\ s'.failed = s.failed
    BY <2>1 DEF Session
  <2>6. InOnePlace'
    BY <2>1, <2>5, HomeFacts DEF InOnePlace
  <2>7. (\A r \in Runtimes : r.group <= s.groups)'
    BY <2>3, <2>5 DEF Runtimes
  <2>8. InvalidatedStaysOut' /\ EchoesApplied'
    BY <2>3, <2>5 DEF DaveInv, InvalidatedStaysOut, EchoesApplied
  <2>9. Sound'
    BY <2>4, <2>6, <2>7, <2>8 DEF Sound
  <2>10. s.groups <= s'.groups
    BY <2>5 DEF DaveInv, TypeOK, Session
  <2>11. QED
    BY <2>1, <2>9, <2>10, HandledKeeps
<1>3. QED
  BY <1>1, <1>2 DEF ReadyPending

\* The init commit of a pending group, and a new group that replaces the one in
\* use, put a runtime in use and await the echo of the init transition.
LEMMA FoundedKeeps ==
  ASSUME DaveInv, Polling, negotiated, s.local = {}, s.pend = {},
         NEW runtime \in Runtime, NEW groups \in 0..MaxGroup,
         runtime.group <= groups, s.groups <= groups,
         NEW prepared \in SUBSET s.prepared,
         s' = [s EXCEPT !.dave = {runtime}, !.initial = {}, !.groups = groups,
                        !.prepared = prepared, !.localInit = @ \cup {Init0},
                        !.echoes = @ \cup {Init0}],
         Receive(FALSE),
         transitions \/ at # "slot" \/ s.groups < runtime.group
  PROVE  DaveInv'
<1>1. s \in Session /\ Init0 \in Ids /\ negotiated' = negotiated /\ queued' = queued
  BY DaveConstants DEF DaveInv, TypeOK, Init0, Ids, Receive, owner
<1>2. {runtime} \in Option(Runtime) /\ {} \in Option(Runtime)
  BY Zenon, OptionFacts
<1>3. s' \in Session
  BY ZenonT(60), <1>1, <1>2 DEF Session
<1>4. /\ s'.dave = {runtime} /\ s'.initial = {} /\ s'.local = {} /\ s'.pend = {}
      /\ s'.prepared = prepared /\ s'.echoes = s.echoes \cup {Init0}
      /\ s'.localInit = s.localInit \cup {Init0} /\ s'.invalidated = s.invalidated
      /\ s'.groups = groups /\ s'.failed = s.failed
  BY <1>1 DEF Session
<1>5. InOnePlace'
  BY <1>1, <1>4, HomeFacts DEF InOnePlace
<1>6. (\A r \in Runtimes : r.group <= s.groups)'
  BY <1>4 DEF Runtimes
<1>7. InvalidatedStaysOut' /\ EchoesApplied'
  BY <1>4 DEF DaveInv, InvalidatedStaysOut, EchoesApplied
<1>8. Sound'
  BY <1>3, <1>5, <1>6, <1>7 DEF Sound
<1>9. transitions \/ at # "slot" \/ Current'
  <2>1. ASSUME s.groups < runtime.group, NEW q \in queued, NEW r \in q
        PROVE  r.group # runtime.group
    <3>1. r.group <= s.groups /\ r \in Runtime
      BY OptionFacts DEF DaveInv, TypeOK
    <3>2. r.group \in Int /\ runtime.group \in Int /\ s.groups \in Int
      BY <3>1, <1>1 DEF Runtime, Session
    <3>3. QED
      BY <3>1, <3>2, <2>1
  <2>2. QED
    BY <1>1, <1>4, <2>1 DEF Current
<1>10. s.groups <= s'.groups
  BY <1>4
<1>11. QED
  BY ZenonT(60), <1>8, <1>9, <1>10, HandledKeeps

\* A local commit found invalid is given up with its group for a new one.
LEMMA ReinitializedKeeps ==
  ASSUME DaveInv, NEW id \in Ids, s.local # {}, CanCreate, Handled(Reinitialized(id), TRUE)
  PROVE  DaveInv'
<1>1. /\ Receive(TRUE) /\ Polling /\ s' = Reinitialized(id) /\ negotiated' = negotiated
  BY ZenonT(60), HandledFacts
<1>2. s \in Session
  BY DEF DaveInv, TypeOK
<1>3. /\ Created(0) \in Runtime /\ Created(0).group = s.groups + 1
      /\ s.groups + 1 \in 0..MaxGroup /\ s.groups <= s.groups + 1
  BY <1>2, DaveConstants DEF Created, CanCreate, Runtime, Session
<1> DEFINE c == Created(0)
           g == s.groups + 1
<1>4. s' = [s EXCEPT !.dave = {}, !.pend = {}, !.local = {}, !.prepared = {}, !.echoes = {},
                     !.invalidated = @ \cup {id}, !.welcomed = {}, !.localInit = {},
                     !.groups = g, !.initial = {c}]
  BY <1>1, <1>2 DEF Reinitialized, Session
<1>5. c \in Runtime /\ c.group = g /\ g \in 0..MaxGroup /\ s.groups <= g
  BY <1>3
<1> HIDE DEF c, g
<1>6. /\ {c} \in Option(Runtime) /\ {} \in Option(Runtime)
      /\ {} \in Option([id : Ids, runtime : Runtime, source : Sources])
  BY Zenon, <1>5, OptionFacts
<1>7. s' \in Session
  BY ZenonT(60), <1>2, <1>4, <1>5, <1>6 DEF Session
<1>8. /\ s'.dave = {} /\ s'.initial = {c} /\ s'.local = {} /\ s'.pend = {}
      /\ s'.prepared = {} /\ s'.echoes = {} /\ s'.localInit = {}
      /\ s'.groups = g /\ s'.failed = s.failed
  BY <1>2, <1>4 DEF Session
<1>9. InOnePlace'
  BY <1>1, <1>8, HomeFacts DEF InOnePlace
<1>10. (\A r \in Runtimes : r.group <= s.groups)'
  BY <1>5, <1>8 DEF Runtimes
<1>11. Sound'
  BY <1>7, <1>8, <1>9, <1>10 DEF Sound, InvalidatedStaysOut, EchoesApplied
<1>12. QED
  BY ZenonT(60), <1>1, <1>5, <1>8, <1>11, HandledKeeps

\* The runtime in use is set aside with the commit it made.
LEMMA CommittedKeeps ==
  ASSUME DaveInv, NEW r \in s.dave, Handled([s EXCEPT !.dave = {}, !.local = {r}], FALSE)
  PROVE  DaveInv'
<1>1. /\ Receive(FALSE) /\ Polling /\ s' = [s EXCEPT !.dave = {}, !.local = {r}]
      /\ negotiated' = negotiated /\ queued' = queued
  BY ZenonT(60), HandledFacts
<1>2. s \in Session
  BY DEF DaveInv, TypeOK
<1>3. r \in Runtime /\ r.group <= s.groups
  BY RuntimeFacts DEF Runtimes
<1>4. {r} \in Option(Runtime) /\ {} \in Option(Runtime)
  BY Zenon, <1>3, OptionFacts
<1>5. s' \in Session
  BY ZenonT(60), <1>1, <1>2, <1>4 DEF Session
<1>6. /\ s'.dave = {} /\ s'.initial = s.initial /\ s'.local = {r} /\ s'.pend = s.pend
      /\ s'.prepared = s.prepared /\ s'.echoes = s.echoes
      /\ s'.localInit = s.localInit /\ s'.invalidated = s.invalidated
      /\ s'.groups = s.groups /\ s'.failed = s.failed
  BY <1>1, <1>2 DEF Session
<1>7. InOnePlace'
  BY <1>1, <1>6, HomeFacts DEF InOnePlace
<1>8. (\A x \in Runtimes : x.group <= s.groups)'
  BY <1>1, <1>3, <1>6, HomeFacts DEF Runtimes
<1>9. Sound'
  BY <1>5, <1>6, <1>7, <1>8 DEF Sound, DaveInv, InvalidatedStaysOut, EchoesApplied
<1>10. transitions \/ at # "slot" \/ Current'
  BY <1>1, <1>6 DEF DaveInv, Current
<1>11. s.groups <= s'.groups
  BY <1>2, <1>6 DEF Session
<1>12. QED
  BY ZenonT(60), <1>1, <1>9, <1>10, <1>11, HandledKeeps

\* DavePrepareEpoch and DavePrepareTransition.
LEMMA PrepareKeeps ==
  ASSUME DaveInv, NEW id \in Ids, NEW b \in BOOLEAN,
         PrepareEpoch(id, b) \/ PrepareTransition(id, b)
  PROVE  DaveInv'
<1>1. CASE Handled(s, TRUE)
  BY ZenonT(60), <1>1, IgnoredKeeps
<1>2. CASE Fails("dave")
  BY <1>2, FailsKeeps
<1>3. CASE id \notin s.invalidated /\ Handled([s EXCEPT !.prepared = @ \cup {id}], TRUE)
  BY ZenonT(60), <1>3, PreparedKeeps
<1>4. QED
  BY Zenon, <1>1, <1>2, <1>3 DEF PrepareEpoch, PrepareTransition

\* An announcement that is dropped, and nothing else.
LEMMA ForgottenKeeps ==
  ASSUME DaveInv, NEW id \in Ids, Handled([s EXCEPT !.prepared = @ \ {id}], TRUE)
  PROVE  DaveInv'
<1>1. s \in Session
  BY DEF DaveInv, TypeOK
<1>2. [s EXCEPT !.prepared = @ \ {id}] = [s EXCEPT !.echoes = s.echoes, !.prepared = @ \ {id}]
  BY ZenonT(60), <1>1 DEF Session
<1>3. Handled([s EXCEPT !.echoes = s.echoes, !.prepared = @ \ {id}], TRUE)
  BY Zenon, <1>2
<1>4. QED
  BY Zenon, <1>3, DroppedKeeps

\* A commit announced while one of our own waits to be.
LEMMA LocalCommitKeeps ==
  ASSUME DaveInv, NEW id \in Ids, id \notin s.invalidated, NEW v \in Verdicts,
         LocalCommitAnnounced(id, v)
  PROVE  DaveInv'
<1>1. PICK r \in s.local :
        \/ /\ v = "ok" /\ Advances(r)
           /\ ReadyPending([s EXCEPT !.local = {}, !.prepared = @ \ {id}], id, Advanced(r),
                           "CommitBacked", TRUE)
        \/ v = "invalid" /\ CanCreate /\ Handled(Reinitialized(id), TRUE)
        \/ v = "invalid" /\ \E f \in {"dave", "gateway"} : Fails(f)
        \/ v = "empty" /\ Fails("dave")
  BY Zenon DEF LocalCommitAnnounced
<1>2. CASE /\ Advances(r)
           /\ ReadyPending([s EXCEPT !.local = {}, !.prepared = @ \ {id}], id, Advanced(r),
                           "CommitBacked", TRUE)
  <2> DEFINE t == [s EXCEPT !.local = {}, !.prepared = @ \ {id}]
  <2>1. s \in Session
    BY DEF DaveInv, TypeOK
  <2>2. {} \in Option(Runtime)
    BY Zenon, OptionFacts
  <2>3. Polling
    BY Zenon, <1>2 DEF ReadyPending, Handled, Receive, Fails
  <2>4. t \in Session
    BY ZenonT(60), <2>1, <2>2 DEF Session
  <2>5. /\ t.dave = s.dave /\ t.initial = s.initial /\ t.local = {} /\ t.failed = s.failed
        /\ t.groups = s.groups /\ t.prepared \subseteq s.prepared
        /\ t.invalidated = s.invalidated /\ t.echoes = s.echoes /\ t.localInit = s.localInit
    BY <2>1 DEF Session
  <2>6. s.dave = {} /\ s.initial = {} /\ negotiated
    BY <2>3, HomeFacts
  <2>7. Advanced(r) \in Runtime /\ Advanced(r).group <= s.groups
    BY <1>2, RuntimeFacts DEF Runtimes
  <2>8. ReadyPending(t, id, Advanced(r), "CommitBacked", TRUE) /\ "CommitBacked" \in Sources
    BY ZenonT(60), <1>2 DEF Sources
  <2> HIDE DEF t
  <2>9. QED
    BY ZenonT(60), <2>3, <2>4, <2>5, <2>6, <2>7, <2>8, ReadyPendingKeeps
<1>3. CASE CanCreate /\ Handled(Reinitialized(id), TRUE)
  BY ZenonT(60), <1>3, ReinitializedKeeps
<1>4. CASE \E f \in {"dave", "gateway"} : Fails(f)
  BY <1>4, FailsKeeps
<1>5. QED
  BY ZenonT(60), <1>1, <1>2, <1>3, <1>4

\* A commit of another member moves the runtime in use to its next epoch.
LEMMA RemoteCommitKeeps ==
  ASSUME DaveInv, NEW id \in Ids, id \notin s.invalidated, NEW v \in Verdicts,
         RemoteCommit(id, v)
  PROVE  DaveInv'
<1>1. CASE Handled(s, TRUE)
  BY ZenonT(60), <1>1, IgnoredKeeps
<1>2. CASE Fails("dave")
  BY <1>2, FailsKeeps
<1>3. ASSUME NEW r \in s.dave, Advances(r),
             ReadyPending([s EXCEPT !.dave = {}, !.prepared = @ \ {id}], id, Advanced(r),
                          "CommitBacked", TRUE)
      PROVE  DaveInv'
  <2> DEFINE t == [s EXCEPT !.dave = {}, !.prepared = @ \ {id}]
  <2>1. s \in Session
    BY DEF DaveInv, TypeOK
  <2>2. {} \in Option(Runtime)
    BY Zenon, OptionFacts
  <2>3. Polling
    BY Zenon, <1>3 DEF ReadyPending, Handled, Receive, Fails
  <2>4. t \in Session
    BY ZenonT(60), <2>1, <2>2 DEF Session
  <2>5. /\ t.dave = {} /\ t.initial = s.initial /\ t.local = s.local /\ t.failed = s.failed
        /\ t.groups = s.groups /\ t.prepared \subseteq s.prepared
        /\ t.invalidated = s.invalidated /\ t.echoes = s.echoes /\ t.localInit = s.localInit
    BY <2>1 DEF Session
  <2>6. s.local = {} /\ s.initial = {} /\ negotiated
    BY <2>3, HomeFacts
  <2>7. Advanced(r) \in Runtime /\ Advanced(r).group <= s.groups
    BY <1>3, RuntimeFacts DEF Runtimes
  <2>8. ReadyPending(t, id, Advanced(r), "CommitBacked", TRUE) /\ "CommitBacked" \in Sources
    BY ZenonT(60), <1>3 DEF Sources
  <2> HIDE DEF t
  <2>9. QED
    BY ZenonT(60), <2>3, <2>4, <2>5, <2>6, <2>7, <2>8, ReadyPendingKeeps
<1>4. QED
  BY Zenon, <1>1, <1>2, <1>3 DEF RemoteCommit

\* DaveMlsAnnounceCommitTransition.
LEMMA CommitKeeps ==
  ASSUME DaveInv, NEW id \in Ids, NEW b \in BOOLEAN, NEW v \in Verdicts,
         PrepareCommit(id, b, v)
  PROVE  DaveInv'
<1>1. CASE CommitIgnored(id)
  BY Zenon, <1>1, ForgottenKeeps DEF CommitIgnored
<1>2. CASE CommitEcho(id, b)
  <2>1. CASE Fails("dave")
    BY <2>1, FailsKeeps
  <2>2. CASE Handled([s EXCEPT !.echoes = @ \ {id}, !.prepared = @ \ {id}], TRUE)
    <3>1. s.echoes \ {id} \in SUBSET s.echoes
      OBVIOUS
    <3>2. QED
      BY Zenon, <2>2, <3>1, DroppedKeeps
  <2>3. QED
    BY Zenon, <1>2, <2>1, <2>2 DEF CommitEcho
<1>3. CASE Handled(s, TRUE)
  BY ZenonT(60), <1>3, IgnoredKeeps
<1>4. CASE Unknown(id) /\ LocalCommitAnnounced(id, v)
  BY Zenon, <1>4, LocalCommitKeeps DEF Unknown, Invalidated
<1>5. CASE Unknown(id) /\ RemoteCommit(id, v)
  BY Zenon, <1>5, RemoteCommitKeeps DEF Unknown, Invalidated
<1>6. QED
  BY Zenon, <1>1, <1>2, <1>3, <1>4, <1>5 DEF PrepareCommit

\* A welcome to the group this session waits for, or to its next epoch.
LEMMA JoinedKeeps ==
  ASSUME DaveInv, NEW id \in Ids, id \notin s.invalidated,
         NEW from, from = s.initial \/ from = s.dave, Joined(id, from)
  PROVE  DaveInv'
<1> DEFINE t == [s EXCEPT !.initial = {}, !.dave = {}, !.prepared = @ \ {id}]
<1>1. PICK r \in from : /\ Advances(r)
                        /\ ReadyPending(t, id, Advanced(r), "WelcomeBacked", TRUE)
  BY Zenon DEF Joined
<1>2. s \in Session
  BY DEF DaveInv, TypeOK
<1>3. {} \in Option(Runtime)
  BY Zenon, OptionFacts
<1>4. Polling
  BY Zenon, <1>1 DEF ReadyPending, Handled, Receive, Fails
<1>5. t \in Session
  BY ZenonT(60), <1>2, <1>3 DEF Session
<1>6. /\ t.dave = {} /\ t.initial = {} /\ t.local = s.local /\ t.failed = s.failed
      /\ t.groups = s.groups /\ t.prepared \subseteq s.prepared
      /\ t.invalidated = s.invalidated /\ t.echoes = s.echoes /\ t.localInit = s.localInit
  BY <1>2 DEF Session
<1>7. s.local = {} /\ negotiated
  BY <1>1, <1>4, HomeFacts
<1>8. Advanced(r) \in Runtime /\ Advanced(r).group <= s.groups
  BY <1>1, RuntimeFacts DEF Runtimes
<1>9. "WelcomeBacked" \in Sources
  BY DEF Sources
<1> HIDE DEF t
<1>10. QED
  BY ZenonT(60), <1>1, <1>4, <1>5, <1>6, <1>7, <1>8, <1>9, ReadyPendingKeeps

\* DaveMlsWelcome.
LEMMA WelcomeKeeps ==
  ASSUME DaveInv, NEW id \in Ids, NEW v \in Verdicts, Welcome(id, v)
  PROVE  DaveInv'
<1>1. CASE Handled([s EXCEPT !.prepared = @ \ {id}], TRUE)
  BY Zenon, <1>1, ForgottenKeeps
<1>2. CASE Fails("dave")
  BY <1>2, FailsKeeps
<1>3. CASE Unknown(id) /\ Joined(id, s.initial)
  BY Zenon, <1>3, JoinedKeeps DEF Unknown, Invalidated
<1>4. CASE Unknown(id) /\ Joined(id, s.dave)
  BY Zenon, <1>4, JoinedKeeps DEF Unknown, Invalidated
<1>5. QED
  BY Zenon, <1>1, <1>2, <1>3, <1>4 DEF Welcome

\* The proposals found the pending group.
LEMMA InitialCommitKeeps ==
  ASSUME DaveInv, NEW r \in s.initial, Advances(r), InitialCommit(r)
  PROVE  DaveInv'
<1> DEFINE i == NextPrepared
           t == [s EXCEPT !.initial = {}, !.prepared = @ \ {i}]
<1>1. s \in Session
  BY DEF DaveInv, TypeOK
<1>2. i \in Ids /\ (i # Init0 => i \in s.prepared)
  BY <1>1, NextPreparedFacts DEF Session
<1>3. Advanced(r) \in Runtime /\ Advanced(r).group <= s.groups
  BY RuntimeFacts DEF Runtimes
<1>4. \/ Handled([t EXCEPT !.dave = {Advanced(r)}, !.localInit = @ \cup {Init0},
                           !.echoes = @ \cup {Init0}], FALSE)
      \/ i # Init0 /\ ReadyPending(t, i, Advanced(r), "CommitBacked", FALSE)
  BY Zenon DEF InitialCommit
<1>5. Polling
  BY Zenon, <1>4 DEF ReadyPending, Handled, Receive, Fails
<1>6. s.dave = {} /\ s.local = {} /\ s.pend = {} /\ negotiated
  BY <1>5, HomeFacts
<1>7. transitions \/ at # "slot"
  BY DEF DaveInv
<1> HIDE DEF i
<1>8. CASE Handled([t EXCEPT !.dave = {Advanced(r)}, !.localInit = @ \cup {Init0},
                             !.echoes = @ \cup {Init0}], FALSE)
  <2> DEFINE a == Advanced(r)
             e == s.prepared \ {i}
  <2>1. Receive(FALSE) /\ s' = [t EXCEPT !.dave = {a}, !.localInit = @ \cup {Init0},
                                         !.echoes = @ \cup {Init0}]
    BY Zenon, <1>8 DEF Handled
  <2> HIDE DEF a
  <2>2. s' = [s EXCEPT !.dave = {a}, !.initial = {}, !.groups = s.groups, !.prepared = e,
                       !.localInit = @ \cup {Init0}, !.echoes = @ \cup {Init0}]
    BY ZenonT(60), <1>1, <2>1 DEF Session
  <2>3. a \in Runtime /\ a.group <= s.groups /\ s.groups \in 0..MaxGroup
        /\ s.groups <= s.groups
    BY <1>1, <1>3 DEF Session, a
  <2>4. e \in SUBSET s.prepared
    OBVIOUS
  <2> HIDE DEF e, t
  <2>5. QED
    BY ZenonT(60), <1>5, <1>6, <1>7, <2>1, <2>2, <2>3, <2>4, FoundedKeeps
<1>9. CASE i # Init0 /\ ReadyPending(t, i, Advanced(r), "CommitBacked", FALSE)
  <2>1. {} \in Option(Runtime)
    BY Zenon, OptionFacts
  <2>2. t \in Session
    BY ZenonT(60), <1>1, <2>1 DEF Session
  <2>3. /\ t.dave = s.dave /\ t.initial = {} /\ t.local = s.local /\ t.failed = s.failed
        /\ t.groups = s.groups /\ t.prepared \subseteq s.prepared
        /\ t.invalidated = s.invalidated /\ t.echoes = s.echoes /\ t.localInit = s.localInit
    BY <1>1 DEF Session
  <2>4. i \notin s.invalidated
    BY <1>2, <1>9 DEF DaveInv, InvalidatedStaysOut
  <2>5. "CommitBacked" \in Sources /\ FALSE \in BOOLEAN
    BY DEF Sources
  <2> HIDE DEF t
  <2>6. QED
    BY ZenonT(60), <1>2, <1>3, <1>5, <1>6, <1>7, <1>9, <2>2, <2>3, <2>4, <2>5, ReadyPendingKeeps
<1>10. QED
  BY ZenonT(60), <1>4, <1>8, <1>9

\* A new group replaces the one in use.
LEMMA InitialEpochCommitKeeps ==
  ASSUME DaveInv, NEW r \in s.dave, InitialEpochCommit
  PROVE  DaveInv'
<1>1. CASE \E f \in {"dave", "gateway"} : Fails(f)
  BY <1>1, FailsKeeps
<1>2. CASE /\ CanCreate
           /\ Handled([s EXCEPT !.dave = {Created(1)}, !.groups = @ + 1,
                                !.localInit = @ \cup {Init0}, !.echoes = @ \cup {Init0}], FALSE)
  <2> DEFINE c == Created(1)
             g == s.groups + 1
  <2>1. s \in Session
    BY DEF DaveInv, TypeOK
  <2>2. c \in Runtime /\ c.group = g /\ g \in 0..MaxGroup /\ s.groups < g /\ s.groups <= g
        /\ g <= g
    BY <1>2, <2>1, DaveConstants DEF Created, CanCreate, Runtime, Session
  <2>3. /\ Receive(FALSE) /\ Polling
        /\ s' = [s EXCEPT !.dave = {c}, !.groups = @ + 1,
                          !.localInit = @ \cup {Init0}, !.echoes = @ \cup {Init0}]
    BY Zenon, <1>2 DEF Handled, Receive
  <2> HIDE DEF c
  <2>4. s.initial = {} /\ s.local = {} /\ s.pend = {} /\ negotiated
    BY <2>3, HomeFacts
  <2>5. s' = [s EXCEPT !.dave = {c}, !.initial = {}, !.groups = g, !.prepared = s.prepared,
                       !.localInit = @ \cup {Init0}, !.echoes = @ \cup {Init0}]
    BY ZenonT(60), <2>1, <2>3, <2>4 DEF Session
  <2>6. s.prepared \in SUBSET s.prepared
    OBVIOUS
  <2> HIDE DEF g
  <2>7. QED
    BY ZenonT(60), <2>2, <2>3, <2>4, <2>5, <2>6, FoundedKeeps
<1>3. QED
  BY Zenon, <1>1, <1>2 DEF InitialEpochCommit

\* DaveMlsProposals.
LEMMA ProposalsKeeps ==
  ASSUME DaveInv, NEW op, NEW v, Proposals(op, v)
  PROVE  DaveInv'
<1>1. CASE Handled(s, FALSE)
  BY ZenonT(60), <1>1, IgnoredKeeps
<1>2. CASE \E f \in {"dave", "gateway"} : Fails(f)
  BY <1>2, FailsKeeps
<1>3. CASE ProposalsInitial(v)
  BY Zenon, <1>1, <1>2, <1>3, InitialCommitKeeps DEF ProposalsInitial
<1>4. CASE ProposalsInFlight
  BY Zenon, <1>1, <1>4 DEF ProposalsInFlight
<1>5. CASE ProposalsActive(op, v)
  BY Zenon, <1>1, <1>2, <1>5, CommittedKeeps, InitialEpochCommitKeeps DEF ProposalsActive
<1>6. QED
  BY Zenon, <1>3, <1>4, <1>5 DEF Proposals

\* Whatever the gateway sends preserves the invariant.
LEMMA GatewayEventKeeps ==
  ASSUME DaveInv, GatewayEvent
  PROVE  DaveInv'
<1>1. CASE OtherEvent
  BY ZenonT(60), <1>1, IgnoredKeeps DEF OtherEvent
<1>2. CASE PrepareEpochInvalid
  BY <1>2, FailsKeeps DEF PrepareEpochInvalid
<1>3. QED
  BY ZenonT(60), <1>1, <1>2, PrepareKeeps, ExecuteKeeps, CommitKeeps, WelcomeKeeps, ProposalsKeeps
     DEF GatewayEvent

-----------------------------------------------------------------------------
(* Initial states and theorems.                                            *)

\* The sessions a handshake leaves satisfy the invariant.
LEMMA InitInv == Init => DaveInv
<1> SUFFICES ASSUME Init PROVE DaveInv
  OBVIOUS
<1> USE DaveConstants
<1>1. /\ {} \in Option(Runtime) /\ {} \in Option([id : Ids, runtime : Runtime, source : Sources])
      /\ {First(0)} \in Option(Runtime) /\ {First(1)} \in Option(Runtime)
  <2>1. First(0) \in Runtime /\ First(1) \in Runtime
    BY DEF First, Runtime
  <2>2. QED
    BY ZenonT(60), <2>1, OptionFacts
<1>2. First(0).group = 0 /\ First(1).group = 0
  BY DEF First
<1>3. Init0 \in Ids
  BY DEF Init0, Ids
<1>4. Fresh \in Session
  BY <1>1 DEF Fresh, Session
<1> DEFINE Started ==
      /\ s \in Session /\ s.local = {} /\ s.pend = {} /\ s.prepared = {} /\ s.echoes = {}
      /\ s.groups = 0 /\ s.failed = FALSE
      /\ \/ s = Fresh /\ s.dave = {} /\ s.initial = {}
         \/ s # Fresh /\ s.dave = {} /\ s.initial = {First(0)}
         \/ s # Fresh /\ s.dave = {First(1)} /\ s.initial = {}
<1>5. Started
  <2>1. CASE s = Fresh
    BY <1>4, <2>1 DEF Fresh
  <2>2. CASE s = [Fresh EXCEPT !.initial = {First(0)}]
    BY ZenonT(60), <1>1, <1>4, <2>2 DEF Fresh, Session
  <2>3. CASE s = [Fresh EXCEPT !.dave = {First(1)}]
    BY ZenonT(60), <1>1, <1>4, <2>3 DEF Fresh, Session
  <2>4. CASE s = [Fresh EXCEPT !.dave = {First(1)}, !.localInit = {Init0}]
    BY ZenonT(60), <1>1, <1>3, <1>4, <2>4 DEF Fresh, Session
  <2>5. ASSUME NEW i \in Ids \ {Init0}, s = [Fresh EXCEPT !.dave = {First(1)}, !.welcomed = {i}]
        PROVE  Started
    BY ZenonT(60), <1>1, <1>4, <2>5 DEF Fresh, Session
  <2> HIDE DEF Started
  <2>6. s \in Handshakes
    BY DEF Init
  <2>7. QED
    BY ZenonT(60), <2>1, <2>2, <2>3, <2>4, <2>5, <2>6 DEF Handshakes
<1>6. /\ at = "joining" /\ count = 0 /\ transitions = FALSE /\ queued = {}
      /\ negotiated = (s # Fresh)
  BY DEF Init
<1>7. TypeOK
  <2>1. negotiated \in BOOLEAN
    BY Zenon, <1>6
  <2>2. transitions \in BOOLEAN
    BY Zenon, <1>6
  <2>3. count \in 0..DrainLimit
    BY <1>6
  <2>4. QED
    BY Zenon, <1>5, <1>6, <2>1, <2>2, <2>3 DEF TypeOK
<1>8. OneRuntime
  <2>1. InOnePlace
    BY ZenonT(60), <1>5, <1>6 DEF InOnePlace
  <2>2. QED
    BY SMTT(60), <2>1, PlacesEquivalent
<1>9. MediaUnderRuntime /\ InvalidatedStaysOut /\ EchoesApplied
  BY <1>5, <1>6 DEF MediaUnderRuntime, InvalidatedStaysOut, EchoesApplied
<1>10. \A r \in Runtimes \cup UNION queued : r.group <= s.groups
  BY <1>2, <1>5, <1>6 DEF Runtimes
<1>11. QED
  BY <1>6, <1>7, <1>8, <1>9, <1>10 DEF DaveInv

\* DaveInv is an invariant of every session: whatever the gateway sends and
\* whenever a drain gives up.
THEOREM DaveInvariant == Spec => []DaveInv
<1>1. DaveInv /\ [Next]_vars => DaveInv'
  <2> SUFFICES ASSUME DaveInv, [Next]_vars PROVE DaveInv'
    OBVIOUS
  <2>1. CASE DrainReturn
    BY <2>1, DrainReturnKeeps
  <2>2. CASE GatewayEvent
    BY <2>2, GatewayEventKeeps
  <2>3. CASE Owner
    BY <2>3, OwnerKeeps
  <2>4. CASE UNCHANGED vars
    BY <2>4 DEF vars, DaveInv, TypeOK, OneRuntime, Homes, MediaUnderRuntime,
                InvalidatedStaysOut, EchoesApplied, Runtimes
  <2>5. QED
    BY <2>1, <2>2, <2>3, <2>4 DEF Next
<1>2. QED
  BY InitInv, <1>1, PTL DEF Spec

\* A session that negotiated DAVE has its runtime in exactly one place until it
\* fails closed, after which it has none (process_gateway_event_for_dave).
THEOREM OneRuntimeAlways == Spec => []OneRuntime
<1>1. DaveInv => OneRuntime
  BY DEF DaveInv
<1>2. QED
  BY <1>1, DaveInvariant, PTL

\* No frame of a session that negotiated DAVE is prepared in the clear
\* (fill_prepared_playout_queue after a drain).
THEOREM MediaAlwaysUnderRuntime == Spec => []MediaUnderRuntime
<1>1. DaveInv => MediaUnderRuntime
  BY DEF DaveInv
<1>2. QED
  BY <1>1, DaveInvariant, PTL

\* A transition the session declared invalid stays out, whatever is replayed
\* about it (invalidated_dave_transition_ids).
THEOREM InvalidatedAlwaysOut == Spec => []InvalidatedStaysOut
<1>1. DaveInv => InvalidatedStaysOut
  BY DEF DaveInv
<1>2. QED
  BY <1>1, DaveInvariant, PTL

\* When a slot goes on, no frame in the queue is of an epoch its group has left
\* (the rebuild of the prepared queue after a drain that named a transition).
THEOREM EpochAlwaysCurrent == Spec => []EpochCurrent
<1>1. DaveInv => EpochCurrent
  BY DEF DaveInv, EpochCurrent
<1>2. QED
  BY <1>1, DaveInvariant, PTL
=============================================================================
