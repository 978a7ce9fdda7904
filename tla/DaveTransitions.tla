--------------------------- MODULE DaveTransitions ---------------------------
(***************************************************************************)
(* The DAVE half of ConnectedVoiceSession: the end-to-end encryption group *)
(* of a voice session and how the session follows the group's transitions  *)
(* while its owner joins a channel, starts a track and paces its frames.   *)
(*                                                                         *)
(* The owner drains the events of the voice gateway before a join is       *)
(* answered, before a track starts and before every media slot.  The       *)
(* gateway may send any event at any time: the session is written to stand *)
(* replays, reorderings and announcements it did not ask for.  The MLS     *)
(* library is external: it accepts, rejects or empties what it is given.   *)
(*                                                                         *)
(* Left out: the recognized users, which only reach the library; how long  *)
(* a drain waits (every wait ends, at any point); a gateway that is closed *)
(* or suspended for good, after which the service replaces the session.    *)
(***************************************************************************)
EXTENDS Integers, FiniteSets

CONSTANTS
    MaxId,          \* transition ids are 0 .. MaxId; 0 is the init transition
    DrainLimit,     \* DAVE_GATEWAY_EVENT_DRAIN_LIMIT
    MaxEpoch,       \* bound: epochs of one group
    MaxGroup        \* bound: groups this session creates after its first

ASSUME DaveConstants ==
    /\ MaxId \in Nat /\ DrainLimit \in Nat \ {0}
    /\ MaxEpoch \in Nat \ {0} /\ MaxGroup \in Nat

VARIABLES
    s,              \* the DAVE fields of ConnectedVoiceSession
    at,             \* what its owner is doing with it
    count,          \* events of the current drain
    transitions,    \* whether one of them named a transition
    queued,         \* for each frame prepared and unsent, what it is encrypted with
    negotiated      \* history: the session description asked for DAVE

vars == <<s, at, count, transitions, queued, negotiated>>
owner == <<queued, negotiated>>

Init0 == 0
Ids == 0..MaxId
Runtime == [group : 0..MaxGroup, epoch : 0..MaxEpoch]
Sources == {"CommitBacked", "WelcomeBacked"}

\* An Option<T> is a set of at most one T.
Option(T) == {{}} \cup {{x} : x \in T}

Session ==
    [dave : Option(Runtime),
     initial : Option(Runtime),
     local : Option(Runtime),
     pend : Option([id : Ids, runtime : Runtime, source : Sources]),
     prepared : SUBSET Ids, echoes : SUBSET Ids, welcomed : SUBSET Ids,
     localInit : SUBSET Ids, invalidated : SUBSET Ids,
     groups : 0..MaxGroup, failed : BOOLEAN]

\* The session's fields, the drain's counters and the queue hold values of
\* their types.
TypeOK ==
    /\ s \in Session
    /\ at \in {"joining", "held", "starting", "ready", "slot", "settling", "fill", "gone"}
    /\ count \in 0..DrainLimit /\ transitions \in BOOLEAN
    /\ queued \subseteq Option(Runtime)
    /\ negotiated \in BOOLEAN

-----------------------------------------------------------------------------
(* What the handshake leaves (connect, complete_active_dave_transition).   *)

Fresh ==
    [dave |-> {}, initial |-> {}, local |-> {}, pend |-> {},
     prepared |-> {}, echoes |-> {}, welcomed |-> {}, localInit |-> {},
     invalidated |-> {}, groups |-> 0, failed |-> FALSE]

First(epoch) == [group |-> 0, epoch |-> epoch]

\* No DAVE; the initial group still pending after the grace window; a group
\* joined by a commit, or by a welcome that may be replayed; a group created.
Handshakes ==
    {Fresh, [Fresh EXCEPT !.initial = {First(0)}], [Fresh EXCEPT !.dave = {First(1)}],
     [Fresh EXCEPT !.dave = {First(1)}, !.localInit = {Init0}]}
    \cup {[Fresh EXCEPT !.dave = {First(1)}, !.welcomed = {i}] : i \in Ids \ {Init0}}

Init ==
    /\ s \in Handshakes
    /\ at = "joining"
    /\ count = 0 /\ transitions = FALSE /\ queued = {}
    /\ negotiated = (s # Fresh)

-----------------------------------------------------------------------------
(* Draining the gateway: process_pending_gateway_events_with_initial_poll_policy. *)

Draining == at \in {"joining", "starting", "slot", "settling"}

\* The pipeline fails: its cleanup hands the session back, or recovery replaces it.
Ended == {"held", "gone"}

\* Mutant: only a settled error has the frames prepared again.
ReturnsUnrebuilt(result) ==
    /\ count' = 0 /\ transitions' = FALSE
    /\ \/ result = "ok" /\ at = "joining" /\ at' = "held"
       \/ result = "ok" /\ at = "starting" /\ at' = "ready"
       \/ result = "ok" /\ at \in {"slot", "settling"} /\ at' = "fill"
       \/ result # "ok" /\ at = "joining" /\ at' = "gone"
       \/ result # "ok" /\ at = "starting" /\ at' = "held"
       \/ result = "dave" /\ at = "slot" /\ at' = "settling"
       \/ result = "gateway" /\ at = "slot" /\ at' \in Ended
       \/ result # "ok" /\ at = "settling" /\ at' \in Ended
    /\ queued' = IF at' \in Ended \/ (result = "ok" /\ at = "settling") THEN {} ELSE queued

\* How the owner goes on when a drain returns.  A slot that fails on DAVE is
\* settled first; frames prepared before a transition are prepared again.
Returns(result) ==
    /\ count' = 0 /\ transitions' = FALSE
    /\ \/ result = "ok" /\ at = "joining" /\ at' = "held"
       \/ result = "ok" /\ at = "starting" /\ at' = "ready"
       \/ result = "ok" /\ at \in {"slot", "settling"} /\ at' = "fill"
       \/ result # "ok" /\ at = "joining" /\ at' = "gone"
       \/ result # "ok" /\ at = "starting" /\ at' = "held"
       \/ result = "dave" /\ at = "slot" /\ at' = "settling"
       \/ result = "gateway" /\ at = "slot" /\ at' \in Ended
       \/ result # "ok" /\ at = "settling" /\ at' \in Ended
    /\ queued' = IF at' \in Ended \/ (result = "ok" /\ (at = "settling" \/ transitions))
                 THEN {} ELSE queued

\* Mutant: the commit this session made and waits for is forgotten.
InFlightButLocal == s.pend # {} \/ s.prepared # {}

InFlight == s.pend # {} \/ s.local # {} \/ s.prepared # {}

\* The checks after the loop, in their order: what is still pending is an
\* error, but a join may leave the initial group pending.
DrainResult ==
    IF InFlight \/ (s.initial # {} /\ at # "joining") THEN "dave" ELSE "ok"

DrainRefused ==
    /\ Draining /\ s.failed
    /\ Returns("dave")
    /\ UNCHANGED <<s, negotiated>>

\* A session without DAVE has nothing to drain.
DrainNothing ==
    /\ Draining /\ ~s.failed
    /\ s.dave = {} /\ s.initial = {} /\ ~InFlight /\ s.echoes = {}
    /\ Returns("ok")
    /\ UNCHANGED <<s, negotiated>>

Polling ==
    /\ Draining /\ ~s.failed
    /\ s.dave # {} \/ s.initial # {} \/ InFlight \/ s.echoes # {}

\* No event within the wait, or the slot's deadline is reached.
DrainTimeout ==
    /\ Polling /\ count < DrainLimit
    /\ Returns(DrainResult)
    /\ UNCHANGED <<s, negotiated>>

DrainBacklog ==
    /\ Polling /\ count = DrainLimit
    /\ Returns("dave")
    /\ UNCHANGED <<s, negotiated>>

DrainClosed ==
    /\ Polling /\ count < DrainLimit
    /\ Returns("gateway")
    /\ UNCHANGED <<s, negotiated>>

\* Mutant: the drain does not count its events.
ReceiveUncounted(names) ==
    /\ Polling /\ count < DrainLimit
    /\ transitions' = (transitions \/ names)
    /\ UNCHANGED <<at, count, owner>>

\* An event is taken off the gateway; some of them name a transition.
Receive(names) ==
    /\ Polling /\ count < DrainLimit
    /\ count' = count + 1
    /\ transitions' = (transitions \/ names)
    /\ UNCHANGED <<at, owner>>

\* Its handler returns Ok, leaving session t.
Handled(t, names) == Receive(names) /\ s' = t

FailClosed ==
    [s EXCEPT !.dave = {}, !.initial = {}, !.local = {}, !.pend = {},
              !.prepared = {}, !.echoes = {}, !.failed = TRUE]

\* Its handler returns an error: on DAVE material, or on a send to the gateway.
Fails(result) ==
    /\ Polling /\ count < DrainLimit
    /\ s' = FailClosed
    /\ Returns(result)
    /\ UNCHANGED negotiated

-----------------------------------------------------------------------------
(* The event handlers: process_gateway_event_for_dave.                     *)

\* Users, speaking, heartbeat acknowledgements and the rest.
OtherEvent == Handled(s, FALSE)

IsPending(id) == \E p \in s.pend : p.id = id

PrepareEpochInvalid == Fails("dave")

\* DavePrepareEpoch with an epoch and an id; same: its protocol version is ours.
PrepareEpoch(id, same) ==
    \/ /\ id \in s.invalidated \/ (same /\ (id \in s.localInit \/ IsPending(id)))
       /\ Handled(s, TRUE)
    \/ /\ id \notin s.invalidated /\ ~same
       /\ Fails("dave")
    \/ /\ id \notin s.invalidated \cup s.localInit /\ same /\ ~IsPending(id)
       /\ Handled([s EXCEPT !.prepared = @ \cup {id}], TRUE)

\* DavePrepareTransition; downgrade: its protocol version is 0.
PrepareTransition(id, downgrade) ==
    \/ /\ id \in s.invalidated
       /\ Handled(s, TRUE)
    \/ /\ id \notin s.invalidated /\ (id = Init0 \/ ~downgrade)
       /\ Handled([s EXCEPT !.prepared = @ \cup {id}], TRUE)
    \/ /\ id \notin s.invalidated /\ id # Init0 /\ downgrade
       /\ Fails("dave")

\* DaveExecuteTransition: the pending runtime becomes the one in use.
ExecuteTransition(id) ==
    \/ /\ s.pend = {}
       /\ Handled(s, TRUE)
    \/ \E p \in s.pend :
          /\ p.id = id
          /\ Handled([s EXCEPT !.pend = {}, !.dave = {p.runtime},
                               !.welcomed = IF p.source = "WelcomeBacked"
                                            THEN @ \cup {id} ELSE @], TRUE)
    \/ /\ s.pend # {} /\ ~IsPending(id)
       /\ Fails("dave")

\* ready_pending_transition: the runtime waits for the execute; the gateway is
\* told so, unless the transition is the init one, and that send may fail.
ReadyPending(t, id, runtime, source, names) ==
    \/ Handled([t EXCEPT !.pend = {[id |-> id, runtime |-> runtime, source |-> source]}],
               names)
    \/ id # Init0 /\ Fails("gateway")

\* The library applies a commit or a welcome.
Advances(r) == r.epoch < MaxEpoch
Advanced(r) == [r EXCEPT !.epoch = @ + 1]

\* A session of the library for a new group.
CanCreate == s.groups < MaxGroup
Created(epoch) == [group |-> s.groups + 1, epoch |-> epoch]

-----------------------------------------------------------------------------
(* prepare_remote_commit_transition.                                       *)

Invalidated(id) == id \in s.invalidated
Replayed(id) == id \in s.welcomed \ s.prepared
Applied(id) == id \in s.localInit
Unknown(id) == ~Invalidated(id) /\ ~Replayed(id) /\ ~Applied(id)

CommitIgnored(id) ==
    /\ Invalidated(id) \/ Replayed(id) \/ (Applied(id) /\ id \notin s.echoes)
    /\ Handled([s EXCEPT !.prepared = @ \ {id}], TRUE)

\* The gateway announces the init commit this session made; same: it is that commit.
CommitEcho(id, same) ==
    /\ ~Invalidated(id) /\ ~Replayed(id) /\ Applied(id) /\ id \in s.echoes
    /\ \/ /\ same
          /\ Handled([s EXCEPT !.echoes = @ \ {id}, !.prepared = @ \ {id}], TRUE)
       \/ ~same /\ Fails("dave")

\* A duplicate of the pending commit, or an unprepared one beside a pending transition.
CommitInFlight(id) ==
    \/ \E p \in s.pend : p.id = id /\ p.source = "CommitBacked"
    \/ s.pend # {} /\ id \notin s.prepared

\* Mutant: the echoes of the group given up stay awaited.
ReinitializedAwaiting(id) ==
    [s EXCEPT !.dave = {}, !.pend = {}, !.local = {}, !.prepared = {},
              !.invalidated = @ \cup {id}, !.welcomed = {}, !.localInit = {},
              !.groups = @ + 1, !.initial = {Created(0)}]

\* reinitialize_dave_session_after_invalid_commit.
Reinitialized(id) ==
    [s EXCEPT !.dave = {}, !.pend = {}, !.local = {}, !.prepared = {}, !.echoes = {},
              !.invalidated = @ \cup {id}, !.welcomed = {}, !.localInit = {},
              !.groups = @ + 1, !.initial = {Created(0)}]

\* A commit is announced while the one made here waits to be: the verdict of the
\* library decides whether the group goes on or this session starts over.
LocalCommitAnnounced(id, verdict) ==
    \E r \in s.local :
       \/ /\ verdict = "ok" /\ Advances(r)
          /\ ReadyPending([s EXCEPT !.local = {}, !.prepared = @ \ {id}], id, Advanced(r),
                          "CommitBacked", TRUE)
       \/ /\ verdict = "invalid" /\ CanCreate
          /\ Handled(Reinitialized(id), TRUE)
       \/ verdict = "invalid" /\ \E f \in {"dave", "gateway"} : Fails(f)
       \/ verdict = "empty" /\ Fails("dave")

\* A commit of another member; its epoch must have been prepared.
RemoteCommit(id, verdict) ==
    \/ /\ id \notin s.prepared
       /\ Handled(s, TRUE)
    \/ /\ id \in s.prepared /\ (s.dave = {} \/ verdict # "ok")
       /\ Fails("dave")
    \/ /\ id \in s.prepared /\ verdict = "ok"
       /\ \E r \in s.dave :
             /\ Advances(r)
             /\ ReadyPending([s EXCEPT !.dave = {}, !.prepared = @ \ {id}], id, Advanced(r),
                             "CommitBacked", TRUE)

PrepareCommit(id, same, verdict) ==
    \/ CommitIgnored(id)
    \/ CommitEcho(id, same)
    \/ /\ Unknown(id) /\ CommitInFlight(id)
       /\ Handled(s, TRUE)
    \/ Unknown(id) /\ ~CommitInFlight(id) /\ LocalCommitAnnounced(id, verdict)
    \/ Unknown(id) /\ ~CommitInFlight(id) /\ s.local = {} /\ RemoteCommit(id, verdict)

-----------------------------------------------------------------------------
(* prepare_welcome_transition.                                             *)

\* The welcome of the group this session waits to join, or one to a prepared
\* transition of the group it is in.
Joined(id, from) ==
    \E r \in from :
       /\ Advances(r)
       /\ ReadyPending([s EXCEPT !.initial = {}, !.dave = {}, !.prepared = @ \ {id}], id,
                       Advanced(r), "WelcomeBacked", TRUE)

Welcome(id, verdict) ==
    \/ /\ ~Unknown(id)
       /\ Handled([s EXCEPT !.prepared = @ \ {id}], TRUE)
    \/ /\ Unknown(id) /\ s.initial # {}
       /\ \/ verdict = "ok" /\ Joined(id, s.initial)
          \/ verdict # "ok" /\ Fails("dave")
    \/ /\ Unknown(id) /\ s.initial = {}
       /\ \/ id \in s.prepared /\ verdict = "ok" /\ Joined(id, s.dave)
          \/ (id \notin s.prepared \/ s.dave = {} \/ verdict # "ok") /\ Fails("dave")

-----------------------------------------------------------------------------
(* prepare_local_commit_transition.                                        *)

\* next_prepared_transition_id: the first key of the map; the init one if it is empty.
NextPrepared ==
    CHOOSE i \in Ids : IF s.prepared = {} THEN i = Init0
                       ELSE i \in s.prepared /\ \A j \in s.prepared : i <= j

\* prepare_pending_initial_local_commit_transition: the proposals found the group.
InitialCommit(r) ==
    LET t == [s EXCEPT !.initial = {}, !.prepared = @ \ {NextPrepared}]
    IN  /\ \/ /\ NextPrepared = Init0
              /\ Handled([t EXCEPT !.dave = {Advanced(r)}, !.localInit = @ \cup {Init0},
                                   !.echoes = @ \cup {Init0}], FALSE)
           \/ /\ NextPrepared # Init0
              /\ ReadyPending(t, NextPrepared, Advanced(r), "CommitBacked", FALSE)

ProposalsInitial(verdict) ==
    \E r \in s.initial :
       \/ verdict = "commit" /\ Advances(r) /\ InitialCommit(r)
       \/ verdict = "commit" /\ \E f \in {"dave", "gateway"} : Fails(f)
       \/ verdict = "none" /\ Handled(s, FALSE)
       \/ verdict = "rejected" /\ Fails("dave")

\* A transition is in flight: the proposals go no further.
ProposalsInFlight ==
    /\ s.initial = {} /\ (s.local # {} \/ s.pend # {})
    /\ Handled(s, FALSE)

\* should_retry_initial_epoch_proposals.
RetriesInitialEpoch(op) == op = "Append" /\ Init0 \in s.localInit /\ s.welcomed = {}

\* prepare_initial_epoch_local_commit_transition: a new group replaces this one.
InitialEpochCommit ==
    \/ /\ CanCreate
       /\ Handled([s EXCEPT !.dave = {Created(1)}, !.groups = @ + 1,
                            !.localInit = @ \cup {Init0}, !.echoes = @ \cup {Init0}], FALSE)
    \/ \E f \in {"dave", "gateway"} : Fails(f)

\* Mutant: proposals that leave nothing to commit do not put the runtime back.
ProposalsActiveTaken(op, verdict) ==
    /\ s.initial = {} /\ s.local = {} /\ s.pend = {} /\ s.dave # {}
    /\ verdict = "none"
    /\ Handled([s EXCEPT !.dave = {}], FALSE)

\* The runtime in use makes a commit of the proposals, or is put back.
ProposalsActive(op, verdict) ==
    /\ s.initial = {} /\ s.local = {} /\ s.pend = {}
    /\ \E r \in s.dave :
       \/ /\ verdict = "commit"
          /\ Handled([s EXCEPT !.dave = {}, !.local = {r}], FALSE)
       \/ verdict = "commit" /\ \E f \in {"dave", "gateway"} : Fails(f)
       \/ verdict = "none" /\ Handled(s, FALSE)
       \/ verdict = "rejected" /\ RetriesInitialEpoch(op) /\ InitialEpochCommit
       \/ verdict = "rejected" /\ ~RetriesInitialEpoch(op) /\ Handled(s, FALSE)

\* Only a revocation may leave nothing to commit.
Proposals(op, verdict) ==
    /\ verdict = "none" => op = "Revoke"
    /\ ProposalsInitial(verdict) \/ ProposalsInFlight \/ ProposalsActive(op, verdict)

-----------------------------------------------------------------------------
(* The owner: the runtime's join and play, and the loop of the media driver. *)

Play ==
    /\ at = "held" /\ at' = "starting"
    /\ UNCHANGED <<s, count, transitions, owner>>

NextSlot ==
    /\ at = "ready" /\ at' = "slot"
    /\ UNCHANGED <<s, count, transitions, owner>>

\* fill_prepared_playout_queue: frames are encrypted with the runtime in use.
FillPlayout ==
    /\ at = "fill"
    /\ \/ at' = "ready" /\ queued' \in {queued, queued \cup {s.dave}}
       \/ s.dave # {} /\ at' \in Ended /\ queued' = {}
    /\ UNCHANGED <<s, count, transitions, negotiated>>

\* The deadline sender sends the last frame prepared under q.
FrameSent(q) ==
    /\ queued' = queued \ {q}
    /\ UNCHANGED <<s, at, count, transitions, negotiated>>

TrackEnds ==
    /\ at = "ready" /\ at' = "held" /\ queued' = {}
    /\ UNCHANGED <<s, count, transitions, negotiated>>

Verdicts == {"ok", "invalid", "empty"}

GatewayEvent ==
    \/ OtherEvent \/ PrepareEpochInvalid
    \/ \E id \in Ids :
          \/ \E b \in BOOLEAN : PrepareEpoch(id, b) \/ PrepareTransition(id, b)
          \/ ExecuteTransition(id)
          \/ \E b \in BOOLEAN, v \in Verdicts : PrepareCommit(id, b, v)
          \/ \E v \in Verdicts : Welcome(id, v)
    \/ \E op \in {"Append", "Revoke"}, v \in {"commit", "none", "rejected"} : Proposals(op, v)

DrainReturn == DrainRefused \/ DrainNothing \/ DrainTimeout \/ DrainBacklog \/ DrainClosed

Owner == Play \/ NextSlot \/ FillPlayout \/ TrackEnds \/ \E q \in queued : FrameSent(q)

Next == DrainReturn \/ GatewayEvent \/ Owner

Spec == Init /\ [][Next]_vars

\* The task that drains is scheduled: an event or a timeout always comes.
FairSpec == Spec /\ WF_vars(DrainReturn \/ GatewayEvent)

-----------------------------------------------------------------------------
(* Properties.                                                             *)

Homes == <<s.dave, s.initial, s.local, s.pend>>

\* A session that negotiated DAVE keeps its runtime in exactly one place - in use,
\* waiting for the initial group, for its own commit to be announced, or for an
\* execute - and a session that failed closed has none: every handler that takes
\* the runtime out puts it back, moves it on or fails closed.
OneRuntime ==
    IF s.failed \/ ~negotiated
    THEN \A i \in 1..4 : Homes[i] = {}
    ELSE \E i \in 1..4 : /\ Homes[i] # {}
                         /\ \A j \in 1..4 : Homes[j] # {} => j = i

\* Frames of a session that negotiated DAVE are only ever prepared under a runtime:
\* no drain that a slot waits for succeeds while the runtime is out of use.
MediaUnderRuntime == negotiated => {} \notin queued

\* A transition this session declared invalid never becomes prepared or pending
\* again, whatever is replayed about it.
InvalidatedStaysOut ==
    /\ s.invalidated \cap s.prepared = {}
    /\ \A p \in s.pend : p.id \notin s.invalidated

\* An echo is awaited only of an init commit that counts as applied: otherwise the
\* announcement of that commit would be taken for a commit of another member.
EchoesApplied == s.echoes \subseteq s.localInit

\* A drain returns, however many events the gateway sends.
DrainReturns == Draining ~> ~Draining

\* Once the driver goes on to fill the playout queue, no frame in it is encrypted
\* with an epoch its group has left: a drain that moved the group had it rebuilt.
EpochCurrent ==
    at \in {"fill", "ready"} =>
        \A q \in queued : \A r \in q, d \in s.dave : r.group = d.group => r = d

\* The runtimes of this session, wherever they are.
Runtimes == s.dave \cup s.initial \cup s.local \cup {p.runtime : p \in s.pend}

\* What makes the properties above inductive.  Groups are numbered as they are
\* created, so a new one is the group of no frame; only a track has frames; a
\* slot goes on only with its runtime at rest; and until an event of a drain
\* names a transition, the runtime is in use, or waits as the local commit, in
\* the epoch the frames were prepared in.
DaveInv ==
    /\ TypeOK /\ OneRuntime /\ MediaUnderRuntime /\ InvalidatedStaysOut /\ EchoesApplied
    /\ \A r \in Runtimes \cup UNION queued : r.group <= s.groups
    /\ at \in {"joining", "held", "starting", "gone"} => queued = {}
    /\ at \in {"fill", "ready"} => ~s.failed /\ s.local = {}
    /\ at \in {"fill", "ready"} \/ (at = "slot" /\ ~transitions) =>
          /\ s.initial = {} /\ s.pend = {}
          /\ \A q \in queued : \A r \in q, d \in s.dave \cup s.local :
                r.group = d.group => r = d

-----------------------------------------------------------------------------
(* Statements of tests and documentation that the code does not meet: TLC    *)
(* finds a behaviour against each of them (README, "Statements not met").     *)

\* No frame in the queue is encrypted with anything but the runtime in use.
NoStaleMedia == at \in {"fill", "ready"} => queued \subseteq {s.dave}

\* A session whose group has left its initial epoch does not step from the runtime
\* in use to one of another group: proposals that are stale are ignored.
GroupKept ==
    [][\A r \in s.dave, q \in s'.dave : r.epoch > 1 => q.group = r.group]_vars
=============================================================================
