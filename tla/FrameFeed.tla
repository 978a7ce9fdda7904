----------------------------- MODULE FrameFeed -----------------------------
(***************************************************************************)
(* What the playback crate promises the session runtime, with the network, *)
(* the container and the codec left out: after Play, a run of frames that  *)
(* starts where the track was left, follows on without a gap for as long   *)
(* as it lasts, and is announced as ended only at the end of the track.    *)
(* TrackSource implements it.                                              *)
(***************************************************************************)
EXTENDS Integers

CONSTANTS
  TrackTicks,   \* length of the track
  FrameTicks,   \* length of a frame
  Repeats,      \* packet lengths: a resume repeats less than one of them
  MaxReady,     \* frames that may be ready at once
  None

VARIABLES
  phase,   \* "idle", "preparing" a track, or "feeding" one
  at,      \* position of the next frame to leave, None while there is none
  ready,   \* frames handed over and not yet sent
  sent,    \* the position reported for the track
  ended,   \* the end of the track has been announced
  cut      \* the source has switched encodings and may end anywhere

vars == <<phase, at, ready, sent, ended, cut>>

Init ==
  /\ phase = "idle" /\ at = None /\ ready = 0 /\ sent = 0
  /\ ended = FALSE /\ cut = FALSE

\* Play: the same track resumes at sent, another one starts over.
Prepare ==
  /\ phase # "preparing" /\ phase' = "preparing"
  /\ at' = None /\ ready' = 0 /\ ended' = FALSE /\ cut' = FALSE
  /\ sent' \in {0, sent}

\* The first frames of a prepared track.
Begin ==
  /\ phase = "preparing" /\ phase' = "feeding"
  /\ ready' \in 1..MaxReady
  /\ \E r \in Repeats : at' \in (sent - r + 1)..sent
  /\ UNCHANGED <<sent, ended, cut>>

\* More frames, which continue the ones before; the end only when they reach
\* the end of the track.
Extend ==
  /\ phase = "feeding" /\ ~ended
  /\ ready' \in ready..MaxReady
  /\ ended' \in {e \in BOOLEAN : e => cut \/ at + ready' * FrameTicks >= TrackTicks}
  /\ UNCHANGED <<phase, at, sent, cut>>

\* A frame is sent.
Emit ==
  /\ ready > 0 /\ ready' = ready - 1 /\ sent' = sent + FrameTicks
  /\ at' = IF phase = "feeding" \/ ready > 1 THEN at + FrameTicks ELSE None
  /\ UNCHANGED <<phase, ended, cut>>

\* The source fails or is dropped; what was handed over can still be sent.
Break ==
  /\ phase # "idle" /\ phase' = "idle"
  /\ at' = IF ready > 0 THEN at ELSE None
  /\ cut' = FALSE
  /\ UNCHANGED <<ready, sent, ended>>

\* A new resolution brings another encoding of the track.
Switch ==
  /\ phase # "idle" /\ cut' = TRUE
  /\ UNCHANGED <<phase, at, ready, sent, ended>>

Next == Prepare \/ Begin \/ Extend \/ Emit \/ Break \/ Switch

\* A prepared track begins or fails.
Spec == Init /\ [][Next]_vars /\ WF_vars(phase = "preparing" /\ (Begin \/ Break))
=============================================================================
