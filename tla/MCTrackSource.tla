-------------------------- MODULE MCTrackSource ---------------------------
(* A track of three packets: frames span packets, the one packet as long   *)
(* as a frame is passed through only after a resume, the last packet fills *)
(* two frames at once, and a resumed track ends in a padded frame.         *)
EXTENDS TrackSource, TLC

MCStart == <<0, 3, 5, 8>>
============================================================================
