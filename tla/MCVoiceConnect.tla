--------------------------- MODULE MCVoiceConnect ---------------------------
(* VoiceConnect with one peer, two numbered transitions and two websockets. *)
EXTENDS VoiceConnect

MCIds == 0..2
=============================================================================
