-------------------------- MODULE MCVoiceObserver --------------------------
EXTENDS VoiceObserver, TLC
CONSTANTS u1, u2, s1, s2
MCOwner == (s1 :> u1) @@ (s2 :> u2)
MCIds == 0 .. 1
=============================================================================
