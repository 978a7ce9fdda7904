--------------------------- MODULE MCMediaPlayout ---------------------------
(* Small instances of MediaPlayout for TLC. *)
EXTENDS MediaPlayout

=============================================================================
