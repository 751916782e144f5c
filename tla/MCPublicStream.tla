--------------------------- MODULE MCPublicStream ---------------------------
(* Bounded instances of PublicStream for TLC. *)
EXTENDS PublicStream

NoRejections == {"stop", "lost", "reload"}
=============================================================================
