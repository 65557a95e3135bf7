----------------------------- MODULE MCThreadFollow -----------------------------
(* Instances of ThreadFollow for TLC. *)
EXTENDS ThreadFollow, TLC
=============================================================================
