--------------------------- MODULE MCStatusNotices ---------------------------
(* Instances of StatusNotices for TLC. *)
EXTENDS StatusNotices
=============================================================================
