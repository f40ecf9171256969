----------------------------- MODULE MCStorage -----------------------------
(* Four sectors of two bytes, two of RAM, requests of up to three sectors. *)
EXTENDS Storage
=============================================================================
