----------------------------- MODULE MCServices -----------------------------
(* Services for TLC: a pool of two workers, the other sizes from services.cfg. *)
EXTENDS Services

TwoWorkers == <<"w1", "w2">>
=============================================================================
