----------------------------- MODULE MCTiering -----------------------------
(***************************************************************************)
(* Instances of Tiering for TLC.                                            *)
(***************************************************************************)
EXTENDS Tiering

CONSTANTS a1, a2, h1, home, worker

OneArity == {a1}
TwoArities == {a1, a2}
SecondUnlowerable == {a2}
Nothing == {}
OneHeader == {h1}
OneIsolate == {home}
TwoIsolates == {home, worker}
AllWarm == 0..MaxRebinds
=============================================================================
