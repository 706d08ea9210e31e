------------------------------ MODULE MCServer ------------------------------
(***************************************************************************)
(* Instances of Server for TLC.                                            *)
(***************************************************************************)
EXTENDS Server, TLC

CONSTANTS h1, h2, g, c, d

\* Request bodies, in the order their metrics are applied: c before g and d.
CounterFirst == {<<c, g>>, <<c, d>>}

HandlerSymmetry == Permutations(Handlers)
=============================================================================
