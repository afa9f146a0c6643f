----------------------------- MODULE MCJobLink -----------------------------
(***************************************************************************)
(* Two receivers, one monitor task, one mode.                              *)
(***************************************************************************)
EXTENDS JobLink, TLC

CONSTANTS r1, r2, m1, f1, f2

Symmetry == Permutations({r1, r2})

\* All that a step or a property of the run reads: not the history of responses.
LinkView ==
    <<session, identity, testVars, environment, active_rx, decoder_online,
      want_rtn_snd, reply, camper, link>>
==============================================================================
