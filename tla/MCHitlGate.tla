----------------------------- MODULE MCHitlGate -----------------------------
(* One run with a high-risk node t, tolerant or not, and two approval      *)
(* gates g and h.                                                          *)
EXTENDS HitlGate, TLC

CONSTANTS r1, t, g, h, gate, risky

MCNodes  == {t, g, h}
MCRunOf  == [n \in MCNodes |-> r1]
MCToolOf == t :> risky @@ g :> gate @@ h :> gate
MCTolerances == {{}, {t}}
MCHandRules == {<<gate, TRUE>>}
=============================================================================
