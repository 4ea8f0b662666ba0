--------------------------- MODULE MCWaveScheduler ---------------------------
(* A diamond: a, then two gates g and h side by side, then c, a tolerant   *)
(* gate.  g sends a back for revision, h is its own revision target: with  *)
(* x inserted behind g, a rewind to h jumps over x.                        *)
EXTENDS WaveScheduler, TLC

CONSTANTS a, g, h, c, x

MCNodes == {a, g, h, c}
MCEdges == {<<a, g>>, <<a, h>>, <<g, c>>, <<h, c>>}
MCOrders == {<<a, g, h, c>>, <<a, h, g, c>>}
MCSnapshots == {{}, {a}}
MCReviseTo == g :> a @@ h :> h
=============================================================================
