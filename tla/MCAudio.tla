------------------------------ MODULE MCAudio ------------------------------
(* A small instance of Audio: 1.5 is level 2, a request or another program *)
(* may ask for one above and one below the limits.                         *)
EXTENDS Audio, TLC

CONSTANTS h1, h2, monitor, hdmi, dac, nothing

MCHandlers == {h1, h2}
MCSinks == {hdmi, dac}
MCOps == {[kind |-> "value", arg |-> 3], [kind |-> "delta", arg |-> 1],
          [kind |-> "delta", arg |-> -1],
          [kind |-> "toggle", arg |-> 0], [kind |-> "get", arg |-> 0]}

Symmetry == Permutations(MCHandlers) \cup Permutations(MCSinks)
=============================================================================
