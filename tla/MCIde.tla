-------------------------------- MODULE MCIde --------------------------------
(* Model-checking instance of Ide: three buffers, two block contents.      *)
EXTENDS Ide
CONSTANTS b1, b2, b3, v1, v2
MCBufs == {b1, b2, b3}
MCVals == {v1, v2}
==============================================================================
