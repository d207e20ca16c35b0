---------------------- MODULE MCWorkspaceCancellation ----------------------
EXTENDS WorkspaceCancellation
CONSTANTS r1, r2, w1, w2
OneRequest == {r1}
TwoWorkers == {w1, w2}
===========================================================================
