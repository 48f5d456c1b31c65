---------------------------- MODULE MCNetExecution ----------------------------
\* The firing rule, its loops and the true ages on the small net of MCNet.
EXTENDS AgedSteps, MCNet
=============================================================================
