-------------------------- MODULE MCConstructBehavior --------------------------
\* ConstructBehavior on the small net of MCNet.
EXTENDS ConstructBehavior, MCNet
=============================================================================
