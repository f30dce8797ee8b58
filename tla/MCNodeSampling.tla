---------------------------- MODULE MCNodeSampling ----------------------------
EXTENDS NodeSampling
===============================================================================
