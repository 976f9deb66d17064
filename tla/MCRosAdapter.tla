---------------------------- MODULE MCRosAdapter ----------------------------
\* RosAdapter for TLC.
EXTENDS RosAdapter
=============================================================================
