--------------------------- MODULE MCTcpReceiver ---------------------------
\* TcpReceiver for TLC: two sessions of up to two frames, with a frame limit
\* that can be reached in the middle of the second.
EXTENDS TcpReceiver
=============================================================================
