----------------------------- MODULE MCTcpSend -----------------------------
\* TcpSend for TLC: half-millisecond ticks, a deadline that is not a whole
\* number of milliseconds, and a slice shorter than the deadline.
EXTENDS TcpSend
=============================================================================
