---------------------------- MODULE MCQuicStream ----------------------------
EXTENDS QuicStream
=============================================================================
