-------------------------- MODULE MCStackedTunnels --------------------------
EXTENDS StackedTunnels
=============================================================================
