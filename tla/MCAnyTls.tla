------------------------------ MODULE MCAnyTls ------------------------------
EXTENDS AnyTls
=============================================================================
