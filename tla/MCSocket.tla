------------------------------ MODULE MCSocket ------------------------------
EXTENDS Socket
CONSTANTS v1, v2
=============================================================================
