--------------------------- MODULE MCDriverOutbox ---------------------------
EXTENDS DriverOutbox
=============================================================================
