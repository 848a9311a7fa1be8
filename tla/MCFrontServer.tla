--------------------------- MODULE MCFrontServer ---------------------------
EXTENDS FrontServer
=============================================================================
