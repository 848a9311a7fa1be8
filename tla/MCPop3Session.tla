--------------------------- MODULE MCPop3Session ---------------------------
EXTENDS Pop3Session
=============================================================================
