--------------------------- MODULE MCBoardControl ---------------------------
EXTENDS BoardControl
CONSTANTS c1
=============================================================================
