--------------------------- MODULE MCGlobeSession ---------------------------
EXTENDS GlobeSession
=============================================================================
