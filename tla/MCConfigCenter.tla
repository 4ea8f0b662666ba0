--------------------------- MODULE MCConfigCenter ---------------------------
EXTENDS ConfigCenter
=============================================================================
