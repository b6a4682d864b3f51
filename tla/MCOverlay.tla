----------------------------- MODULE MCOverlay -----------------------------
EXTENDS Overlay, TLC
=============================================================================
