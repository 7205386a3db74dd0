----------------------------- MODULE MCExtension -----------------------------
\* Extension for TLC: all that is checked is in the module itself.
EXTENDS Extension
=============================================================================
