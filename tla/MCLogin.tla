------------------------------ MODULE MCLogin ------------------------------
\* An instance of Login for TLC.
EXTENDS Login

CONSTANTS s1, home, page, favicon
=============================================================================
