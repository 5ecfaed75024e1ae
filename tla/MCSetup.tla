------------------------------- MODULE MCSetup -------------------------------
EXTENDS Setup
=============================================================================
