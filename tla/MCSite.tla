------------------------------- MODULE MCSite -------------------------------
EXTENDS Site
=============================================================================
