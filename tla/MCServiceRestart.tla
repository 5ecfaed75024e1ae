-------------------------- MODULE MCServiceRestart --------------------------
\* ServiceRestart on a small machine: two of the run's settings, one of them read
\* at the server's start only, and one setting of an administrator's.
EXTENDS ServiceRestart

MCSettings == <<"work_mem", "shared_buffers">>
MCForeign == {"max_connections"}
MCNeedsRestart == {"shared_buffers", "max_connections"}
=============================================================================
