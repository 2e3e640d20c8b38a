------------------------- MODULE MCWorkloadBackend -------------------------
EXTENDS WorkloadBackend

\* A regular file between two directories.
MCPlan == <<"directory", "file", "directory">>
=============================================================================
