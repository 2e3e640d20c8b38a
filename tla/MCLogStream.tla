--------------------------- MODULE MCLogStream ---------------------------
EXTENDS LogStream

\* Retention below, at and above the size of a response chunk and of a write.
MCRetentions == {1, 2, 3, 5}
=============================================================================
