---------------------------- MODULE MCFileReplace ----------------------------
EXTENDS FileReplace

MCWriters == {"scanner", "gateway", "other"}

\* mkstemp: every writer has a name of its own.
OwnNames == [w \in MCWriters |-> w]
==============================================================================
