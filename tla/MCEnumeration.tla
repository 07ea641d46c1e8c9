---------------------------- MODULE MCEnumeration ----------------------------
EXTENDS Enumeration

\* Versions of a folder with enough entries for the view worker.
NoVersion == {}
SomeVersions == {1, 3, 4, 6}
==============================================================================
