---------------------------- MODULE MCLiveUpdates ----------------------------
EXTENDS LiveUpdates, TLC
CONSTANTS home, a, coll

\* A folder, and a collection with a reference in it.
MCRoots == (home :> {}) @@ (a :> {a}) @@ (coll :> {a})
MCRootsOne == (home :> {}) @@ (a :> {a})
==============================================================================
