--------------------------- MODULE MCConfigVersions ---------------------------
(* ConfigVersions on small sets.  Requests and contents are interchangeable: *)
(* no property names one.                                                    *)
EXTENDS ConfigVersions, TLC

Interchangeable == Permutations(Request) \cup Permutations(Content)
=============================================================================
