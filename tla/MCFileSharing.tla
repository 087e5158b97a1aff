---------------------------- MODULE MCFileSharing ----------------------------
(* An empty file, one of a single full chunk, and one with a last chunk that is *)
(* not full and others that make a mixture with it.                             *)
EXTENDS FileSharing

CONSTANTS a, b, c

SomeVersions == {<<>>, <<a, c>>, <<a, b, c>>, <<b, a, b>>}
=============================================================================
