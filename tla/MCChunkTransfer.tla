--------------------------- MODULE MCChunkTransfer ---------------------------
(* A chunk of two blocks; the server may have it, a damaged copy, a part of it, *)
(* an empty file, one that is too large or none; its file of every other chunk  *)
(* has one block, which is not the chunk's.                                     *)
EXTENDS ChunkTransfer

CONSTANTS a, b

TheChunk == <<a, b>>
AnyFile == {Absent, <<>>, <<a>>, <<a, Junk>>, <<a, b>>, <<a, b, a>>}
Other == <<Junk>>

\* one number that can be cut, the first above the limit, and a name that would
\* be two words
Movie == <<Name("movie")>>
SomeRequests == {[fileId |-> Movie, chunkId |-> 12],
                 [fileId |-> Movie, chunkId |-> kMaxChunkId + 1],
                 [fileId |-> <<Name("my"), Numeral(7)>>, chunkId |-> 0]}
=============================================================================
