-------------------------- MODULE MCAudioPipeline ---------------------------
(***************************************************************************)
(* Instances of AudioPipeline.  A chunk is 4 bytes (one stereo frame) and  *)
(* a window two chunks, where the program has 512 bytes and 16 chunks.     *)
(***************************************************************************)
EXTENDS AudioPipeline

MCChunkBytes == 4
MCChunksPerWindow == 2

\* The codec always delivers whole chunks.
WholeReads == {MCChunkBytes}

\* It may also fail, deliver nothing, or deliver less than asked: two of the three
\* frames of a longer chunk, so that a copy can leave x.
LongChunkBytes == 12
AnyReads == {-1, 0, 8, LongChunkBytes}

=============================================================================
