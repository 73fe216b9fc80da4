----------------------------- MODULE MCPlatform -----------------------------
(* Batches that need every group and every tail, from a counter whose low half
   carries inside a group and which wraps, on the processors there are and on two with
   AVX2 and without SSE4.1. *)
EXTENDS Platform

MCCpus == {{}, {"sse2"}, {"sse2", "sse41"}, {"sse2", "sse41", "avx2"},
           {"sse2", "sse41", "avx2", "avx512"}, {"sse2", "avx2"}, {"sse2", "avx2", "avx512"}}
=============================================================================
