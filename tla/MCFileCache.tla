---------------------------- MODULE MCFileCache -----------------------------
(***************************************************************************)
(* Two threads, three chunks, room for two files.                          *)
(***************************************************************************)
EXTENDS ChunkFileCache
=============================================================================
