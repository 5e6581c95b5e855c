-------------------------------- MODULE FanOut --------------------------------
(***************************************************************************)
(* chunk_evenly (src/etl_sched.rs:235): the universe of a fan-out cut into   *)
(* k consecutive chunks.  The running index of the code's loop is written   *)
(* in closed form.                                                          *)
(***************************************************************************)
EXTENDS Integers, Sequences

\* Mutant of ChunkLength: the remainder is not given out.
ShortChunkLength(n, k, c) == n \div k

\* The first n % k chunks are one longer.  Chunks are counted from 0.
ChunkLength(n, k, c) == n \div k + (IF c < n % k THEN 1 ELSE 0)

\* The values before chunk c.
ChunkStart(n, k, c) == c * (n \div k) + (IF c < n % k THEN c ELSE n % k)

Chunk(values, k, c) ==
  SubSeq(values, ChunkStart(Len(values), k, c) + 1,
         ChunkStart(Len(values), k, c) + ChunkLength(Len(values), k, c))

\* The chunks, by index from 1; all of them empty when the universe is.
ChunkEvenly(values, k) == [c \in 1..k |-> Chunk(values, k, c - 1)]
=============================================================================
