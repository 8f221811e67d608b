---------------------------- MODULE MCMemoryPool ----------------------------
(* Clients of the memory pool, each aimed at one part of its code. *)
EXTENDS MemoryPool

MCClients == {
  \* chunks of two sizes that the slabs suit, and blocks of malloc
  [size |-> 131072, min |-> 512, max |-> 8192, asks |-> {500, 1000, 9000}, most |-> 3, frees |-> 3],
  \* until the pages are used up: 16 slabs of two pages fit into the 32
  [size |-> 131072, min |-> 512, max |-> 8192, asks |-> {1000}, most |-> 17, frees |-> 1],
  \* slabs of two chunks each, and chunks that are too large for theirs
  [size |-> 131072, min |-> 512, max |-> 8192, asks |-> {300, 5000}, most |-> 5, frees |-> 4],
  \* a least size that is no power of two
  [size |-> 131072, min |-> 384, max |-> 8192, asks |-> {500, 600}, most |-> 4, frees |-> 3],
  \* the default sizes
  [size |-> 131072, min |-> 0, max |-> 131072, asks |-> {8, 100}, most |-> 2, frees |-> 2],
  \* twice the pages are soon not to be had
  [size |-> 200000, min |-> 512, max |-> 65536, asks |-> {20000, 40000}, most |-> 7, frees |-> 3],
  \* a pool that is not created
  [size |-> 4096, min |-> 8, max |-> 8192, asks |-> {8}, most |-> 1, frees |-> 1]}
=============================================================================
