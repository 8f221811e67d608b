----------------------------- MODULE MemoryPool -----------------------------
(***************************************************************************)
(* memory-pool/memory-pool.cpp: a pool of pages, cut into slabs of chunks  *)
(* of one size, with malloc for what does not fit.  One thread uses it, and *)
(* a call is an action.                                                    *)
(*                                                                         *)
(* Addresses are bytes from pool->addr, so that a block of malloc, which   *)
(* lies anywhere else, has a negative address or one behind the pages.     *)
(* heads is the array at page_head_addr: what is not in its domain is      *)
(* zeroed.  Of the list of used slabs the code only ever reads the first    *)
(* element, and it writes the links between the slabs of a size without    *)
(* following them: used is that first element, and the links are left out. *)
(***************************************************************************)
EXTENDS Integers, FiniteSets, FiniteSetsExt, Bags

CONSTANTS
  Clients,      \* [size, min, max]: what a client passes to create_mm_pool,
                \* [asks]: the sizes that it asks alloc() for, and
                \* [most, frees], bounds: the blocks that it holds at a time,
                \* and its calls of free()
  MaxExt        \* bound: places on either side of the pool where malloc finds memory

\* Bounds on the sizes: what they are rounded to has at most 19 bits.
ASSUME MemoryPoolAssumption ==
  /\ MaxExt \in Nat
  /\ \A c \in Clients :
       /\ {c.min, c.max} \subseteq 0 .. 2^17
       /\ {c.size} \cup c.asks \subseteq 0 .. 2^18
       /\ {c.most, c.frees} \subseteq Nat

VARIABLES
  client,    \* the member of Clients that this behavior is about
  status,    \* "none", "live", "destroyed", or how the program ended
  pool,      \* struct mm_pool_s
  ext,       \* the nodes of the list pool->ex that malloc still holds: their next
  blocks,    \* the blocks the client holds, a bag of [at, len]
  released,  \* the number of calls of free()
  strains    \* history: what the client has done that the pool may not stand

Bag == INSTANCE BagsExt

vars == <<client, status, pool, ext, blocks, released, strains>>

None == -1
MIN_CHUNK == 8
MAX_CHUNK == 128 * 1024
PAGE_SIZE == 4 * 1024
CHAR_BIT == 8

\* sizeof(map) of a slab, which the assertion compares a number of bits with.
MapBytes == 64

-----------------------------------------------------------------------------
(* ROUND_UP, which masks bits and so rounds to powers of two only *)

Bit(x, i) == (x \div 2^i) % 2

\* x & ~m, from the highest bit down; bound: 19 bits.
AndNot(x, m) ==
  LET upper[i \in 0 .. 19] ==
        IF i = 0 THEN 0
        ELSE 2 * upper[i - 1] + Bit(x, 19 - i) * (1 - Bit(m, 19 - i))
  IN  upper[19]

RoundUp(v, align) == AndNot(v + align - 1, align - 1)

PowerOfTwo(x) == \E i \in 0 .. 18 : x = 2^i

-----------------------------------------------------------------------------
(* create_mm_pool *)

AtLeast(x, y) == IF x < y THEN y ELSE x

Create ==
  LET a == client
      min == RoundUp(AtLeast(a.min, MIN_CHUNK), MIN_CHUNK)
      max == RoundUp(a.max, min)
      page_size == AtLeast(min, PAGE_SIZE)
  IN  /\ status = "none"
      /\ a.size >= a.max /\ a.max >= min /\ a.max \div min <= MAX_CHUNK \div MIN_CHUNK
      /\ LET pages == RoundUp(a.size, AtLeast(max, MAX_CHUNK)) \div page_size
         IN  pool' = [pages |-> pages, page_size |-> page_size, min_slab |-> min,
                      max_slab |-> max, free |-> pages, map |-> {}, used |-> None,
                      slabs |-> [i \in 0 .. max \div min - 1 |-> None],
                      heads |-> [p \in {} |-> {}], ex |-> None]
      /\ status' = "live"
      /\ strains' = IF PowerOfTwo(min) THEN {} ELSE {"min_chunk"}
      /\ UNCHANGED <<client, ext, blocks, released>>

\* The blocks of malloc, ext included, outlive the pool.
Destroy ==
  /\ status = "live"
  /\ status' = "destroyed"
  /\ UNCHANGED <<client, pool, ext, blocks, released, strains>>

-----------------------------------------------------------------------------
(* Slabs *)

End(p) == p.pages * p.page_size

NewSlab(n) == [pages |-> n, chunk_size |-> 0, cnt |-> 0, free |-> 0, index |-> 0,
               map |-> {}, listed |-> TRUE]

Pages(p, start, n) == (start .. start + n - 1) \cap (0 .. p.pages - 1)

\* Mutant: the first page of the slab is not marked.
MarkedFromNext(p, start, n) == p.map \cup (Pages(p, start, n) \ {start})

Marked(p, start, n) == p.map \cup Pages(p, start, n)

\* Mutant: serial_pages is subtracted, which the marking has counted down.
FreeLessLeft(p, start, n) == p.free - (n - Cardinality(Pages(p, start, n)))

FreeLess(p, start, n) == p.free - n

\* _alloc_slab: a slab of n pages, which begins at the last page of the first
\* run of n free pages; the heads of all its pages are zeroed.
AllocSlab(p, n) ==
  LET ends == {i \in n - 1 .. p.pages - 1 : (i - n + 1 .. i) \cap p.map = {}}
      start == Min(ends)
  IN  IF n > p.free \/ ends = {} THEN [at |-> None, pool |-> p]
      ELSE [at |-> start,
            pool |-> [p EXCEPT
              !.map = Marked(p, start, n),
              !.free = FreeLess(p, start, n),
              !.used = start,
              !.heads = [q \in (DOMAIN @ \ (start .. start + n - 1)) \cup {start} |->
                           IF q = start THEN NewSlab(n) ELSE @[q]]]]

\* alloc_slab: twice the pages if they can be had.  What the last attempt to
\* get fewer pages returns is lost.
SlabFor(p, size) ==
  LET Twice(n) == IF p.free >= 2 * n THEN AllocSlab(p, 2 * n) ELSE [at |-> None, pool |-> p]
      need == RoundUp(size, p.page_size) \div p.page_size
  IN  IF size <= p.min_slab \div 2 THEN AllocSlab(p, 1)
      ELSE IF size > p.max_slab \div 2 /\ size <= p.min_slab
      THEN IF Twice(1).at # None THEN Twice(1) ELSE AllocSlab(p, 1)
      ELSE IF Twice(need).at = None /\ p.free >= need
      THEN [at |-> None, pool |-> AllocSlab(p, need).pool]
      ELSE Twice(need)

Slot(p, size) == size \div p.min_slab - 1

Full(p, h) == h \notin DOMAIN p.heads \/ p.heads[h].free = 0

\* The first half of _alloc_mm: the slab to take from, a new one if need be.
Ready(p, size) ==
  LET s == SlabFor(p, size)
      cnt == ((p.page_size * s.pool.heads[s.at].pages) \div size) \div CHAR_BIT
  IN  IF ~Full(p, p.slabs[Slot(p, size)]) THEN [at |-> p.slabs[Slot(p, size)], pool |-> p]
      ELSE IF s.at = None THEN s
      ELSE [at |-> s.at,
            pool |-> [s.pool EXCEPT !.slabs[Slot(p, size)] = s.at,
                                    !.heads[s.at].chunk_size = size,
                                    !.heads[s.at].cnt = cnt,
                                    !.heads[s.at].free = cnt]]

\* The second half: the chunk at index, which need not be below cnt, if it is
\* not known to be in use; free wraps around below 0.
Take(p, h) ==
  LET s == p.heads[h]
      inOrder == s.index < s.cnt \/ s.index \notin s.map
      i == IF inOrder THEN s.index ELSE Min((0 .. s.cnt - 1) \ s.map)
  IN  [at |-> h * p.page_size + i * s.chunk_size,
       pool |-> [p EXCEPT !.heads[h].map = @ \cup {i},
                          !.heads[h].index = IF inOrder THEN i + 1 ELSE s.cnt,
                          !.heads[h].free = (@ - 1) % 2^16]]

-----------------------------------------------------------------------------
(* alloc *)

\* The blocks of malloc are far apart and far from the pool.
Far == 2^20
ExtPlaces == {-k * Far : k \in 1 .. MaxExt} \cup {End(pool) + k * Far : k \in 1 .. MaxExt}

Rounded(req) == AtLeast(RoundUp(AtLeast(req, MIN_CHUNK), pool.min_slab), pool.min_slab)

\* The least slab that alloc_slab returns for the size has room for eight times
\* as much, and its map for as many bits as the assertion believes.
Moderate(size) ==
  LET least == IF 2 * pool.min_slab > pool.max_slab THEN pool.page_size ELSE 2 * pool.page_size
  IN  size > pool.max_slab \/ (8 * size <= least /\ 512 * size >= 2 * pool.page_size)

Asking(req) ==
  /\ status = "live" /\ BagCardinality(blocks) < client.most
  /\ strains' = IF Moderate(Rounded(req)) THEN strains ELSE strains \cup {"size"}
  /\ UNCHANGED <<client, released>>

AllocChunk(req) ==
  LET size == Rounded(req)
      r == Ready(pool, size)
      t == Take(r.pool, r.at)
  IN  /\ Asking(req)
      /\ size <= pool.max_slab /\ r.at # None
      /\ r.pool.heads[r.at].cnt <= MapBytes
      /\ pool' = t.pool
      /\ blocks' = Bag!BagAdd(blocks, [at |-> t.at, len |-> req])
      /\ UNCHANGED <<status, ext>>

\* assert(s->cnt <= sizeof(s->map))
AllocAborts(req) ==
  LET size == Rounded(req)
      r == Ready(pool, size)
  IN  /\ Asking(req)
      /\ size <= pool.max_slab /\ r.at # None
      /\ r.pool.heads[r.at].cnt > MapBytes
      /\ status' = "aborted"
      /\ UNCHANGED <<pool, ext, blocks>>

\* alloc_ext_mm: a node of malloc, if it has one, becomes the first of pool->ex.
AllocExt(req) ==
  LET size == Rounded(req)
      r == IF size <= pool.max_slab THEN Ready(pool, size) ELSE [at |-> None, pool |-> pool]
  IN  /\ Asking(req)
      /\ r.at = None
      /\ \/ pool' = r.pool /\ UNCHANGED <<ext, blocks>>
         \/ \E at \in ExtPlaces \ DOMAIN ext :
              /\ pool' = [r.pool EXCEPT !.ex = at]
              /\ ext' = [e \in DOMAIN ext \cup {at} |-> IF e = at THEN pool.ex ELSE ext[e]]
              /\ blocks' = Bag!BagAdd(blocks, [at |-> at, len |-> req])
      /\ UNCHANGED status

-----------------------------------------------------------------------------
(* free *)

Releasing(b) ==
  /\ status = "live" /\ b \in DOMAIN blocks /\ released < client.frees
  /\ released' = released + 1
  /\ blocks' = Bag!BagRemove(blocks, b)
  /\ UNCHANGED client

\* A block of malloc below the pool is taken for an invalid address and kept.
FreeBelow(b) ==
  /\ Releasing(b)
  /\ b.at < 0
  /\ UNCHANGED <<status, pool, ext, strains>>

\* The nodes that the search for an address in pool->ex comes by: the i-th one,
\* or None behind the end of the list and behind a node that is freed.
Node(at) ==
  LET nth[i \in 0 .. Cardinality(DOMAIN ext) + 1] ==
        IF i = 0 THEN pool.ex
        ELSE IF nth[i - 1] \in DOMAIN ext THEN ext[nth[i - 1]] ELSE None
  IN  nth

\* A block of malloc above the pool.  The first node is removed by a write to
\* itself, and pool->ex keeps pointing to it; a new node at the same place then
\* is its own successor.
FreeExt(b) ==
  LET node == Node(b.at)
      found == {i \in DOMAIN node : node[i] = b.at}
      i == Min(found)
      passed == {node[j] : j \in {k \in DOMAIN node : found = {} \/ k < i}}
  IN  /\ Releasing(b)
      /\ b.at > End(pool)
      /\ strains' = IF b.at = pool.ex THEN strains \cup {"newest ext"} ELSE strains
      /\ \/ /\ found # {} /\ passed \subseteq DOMAIN ext
            /\ ext' = [e \in DOMAIN ext \ {b.at} |->
                         IF i > 0 /\ e = node[i - 1] THEN ext[b.at] ELSE ext[e]]
            /\ UNCHANGED status
         \/ /\ found = {} /\ None \in passed /\ passed \subseteq DOMAIN ext \cup {None}
            /\ UNCHANGED <<status, ext>>
         \/ /\ ~(passed \subseteq DOMAIN ext \cup {None})
            /\ status' = "wild" /\ UNCHANGED ext
         \/ /\ found = {} /\ passed \subseteq DOMAIN ext
            /\ status' = "hung" /\ UNCHANGED ext
      /\ UNCHANGED pool

\* The last chunk in use is back: the pages are given back, and s->pages, which
\* counts them down, is then added to the number of free pages.
Emptied(p, h) ==
  LET s == p.heads[h]
      left == s.pages - Cardinality(Pages(p, h, s.pages))
  IN  [p EXCEPT !.map = @ \ Pages(p, h, s.pages),
                !.free = @ + left,
                !.heads[h].listed = FALSE,
                !.heads[h].pages = left]

\* A block in the pool, so that the list of used slabs is not empty: only the
\* slab at its head is looked at, and for ever if the block is in another one.
\* The head of a slab that was emptied points to none, and one that was lost
\* has chunks of size 0 to divide by.
FreeChunk(b) ==
  LET h == pool.used
      s == pool.heads[h]
      idx == (b.at - h * pool.page_size) \div s.chunk_size
      cleared == [pool EXCEPT !.heads[h].map = @ \ {idx},
                              !.heads[h].index = IF @ = s.cnt THEN idx ELSE @,
                              !.heads[h].free = (@ + 1) % 2^16]
      emptied == cleared.heads[h].free = s.cnt
      inside == b.at \in h * pool.page_size .. (h + s.pages) * pool.page_size - 1
      crashes == ~s.listed \/ (inside /\ s.chunk_size = 0)
  IN  /\ Releasing(b)
      /\ b.at \in 0 .. End(pool) /\ h # None
      /\ strains' = strains \cup
           IF ~crashes /\ inside /\ idx < s.cnt /\ ~emptied /\ "once" \notin strains
           THEN {"once"} ELSE {"release"}
      /\ \/ crashes /\ status' = "wild" /\ UNCHANGED pool
         \/ ~crashes /\ ~inside /\ status' = "hung" /\ UNCHANGED pool
         \/ ~crashes /\ inside /\ idx >= s.cnt /\ status' = "aborted" /\ UNCHANGED pool
         \/ /\ ~crashes /\ inside /\ idx < s.cnt
            /\ pool' = IF emptied THEN Emptied(cleared, h) ELSE cleared
            /\ UNCHANGED status
      /\ UNCHANGED ext

-----------------------------------------------------------------------------
Init ==
  /\ client \in Clients
  /\ status = "none"
  /\ pool = [ex |-> None]
  /\ ext = [e \in {} |-> None]
  /\ blocks = EmptyBag
  /\ released = 0
  /\ strains = {}

Next ==
  \/ Create \/ Destroy
  \/ \E req \in client.asks : AllocChunk(req) \/ AllocAborts(req) \/ AllocExt(req)
  \/ \E b \in DOMAIN blocks : FreeBelow(b) \/ FreeExt(b) \/ FreeChunk(b)

Spec == Init /\ [][Next]_vars

-----------------------------------------------------------------------------
\* Whatever its client does, the pool never counts a page as free that is in a
\* slab; and with a gentle client at most one page is lost to the count, the
\* page behind the pool that a slab of two pages at the last page has.
FreePagesKnown ==
  status = "live" =>
    LET clear == pool.pages - Cardinality(pool.map)
    IN  /\ pool.free <= clear
        /\ strains \subseteq {"once"} => clear <= pool.free + 1

\* What a client may rely on as long as its chunks are moderate in size, their
\* least size is a power of two, and it gives back at most one chunk, of the
\* newest slab, and no newest block of malloc: no call ends the program, and no
\* two blocks overlap, or reach over the end of the pool.
GentleClientsSafe ==
  strains \subseteq {"once"} =>
    /\ status \notin {"aborted", "hung", "wild"}
    /\ \A b \in DOMAIN blocks :
         /\ blocks[b] = 1
         /\ b.at \in 0 .. End(pool) => b.at + b.len <= End(pool)
         /\ \A c \in DOMAIN blocks \ {b} : b.at + b.len <= c.at \/ c.at + c.len <= b.at
=============================================================================
