---------------------------- MODULE BloomFilter ----------------------------
(***************************************************************************)
(* bloom_filter.cpp: an array of bits and the hash functions that say which *)
(* of them a string sets.  The functions are the caller's.                 *)
(***************************************************************************)
EXTENDS Integers, Sequences

CONSTANTS
  Strings,
  Sizes,    \* the sizes that bloom_create is called with
  Funcs     \* the sequences of hash functions that it is called with

VARIABLES
  status,   \* "none", "live", "gone", or "crashed" by a division by zero
  bloom,    \* BLOOM: asize, the bytes allocated, the bits set in a, funcs
  added     \* history: the strings added

vars == <<status, bloom, added>>

CHAR_BIT == 8

\* Mutant: the last byte, of which not all bits are used, is not allocated.
BytesRoundedDown(size) == size \div CHAR_BIT

Bytes(size) == (size + CHAR_BIT - 1) \div CHAR_BIT

\* Where SETBIT and GETBIT find the bit: the byte, and the bit in it.
Place(n) == <<n \div CHAR_BIT, n % CHAR_BIT>>

Places(s) == {Place(bloom.funcs[n][s] % bloom.asize) : n \in DOMAIN bloom.funcs}

bloom_create(size, funcs) ==
  /\ status = "none"
  /\ status' = "live"
  /\ bloom' = [asize |-> size, bytes |-> Bytes(size), a |-> {}, funcs |-> funcs]
  /\ UNCHANGED added

bloom_destroy ==
  /\ status = "live"
  /\ status' = "gone"
  /\ UNCHANGED <<bloom, added>>

bloom_add(s) ==
  /\ status = "live"
  /\ \/ /\ bloom.asize > 0 \/ bloom.funcs = <<>>
        /\ bloom' = [bloom EXCEPT !.a = @ \cup Places(s)]
        /\ added' = added \cup {s}
        /\ UNCHANGED status
     \/ /\ bloom.asize = 0 /\ bloom.funcs # <<>>
        /\ status' = "crashed"
        /\ UNCHANGED <<bloom, added>>

bloom_check(s) == Places(s) \subseteq bloom.a

Init == status = "none" /\ bloom = [asize |-> 0] /\ added = {}

Next ==
  \/ \E size \in Sizes, funcs \in Funcs : bloom_create(size, funcs)
  \/ bloom_destroy
  \/ \E s \in Strings : bloom_add(s)

Spec == Init /\ [][Next]_vars

-----------------------------------------------------------------------------
\* A string that was added is found, whatever else shares its bits; one that is
\* found has each of its bits from one that was added; and no bit is outside
\* the bytes that were allocated.
BloomRight ==
  status = "live" /\ bloom.asize > 0 =>
    /\ \A s \in Strings : s \in added => bloom_check(s)
    /\ \A s \in Strings : bloom_check(s) =>
         \A n \in DOMAIN bloom.funcs : \E t \in added, m \in DOMAIN bloom.funcs :
           bloom.funcs[n][s] % bloom.asize = bloom.funcs[m][t] % bloom.asize
    /\ \A s \in Strings : Places(s) \subseteq (0 .. bloom.bytes - 1) \X (0 .. CHAR_BIT - 1)
=============================================================================
