----------------------------- MODULE Collections -----------------------------
(***************************************************************************)
(* Three parts of the repository that use no other one, side by side: the  *)
(* bloom filter, the prefix function and the manager of a module.  subject *)
(* says which of them a behavior is about, and the others do not move.     *)
(***************************************************************************)
EXTENDS Integers, Sequences

CONSTANTS
  Subjects,             \* the parts that there are behaviors about
  Letters, MaxLen,      \* PrefixFunction
  Strings, Sizes, Funcs \* BloomFilter

\* The lengths, sizes and hashes are unsigned numbers of the code.
ASSUME CollectionsAssumption ==
  /\ MaxLen \in Nat
  /\ Sizes \subseteq Nat
  /\ \A fs \in Funcs : fs \in Seq([Strings -> Nat])

VARIABLES
  subject,
  status, bloom, added,                 \* BloomFilter
  p, prefix, len, i, passes,            \* PrefixFunction
  object, stop_, state, up, excuses     \* ModuleLifecycle

B == INSTANCE BloomFilter
P == INSTANCE PrefixFunction
L == INSTANCE ModuleLifecycle WITH status <- state

bloomVars == <<status, bloom, added>>
prefixVars == <<p, prefix, len, i, passes>>
moduleVars == <<object, stop_, state, up, excuses>>
vars == <<subject, bloomVars, prefixVars, moduleVars>>

Init ==
  /\ subject \in Subjects
  /\ B!Init /\ L!Init
  /\ IF subject = "prefix" THEN P!Init
     ELSE p = <<>> /\ prefix = <<>> /\ len = 0 /\ i = 0 /\ passes = 0

Next ==
  /\ UNCHANGED subject
  /\ IF subject = "bloom" THEN B!Next ELSE UNCHANGED bloomVars
  /\ IF subject = "prefix" THEN P!Next ELSE UNCHANGED prefixVars
  /\ IF subject = "module" THEN L!Next ELSE UNCHANGED moduleVars

Spec == Init /\ [][Next]_vars

-----------------------------------------------------------------------------
\* The properties of the parts: each module says what its own means.
BloomRight == B!BloomRight
PrefixRight == subject = "prefix" => P!PrefixRight
StatusTells == L!StatusTells
=============================================================================
