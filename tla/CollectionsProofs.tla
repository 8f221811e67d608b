-------------------------- MODULE CollectionsProofs --------------------------
(***************************************************************************)
(* Theorems about three of the small parts: the prefix function, the       *)
(* manager of a module and the bloom filter.                               *)
(***************************************************************************)
EXTENDS Collections, TLAPS

-----------------------------------------------------------------------------
(* The prefix function *)

\* A pattern: its letters are at 0 .. m - 1.
Pattern(m) == m \in 1 .. MaxLen /\ p \in [0 .. m - 1 -> Letters]

\* The first k letters of q[0 .. j] are its last k, and not all of it; and k is the
\* greatest of them.
Border(q, k, j) == k <= j /\ \A x \in 0 .. k - 1 : q[x] = q[j + 1 - k + x]
Longest(q, k, j) == k \in 0 .. j /\ Border(q, k, j) /\ \A l \in k + 1 .. j : ~Border(q, l, j)

\* Between two passes of the loop: what was written is right; len is the length of
\* a border of what was read, and every longer one was tried and does not go on
\* with the letter at i; each pass is paid for by a letter or by the length.
PrefixInv(m) ==
  /\ Pattern(m) /\ P!n = m
  /\ i \in 1 .. m /\ len \in 0 .. i - 1 /\ passes \in Nat
  /\ prefix \in [0 .. i - 1 -> Nat]
  /\ \A j \in 0 .. i - 1 : Longest(p, prefix[j], j)
  /\ Border(p, len, i - 1)
  /\ i < m => \A k \in len + 1 .. i - 1 : Border(p, k, i - 1) => p[k] # p[i]
  /\ passes + len <= 2 * (i - 1)

\* The length of a pattern is the number of its letters.
LEMMA PatternLength ==
  ASSUME MaxLen \in Nat, NEW m, Pattern(m)
  PROVE  P!n = m
<1>1. /\ m \in 1 .. MaxLen /\ DOMAIN p = 0 .. m - 1
  BY DEF Pattern
<1>2. ASSUME NEW l \in 1 .. MaxLen, DOMAIN p = 0 .. l - 1
      PROVE  l = m
  <2>1. l - 1 \in 0 .. m - 1 /\ m - 1 \in 0 .. l - 1
    BY <1>1, <1>2
  <2> QED BY <1>1, <2>1
<1> QED BY <1>1, <1>2 DEF P!n

\* A border of a border is a border, and a shorter border of the same word is
\* one of the longer.
LEMMA BorderOfBorder ==
  ASSUME NEW q, NEW j \in Nat, NEW k \in Nat, NEW l \in Nat, Border(q, k, j), l <= k - 1
  PROVE  Border(q, l, k - 1) <=> Border(q, l, j)
<1>1. k <= j /\ \A x \in 0 .. k - 1 : q[x] = q[j + 1 - k + x]
  BY DEF Border
<1>2. ASSUME NEW x \in 0 .. l - 1
      PROVE  q[k - l + x] = q[j + 1 - l + x]
  <2>1. k - l + x \in 0 .. k - 1
    BY <1>2
  <2>2. q[k - l + x] = q[j + 1 - k + (k - l + x)]
    BY <1>1, <2>1
  <2>3. j + 1 - k + (k - l + x) = j + 1 - l + x
    BY <1>2
  <2> QED BY <2>2, <2>3
<1>3. \A x \in 0 .. l - 1 : (k - 1) + 1 - l + x = k - l + x
  OBVIOUS
<1> QED BY <1>1, <1>2, <1>3 DEF Border

\* A border goes on with a letter, or ends before it.
LEMMA BorderStep ==
  ASSUME NEW q, NEW j \in Nat, NEW k \in Nat
  PROVE  Border(q, k + 1, j + 1) <=> Border(q, k, j) /\ q[k] = q[j + 1]
<1>1. \A x \in 0 .. k : (j + 1) + 1 - (k + 1) + x = j + 1 - k + x
  OBVIOUS
<1>2. j + 1 - k + k = j + 1
  OBVIOUS
<1>3. 0 .. (k + 1) - 1 = 0 .. k /\ \A x : x \in 0 .. k <=> x \in 0 .. k - 1 \/ x = k
  OBVIOUS
<1> QED BY <1>1, <1>2, <1>3 DEF Border

\* It holds before the first pass.
LEMMA PrefixInitHeld ==
  ASSUME MaxLen \in Nat, P!Init
  PROVE  \E m : PrefixInv(m)
<1>1. PICK m \in 1 .. MaxLen : p \in [0 .. m - 1 -> Letters]
  BY DEF P!Init
<1>2. Pattern(m) /\ P!n = m
  BY <1>1, PatternLength DEF Pattern
<1>3. prefix = [j \in {0} |-> 0] /\ len = 0 /\ i = 1 /\ passes = 0
  BY DEF P!Init
<1>4. 0 .. 1 - 1 = {0} /\ m \in Nat /\ 1 \in 1 .. m
  BY <1>1
<1>5. Border(p, 0, 0)
  BY DEF Border
<1>6. Longest(p, 0, 0)
  BY <1>5 DEF Longest
<1> QED BY <1>2, <1>3, <1>4, <1>5, <1>6 DEF PrefixInv

\* A match: the border and the position move on by one.
LEMMA MatchHeld ==
  ASSUME NEW m, PrefixInv(m), m \in Nat, P!Match, p' = p, passes' = passes + 1, P!n' = m
  PROVE  PrefixInv(m)'
<1>1. /\ i < m /\ p[i] = p[len] /\ len' = len + 1 /\ i' = i + 1
      /\ prefix' = [j \in DOMAIN prefix \cup {i} |-> IF j = i THEN len + 1 ELSE prefix[j]]
  BY DEF P!Match, P!Write, PrefixInv
<1>2. /\ i \in 1 .. m /\ len \in 0 .. i - 1 /\ passes \in Nat /\ prefix \in [0 .. i - 1 -> Nat]
      /\ passes + len <= 2 * (i - 1)
  BY DEF PrefixInv
<1>3. Border(p, len + 1, i) /\ \A k \in len + 2 .. i : ~Border(p, k, i)
  <2>1. i - 1 \in Nat /\ (i - 1) + 1 = i /\ len \in Nat
    BY <1>2
  <2>2. Border(p, len + 1, i)
    <3>1. Border(p, len + 1, (i - 1) + 1) <=> Border(p, len, i - 1) /\ p[len] = p[(i - 1) + 1]
      BY <2>1, BorderStep
    <3>2. Border(p, len, i - 1)
      BY DEF PrefixInv
    <3> QED BY <1>1, <2>1, <3>1, <3>2
  <2>3. ASSUME NEW k \in len + 2 .. i, Border(p, k, i)
        PROVE  FALSE
    <3>1. k - 1 \in Nat /\ (k - 1) + 1 = k /\ k - 1 \in len + 1 .. i - 1
      BY <1>2, <2>3
    <3>2. Border(p, k - 1, i - 1) /\ p[k - 1] = p[i]
      BY <2>1, <2>3, <3>1, BorderStep
    <3> QED BY <1>1, <3>1, <3>2 DEF PrefixInv
  <2> QED BY <2>2, <2>3
<1>4. 0 .. i' - 1 = (0 .. i - 1) \cup {i}
  BY <1>1, <1>2
<1>5. prefix' \in [0 .. i' - 1 -> Nat] /\ prefix'[i] = len + 1 /\ \A j \in 0 .. i - 1 : prefix'[j] = prefix[j]
  BY <1>1, <1>2, <1>4
<1>7. m \in Nat /\ i' \in 1 .. m /\ len' \in 0 .. i' - 1 /\ passes' \in Nat /\ i' - 1 = i
      /\ passes' + len' <= 2 * (i' - 1)
  BY <1>1, <1>2
<1>8. ASSUME NEW j \in 0 .. i' - 1
      PROVE  Longest(p, prefix'[j], j)
  BY <1>1, <1>2, <1>3, <1>4, <1>5 DEF Longest, PrefixInv
<1>9. Border(p, len', i' - 1) /\ \A k \in len' + 1 .. i' - 1 : ~Border(p, k, i' - 1)
  BY <1>1, <1>2, <1>3, <1>7
<1>10. Pattern(m)'
  BY DEF PrefixInv, Pattern
<1> QED BY <1>5, <1>7, <1>8, <1>9, <1>10 DEF PrefixInv

\* No match: the length falls to that of the next shorter border.
LEMMA FallBackHeld ==
  ASSUME NEW m, PrefixInv(m), m \in Nat, P!FallBack, p' = p, passes' = passes + 1, P!n' = m
  PROVE  PrefixInv(m)'
<1>1. /\ i < m /\ p[i] # p[len] /\ len > 0 /\ len' = prefix[len - 1]
      /\ prefix' = prefix /\ i' = i
  BY DEF P!FallBack, PrefixInv
<1>2. /\ i \in 1 .. m /\ len \in 0 .. i - 1 /\ passes \in Nat /\ prefix \in [0 .. i - 1 -> Nat]
      /\ passes + len <= 2 * (i - 1)
  BY DEF PrefixInv
<1>3. len - 1 \in 0 .. i - 1 /\ Longest(p, len', len - 1) /\ Border(p, len, i - 1)
  BY <1>1, <1>2 DEF PrefixInv
<1>4. len' \in 0 .. len - 1
  BY <1>1, <1>3 DEF Longest
<1>6. i - 1 \in Nat /\ len \in Nat
  BY <1>2
<1>7. Border(p, len', i - 1)
  BY <1>3, <1>4, <1>6, BorderOfBorder DEF Longest
<1>8. ASSUME NEW k \in Nat, len' < k, k <= i - 1, Border(p, k, i - 1)
      PROVE  p[k] # p[i]
  <2>1. CASE k > len
    BY <1>1, <1>2, <2>1, <1>8, <1>4 DEF PrefixInv
  <2>2. CASE k = len
    BY <1>1, <2>2
  <2>3. CASE k < len
    <3>1. k \in Nat /\ k <= len - 1 /\ k \in len' + 1 .. len - 1
      <4>1. len' \in Nat
        BY <1>4
      <4>2. \A g \in Nat : g < k => k <= len - 1 /\ k \in g + 1 .. len - 1
        BY <1>6, <2>3
      <4> QED BY <1>8, <4>1, <4>2
    <3>2. Border(p, k, len - 1)
      BY <1>3, <1>6, <1>8, <3>1, BorderOfBorder
    <3> QED BY <1>3, <3>1, <3>2 DEF Longest
  <2> QED BY <1>6, <2>1, <2>2, <2>3
<1>9. ASSUME NEW j \in 0 .. i - 1
      PROVE  Longest(p, prefix'[j], j)
  BY <1>1 DEF PrefixInv
<1>10. Pattern(m)'
  BY DEF PrefixInv, Pattern
<1>11. len' \in 0 .. i' - 1 /\ passes' \in Nat /\ passes' + len' <= 2 * (i' - 1)
  BY <1>1, <1>2, <1>4
<1>12. prefix' \in [0 .. i' - 1 -> Nat] /\ i' \in 1 .. m
  BY <1>1, <1>2
<1>13. Border(p, len', i' - 1) /\ \A k \in len' + 1 .. i' - 1 : Border(p, k, i' - 1) => p[k] # p[i']
  BY <1>1, <1>2, <1>4, <1>7, <1>8
<1> QED BY <1>1, <1>9, <1>10, <1>11, <1>12, <1>13 DEF PrefixInv

\* No match and nothing to fall back to: the word read has no border.
LEMMA NoBorderHeld ==
  ASSUME NEW m, PrefixInv(m), m \in Nat, P!NoBorder, p' = p, passes' = passes + 1, P!n' = m
  PROVE  PrefixInv(m)'
<1>1. /\ i < m /\ p[i] # p[len] /\ len = 0 /\ len' = 0 /\ i' = i + 1
      /\ prefix' = [j \in DOMAIN prefix \cup {i} |-> IF j = i THEN 0 ELSE prefix[j]]
  BY DEF P!NoBorder, P!Write, PrefixInv
<1>2. /\ i \in 1 .. m /\ passes \in Nat /\ prefix \in [0 .. i - 1 -> Nat]
      /\ passes + len <= 2 * (i - 1)
  BY DEF PrefixInv
<1>3. Border(p, 0, i) /\ \A k \in 1 .. i : ~Border(p, k, i)
  <2>1. Border(p, 0, i)
    BY <1>2 DEF Border
  <2>2. ASSUME NEW k \in 1 .. i, Border(p, k, i)
        PROVE  FALSE
    <3>1. k - 1 \in Nat /\ (k - 1) + 1 = k /\ i - 1 \in Nat /\ (i - 1) + 1 = i
      BY <1>2, <2>2
    <3>2. Border(p, k - 1, i - 1) /\ p[k - 1] = p[i]
      BY <2>2, <3>1, BorderStep
    <3>3. k - 1 = 0 \/ k - 1 \in len + 1 .. i - 1
      BY <1>1, <1>2, <2>2
    <3> QED BY <1>1, <3>2, <3>3 DEF PrefixInv
  <2> QED BY <2>1, <2>2
<1>4. 0 .. i' - 1 = (0 .. i - 1) \cup {i}
  BY <1>1, <1>2
<1>5. prefix' \in [0 .. i' - 1 -> Nat] /\ prefix'[i] = 0 /\ \A j \in 0 .. i - 1 : prefix'[j] = prefix[j]
  BY <1>1, <1>2, <1>4
<1>7. m \in Nat /\ i' \in 1 .. m /\ len' \in 0 .. i' - 1 /\ passes' \in Nat /\ i' - 1 = i
      /\ passes' + len' <= 2 * (i' - 1)
  BY <1>1, <1>2
<1>8. ASSUME NEW j \in 0 .. i' - 1
      PROVE  Longest(p, prefix'[j], j)
  BY <1>1, <1>2, <1>3, <1>4, <1>5 DEF Longest, PrefixInv
<1>9. Border(p, len', i' - 1) /\ \A k \in len' + 1 .. i' - 1 : ~Border(p, k, i' - 1)
  BY <1>1, <1>2, <1>3, <1>7
<1>10. Pattern(m)'
  BY DEF PrefixInv, Pattern
<1> QED BY <1>5, <1>7, <1>8, <1>9, <1>10 DEF PrefixInv

\* It holds of every step.
LEMMA PrefixNextHeld ==
  ASSUME MaxLen \in Nat, NEW m, PrefixInv(m), [P!Next]_(P!vars)
  PROVE  PrefixInv(m)'
<1>1. m \in Nat
  BY DEF PrefixInv, Pattern
<1>2. CASE P!Next
  <2>1. p' = p /\ passes' = passes + 1
    BY <1>2 DEF P!Next
  <2>2. P!n' = m
    BY <2>1 DEF PrefixInv, P!n
  <2> QED BY <1>1, <1>2, <2>1, <2>2, MatchHeld, FallBackHeld, NoBorderHeld DEF P!Next
<1>3. CASE UNCHANGED P!vars
  BY <1>3 DEF P!vars, PrefixInv, Pattern, P!n
<1> QED BY <1>2, <1>3

\* Whatever the pattern, each value that kmp.cpp's prefix_t writes is the length of
\* the longest border, and the loop makes at most two passes for each letter.
THEOREM PrefixCorrect == Spec => []PrefixRight
<1> DEFINE Held == subject = "prefix" => \E m : PrefixInv(m)
<1>1. Init => Held
  BY CollectionsAssumption, PrefixInitHeld DEF Init
<1>2. Held /\ [Next]_vars => Held'
  <2> SUFFICES ASSUME subject' = "prefix", Held, [Next]_vars
               PROVE  \E m : PrefixInv(m)'
    OBVIOUS
  <2>1. subject = "prefix" /\ [P!Next]_(P!vars)
    BY DEF Next, vars, prefixVars, P!vars
  <2> QED BY <2>1, CollectionsAssumption, PrefixNextHeld
<1>3. Held => PrefixRight
  <2>1. SUFFICES ASSUME NEW m, PrefixInv(m)
                 PROVE  P!PrefixRight
    BY DEF PrefixRight
  <2> QED BY <2>1 DEF PrefixInv, Pattern, Longest, Border, P!Border, P!PrefixRight
<1> QED BY <1>1, <1>2, <1>3, PTL DEF Spec

-----------------------------------------------------------------------------
(* The module life cycle *)

\* What a status says of the functions that were called and not undone.
Tells ==
  \/ state = "uninit" /\ up = {}
  \/ state \in {"inited", "unruning"} /\ up = {"init"}
  \/ state = "runing" /\ up = {"init", "run"}

\* Where nothing excuses it, the status tells what is up as long as the object is
\* not gone, and then nothing is.
LifeInv ==
  excuses = {} =>
    /\ object \in {"none", "live", "gone", "thrown", "wild"}
    /\ object = "none" => state = "uninit" /\ up = {}
    /\ object = "live" => Tells
    /\ object = "gone" => up = {}

\* An excuse is never taken back, and there is none after a step that had its order.
LEMMA NoExcuse ==
  /\ \A before : L!Ordered(before) = {} => up = before
  /\ \A ok \in BOOLEAN : L!Kept(ok) = {} => ok
<1>1. {"order"} # {} /\ {"failed"} # {}
  OBVIOUS
<1> QED BY <1>1 DEF L!Ordered, L!Kept

\* A call of one of the four functions.
LEMMA CallHeld ==
  ASSUME LifeInv, NEW ok \in BOOLEAN, L!init(ok) \/ L!run(ok) \/ L!stop(ok) \/ L!exit(ok)
  PROVE  LifeInv'
<1>1. SUFFICES ASSUME excuses' = {}
               PROVE  object' = "live" /\ Tells'
  BY DEF LifeInv, L!init, L!run, L!stop, L!exit
<1>2. excuses \subseteq excuses' /\ object = "live" /\ object' = "live"
  BY DEF L!init, L!run, L!stop, L!exit
<1>3. Tells
  BY <1>1, <1>2 DEF LifeInv
<1>4. CASE L!init(ok)
  <2>1. up = {}
    BY <1>1, <1>4, NoExcuse DEF L!init
  <2>2. up' = (IF ok THEN {"init"} ELSE {}) /\ state' = IF ok THEN "inited" ELSE "uninit"
    BY <1>4, <2>1 DEF L!init
  <2> QED BY <1>2, <2>2 DEF Tells
<1>5. CASE L!run(ok)
  <2>1. up = {"init"}
    BY <1>1, <1>5, NoExcuse DEF L!run
  <2>2. /\ up' = (IF ok THEN {"init", "run"} ELSE {"init"})
        /\ state' = IF ok THEN "runing" ELSE "unruning"
    BY <1>5, <2>1 DEF L!run
  <2> QED BY <1>2, <2>2 DEF Tells
<1>6. CASE L!stop(ok)
  <2>1. ok /\ up = {"init", "run"}
    BY <1>1, <1>6, NoExcuse DEF L!stop
  <2>2. up' = {"init"} /\ state' = "unruning"
    BY <1>6, <2>1 DEF L!stop
  <2> QED BY <1>2, <2>2 DEF Tells
<1>7. CASE L!exit(ok)
  <2>1. ok /\ up = {"init"}
    BY <1>1, <1>7, NoExcuse DEF L!exit
  <2>2. up' = {} /\ state' = "uninit"
    BY <1>7, <2>1 DEF L!exit
  <2> QED BY <1>2, <2>2 DEF Tells
<1> QED BY <1>4, <1>5, <1>6, <1>7

\* The destructor stops what runs, and then exits what is initialised.
LEMMA DestroyHeld ==
  ASSUME LifeInv, NEW stops \in BOOLEAN, NEW exits \in BOOLEAN, L!Destroy(stops, exits)
  PROVE  LifeInv'
<1>1. SUFFICES ASSUME excuses' = {}
               PROVE  object' = "gone" /\ up' = {}
  BY DEF LifeInv, L!Destroy
<1>2. /\ object = "live" /\ object' = "gone"
      /\ excuses = {} /\ L!Kept(stops) = {} /\ L!Kept(exits) = {} /\ state # "unruning"
  BY <1>1 DEF L!Destroy
<1>3. stops /\ exits /\ Tells
  BY <1>2, NoExcuse DEF LifeInv
<1>4. up' = LET stopped == IF state = "runing" THEN up \ {"run"} ELSE up
            IN  IF L!StatusStopped = "inited" THEN stopped \ {"init"} ELSE stopped
  BY <1>3 DEF L!Destroy
<1>5. CASE state = "uninit" /\ up = {}
  BY <1>2, <1>4, <1>5 DEF L!StatusStopped
<1>6. CASE state = "inited" /\ up = {"init"}
  BY <1>2, <1>4, <1>6 DEF L!StatusStopped
<1>7. CASE state = "runing" /\ up = {"init", "run"}
  <2>1. L!StatusStopped = "inited"
    BY <1>7 DEF L!StatusStopped
  <2>2. up' = (up \ {"run"}) \ {"init"}
    BY <1>4, <1>7, <2>1
  <2> QED BY <1>2, <1>7, <2>2
<1> QED BY <1>2, <1>3, <1>5, <1>6, <1>7 DEF Tells

\* Whatever is called and whatever fails, the status tells what the module has, and
\* the destructor leaves nothing, except where the excuses say why.
THEOREM StatusCorrect == Spec => []StatusTells
<1>1. Init => LifeInv
  BY DEF Init, L!Init, LifeInv
<1>2. LifeInv /\ [Next]_vars => LifeInv'
  <2> SUFFICES ASSUME LifeInv, [L!Next]_(L!vars)
               PROVE  LifeInv'
    BY DEF Next, vars, moduleVars, L!vars
  <2>1. CASE L!Construct
    BY <2>1 DEF L!Construct, LifeInv, Tells
  <2>2. CASE L!StopsNowhere \/ L!DestroysNowhere
    BY <2>2 DEF L!StopsNowhere, L!DestroysNowhere, LifeInv, Tells
  <2>3. CASE UNCHANGED L!vars
    BY <2>3 DEF L!vars, LifeInv, Tells
  <2> QED BY <2>1, <2>2, <2>3, CallHeld, DestroyHeld DEF L!Next
<1>3. LifeInv => StatusTells
  BY DEF LifeInv, Tells, StatusTells, L!StatusTells
<1> QED BY <1>1, <1>2, <1>3, PTL DEF Spec

-----------------------------------------------------------------------------
(* The bloom filter *)

\* While it lives, the set bits are those of the strings added.
BloomInv ==
  /\ added \subseteq Strings
  /\ status = "none" => added = {}
  /\ status = "live" =>
       /\ bloom.asize \in Nat /\ bloom.bytes = B!Bytes(bloom.asize)
       /\ bloom.funcs \in Seq([Strings -> Nat])
       /\ bloom.asize > 0 => bloom.a = UNION {B!Places(s) : s \in added}

\* A bit is at one place only, and within the bytes allocated for the size.
LEMMA PlaceRight ==
  ASSUME NEW size \in Nat, NEW n \in 0 .. size - 1
  PROVE  /\ B!Place(n) \in (0 .. B!Bytes(size) - 1) \X (0 .. B!CHAR_BIT - 1)
         /\ \A l \in 0 .. size - 1 : B!Place(n) = B!Place(l) => n = l
<1>1. \A x \in Nat : x % 8 \in 0 .. 7 /\ x \div 8 \in Nat /\ x = 8 * (x \div 8) + (x % 8)
  <2>1. ASSUME NEW x \in Nat
        PROVE  x % 8 \in 0 .. 7 /\ x \div 8 \in Int /\ x = 8 * (x \div 8) + (x % 8)
    <3>1. x % 8 \in 0 .. 7
      OBVIOUS
    <3>2. x \div 8 \in Int
      OBVIOUS
    <3>3. x = 8 * (x \div 8) + (x % 8)
      OBVIOUS
    <3> QED BY <3>1, <3>2, <3>3
  <2>2. \A x \in Nat, y \in Int, z \in 0 .. 7 : x = 8 * y + z => y \in Nat
    OBVIOUS
  <2> QED BY <2>1, <2>2
<1>2. n \in Nat /\ (size + 7) \in Nat /\ (size + 8) - 1 = size + 7
  OBVIOUS
<1>3. n \div 8 \in 0 .. (size + 7) \div 8 - 1
  <2>1. PICK a \in Nat, b \in 0 .. 7 : a = n \div 8 /\ n = 8 * a + b
    BY <1>1, <1>2
  <2>2. PICK c \in Nat, d \in 0 .. 7 : c = (size + 7) \div 8 /\ size + 7 = 8 * c + d
    BY <1>1, <1>2
  <2>3. n + 1 <= size
    OBVIOUS
  <2>4. 8 * a + b + 1 + 7 <= 8 * c + d
    BY <2>1, <2>2, <2>3
  <2>5. a < c
    BY <2>4
  <2> QED BY <2>1, <2>2, <2>5
<1>4. B!Place(n) \in (0 .. B!Bytes(size) - 1) \X (0 .. B!CHAR_BIT - 1)
  BY <1>1, <1>2, <1>3 DEF B!Place, B!Bytes, B!CHAR_BIT
<1>5. ASSUME NEW l \in 0 .. size - 1, B!Place(n) = B!Place(l)
      PROVE  n = l
  <2>1. n \div 8 = l \div 8 /\ n % 8 = l % 8
    BY <1>5 DEF B!Place, B!CHAR_BIT
  <2>2. n = 8 * (n \div 8) + (n % 8) /\ l = 8 * (l \div 8) + (l % 8)
    BY <1>1
  <2> QED BY <2>1, <2>2
<1> QED BY <1>4, <1>5

\* Each hash of a string is a bit of the filter.
LEMMA HashRight ==
  ASSUME BloomInv, status = "live", bloom.asize > 0, NEW s \in Strings,
         NEW n \in DOMAIN bloom.funcs
  PROVE  bloom.funcs[n][s] % bloom.asize \in 0 .. bloom.asize - 1
<1>1. bloom.asize \in Nat \ {0} /\ bloom.funcs \in Seq([Strings -> Nat])
  BY DEF BloomInv
<1>2. bloom.funcs[n] \in [Strings -> Nat]
  BY <1>1
<1>3. bloom.funcs[n][s] \in Nat
  BY <1>2
<1>4. \A x \in Nat, y \in Nat \ {0} : x % y \in 0 .. y - 1
  OBVIOUS
<1> QED BY <1>1, <1>3, <1>4

\* Adding a string sets its bits and no other.
LEMMA AddHeld ==
  ASSUME BloomInv, NEW s \in Strings, B!bloom_add(s)
  PROVE  BloomInv'
<1>1. CASE status' = "crashed"
  BY <1>1 DEF BloomInv, B!bloom_add
<1>2. CASE status' # "crashed"
  <2>1. /\ status = "live" /\ status' = "live" /\ added' = added \cup {s}
        /\ bloom' = [bloom EXCEPT !.a = @ \cup B!Places(s)]
    BY <1>2 DEF B!bloom_add
  <2>2. bloom'.asize = bloom.asize /\ bloom'.bytes = bloom.bytes /\ bloom'.funcs = bloom.funcs
    BY <2>1
  <2>3. ASSUME bloom.asize > 0
        PROVE  bloom'.a = UNION {B!Places(t)' : t \in added'}
    <3>1. bloom.a = UNION {B!Places(t) : t \in added}
      BY <2>1, <2>3 DEF BloomInv
    <3>2. bloom'.a = bloom.a \cup B!Places(s)
      BY <2>1
    <3>3. \A t : B!Places(t)' = B!Places(t)
      BY <2>2 DEF B!Places
    <3> QED BY <2>1, <3>1, <3>2, <3>3
  <2> QED BY <2>1, <2>2, <2>3 DEF BloomInv, B!Bytes, B!CHAR_BIT
<1> QED BY <1>1, <1>2

\* Whatever hash functions and sizes it is given: no string that was added is
\* missed, a string is found by bits that were set, and every bit is in its bytes.
THEOREM BloomCorrect == Spec => []BloomRight
<1>1. Init => BloomInv
  BY DEF Init, B!Init, BloomInv
<1>2. ASSUME BloomInv, [Next]_vars
      PROVE  BloomInv'
  <2> SUFFICES ASSUME [B!Next]_(B!vars)
               PROVE  BloomInv'
    BY <1>2 DEF Next, vars, bloomVars, B!vars
  <2>1. ASSUME NEW size \in Sizes, NEW funcs \in Funcs, B!bloom_create(size, funcs)
        PROVE  BloomInv'
    <3>1. /\ status' = "live" /\ added' = {} /\ size \in Nat /\ funcs \in Seq([Strings -> Nat])
          /\ bloom' = [asize |-> size, bytes |-> B!Bytes(size), a |-> {}, funcs |-> funcs]
      BY <1>2, <2>1, CollectionsAssumption DEF B!bloom_create, BloomInv
    <3>2. bloom'.a = UNION {B!Places(t)' : t \in added'}
      BY <3>1
    <3> QED BY <3>1, <3>2 DEF BloomInv, B!Bytes, B!CHAR_BIT
  <2>2. CASE B!bloom_destroy
    BY <1>2, <2>2 DEF B!bloom_destroy, BloomInv
  <2>3. CASE UNCHANGED B!vars
    <3>1. status' = status /\ bloom' = bloom /\ added' = added
      BY <2>3 DEF B!vars
    <3>2. \A t : B!Places(t)' = B!Places(t)
      BY <3>1 DEF B!Places
    <3> QED BY <1>2, <3>1, <3>2 DEF BloomInv, B!Bytes, B!CHAR_BIT
  <2> QED BY <1>2, <2>1, <2>2, <2>3, AddHeld DEF B!Next
<1>3. ASSUME BloomInv
      PROVE  BloomRight
  <2> SUFFICES ASSUME status = "live", bloom.asize > 0
               PROVE  /\ \A s \in Strings : s \in added => B!bloom_check(s)
                      /\ \A s \in Strings : B!bloom_check(s) =>
                           \A n \in DOMAIN bloom.funcs : \E t \in added, m \in DOMAIN bloom.funcs :
                             bloom.funcs[n][s] % bloom.asize = bloom.funcs[m][t] % bloom.asize
                      /\ \A s \in Strings :
                           B!Places(s) \subseteq (0 .. bloom.bytes - 1) \X (0 .. B!CHAR_BIT - 1)
    BY DEF BloomRight, B!BloomRight
  <2>1. /\ added \subseteq Strings /\ bloom.asize \in Nat
        /\ bloom.a = UNION {B!Places(s) : s \in added} /\ bloom.bytes = B!Bytes(bloom.asize)
    BY <1>3 DEF BloomInv
  <2>2. \A s \in Strings : s \in added => B!bloom_check(s)
    BY <2>1 DEF B!bloom_check
  <2>3. ASSUME NEW s \in Strings, B!bloom_check(s), NEW n \in DOMAIN bloom.funcs
        PROVE  \E t \in added, m \in DOMAIN bloom.funcs :
                 bloom.funcs[n][s] % bloom.asize = bloom.funcs[m][t] % bloom.asize
    <3>1. B!Place(bloom.funcs[n][s] % bloom.asize) \in bloom.a
      BY <2>3 DEF B!bloom_check, B!Places
    <3>2. PICK t \in added : B!Place(bloom.funcs[n][s] % bloom.asize) \in B!Places(t)
      BY <2>1, <3>1
    <3>3. PICK m \in DOMAIN bloom.funcs :
            B!Place(bloom.funcs[n][s] % bloom.asize) = B!Place(bloom.funcs[m][t] % bloom.asize)
      BY <3>2 DEF B!Places
    <3>4. /\ bloom.funcs[n][s] % bloom.asize \in 0 .. bloom.asize - 1
          /\ bloom.funcs[m][t] % bloom.asize \in 0 .. bloom.asize - 1
      BY <1>3, <2>1, <2>3, <3>2, <3>3, HashRight
    <3> QED BY <2>1, <3>2, <3>3, <3>4, PlaceRight
  <2>4. ASSUME NEW s \in Strings
        PROVE  B!Places(s) \subseteq (0 .. bloom.bytes - 1) \X (0 .. B!CHAR_BIT - 1)
    BY <1>3, <2>1, <2>4, HashRight, PlaceRight DEF B!Places
  <2> QED BY <2>2, <2>3, <2>4
<1> QED BY <1>1, <1>2, <1>3, PTL DEF Spec
=============================================================================
