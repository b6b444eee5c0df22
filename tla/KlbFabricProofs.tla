-------------------------- MODULE KlbFabricProofs --------------------------
(***************************************************************************)
(* Theorems about KlbFabric, for every number of flows, paths, slots and   *)
(* ports, every route, timeout and cooldown.                               *)
(***************************************************************************)
EXTENDS KlbFabric, FiniteSetTheorems, SequenceTheorems, WellFoundedInduction, TLAPS

(* HKLB: the list holds each confirmed path once.                          *)
Listed(s) ==
  /\ Range(s.list) = s.confirmed
  /\ Len(s.list) = Cardinality(s.confirmed)
  /\ \A i, j \in 1 .. Len(s.list) : i # j => s.list[i] # s.list[j]

(* HKLB: what is confirmed does not cool down; nothing does without fixes. *)
Rested(s) ==
  /\ ~Fixes => \A p \in Paths : s.quiet[p] = 0
  /\ Algo = "hklb" => \A p \in s.confirmed : s.quiet[p] = 0

(* KLB and SKLB: only path 0 is held twice.                                *)
Spread(s) ==
  Algo # "hklb" /\ K <= N =>
    \A i, j \in Slots : i # j /\ s.slots[i] = s.slots[j] => s.slots[i] = 0

(* The invariant of one sender.                                            *)
Tidy(s) == s \in Sender /\ Listed(s) /\ Rested(s) /\ Spread(s)

-----------------------------------------------------------------------------
(* The constants.                                                          *)

(* There is at least one slot, and a path 0.                               *)
LEMMA KType == K \in Nat \ {0} /\ Slots = 1 .. K /\ 0 \in Paths /\ StreakWrap - 1 \in Nat
BY SenderAssumption DEF K, Slots, Paths

(* Sets of paths are finite.                                               *)
LEMMA PathsFinite ==
  ASSUME NEW A \in SUBSET Paths
  PROVE  IsFiniteSet(A) /\ Cardinality(A) \in Nat
<1>1. IsFiniteSet(Paths)
  BY SenderAssumption, FS_Interval DEF Paths
<1> QED
  BY <1>1, FS_Subset, FS_CardinalityType

(* A non-empty set of naturals has a least element, which Min returns.     *)
LEMMA LeastIn ==
  ASSUME NEW S \in SUBSET Nat, S # {}
  PROVE  Min(S) \in S /\ \A y \in S : Min(S) <= y
<1>1. PICK x \in S : \A y \in S : <<y, x>> \notin OpToRel(<, Nat)
  BY NatLessThanWellFounded, WFMin
<1>2. \A y \in S : x <= y
  <2> SUFFICES ASSUME NEW y \in S, y < x PROVE FALSE
    OBVIOUS
  <2>1. <<y, x>> \in Nat \X Nat
    OBVIOUS
  <2>2. <<y, x>> \in {ss \in Nat \X Nat : ss[1] < ss[2]}
    BY <2>1
  <2> QED
    BY <1>1, <2>2 DEF OpToRel
<1> QED
  BY <1>2 DEF Min

-----------------------------------------------------------------------------
(* What leaves slots, cooldowns and confirmed paths alone.                 *)

(* What the invariant is about does not change.                            *)
Alike(s, t) ==
  /\ t \in Sender
  /\ t.slots = s.slots /\ t.quiet = s.quiet /\ t.confirmed = s.confirmed /\ t.list = s.list

(* Such a step keeps the invariant and what a sender rotates over.         *)
LEMMA AlikeTidy ==
  ASSUME NEW s, NEW t, Tidy(s), Alike(s, t)
  PROVE  Tidy(t) /\ ActivePaths(t) = ActivePaths(s)
BY DEF Tidy, Alike, Listed, Rested, Spread, ActivePaths

(* Every sender startFlow() can produce is tidy.                           *)
LEMMA FreshTidy ==
  ASSUME NEW s \in FreshSenders
  PROVE  Tidy(s)
<1>1. PICK ev \in FirstSlots :
        s = [slots |-> ev, idx |-> 0, streak |-> [i \in Slots |-> 0],
             quiet |-> [p \in Paths |-> 0], confirmed |-> {}, list |-> <<>>,
             pathStreak |-> [p \in Paths |-> 0]]
  BY DEF FreshSenders
<1>2. ev \in [Slots -> Paths]
  BY KType DEF FirstSlots
<1>3. s \in Sender
  <2>1. 0 \in 0 .. K - 1 /\ 0 \in 0 .. StreakWrap - 1 /\ 0 \in 0 .. QuietTime
    BY KType, SenderAssumption
  <2>2. <<>> \in Seq(Paths)
    OBVIOUS
  <2> QED
    BY <1>1, <1>2, <2>1, <2>2 DEF Sender
<1>4. Listed(s)
  <2>1. s.list = <<>> /\ s.confirmed = {}
    BY <1>1
  <2>2. Range(<<>>) = {} /\ Cardinality({}) = 0
    BY FS_EmptySet DEF Range
  <2> QED
    BY <2>1, <2>2 DEF Listed
<1>5. Rested(s)
  BY <1>1 DEF Rested
<1>6. Spread(s)
  <2> SUFFICES ASSUME Algo # "hklb", K <= N, NEW i \in Slots, NEW j \in Slots, i # j
               PROVE  s.slots[i] # s.slots[j]
    BY DEF Spread
  <2>1. s.slots = ev /\ \A a, b \in Slots : a < b /\ b <= N => ev[a] # ev[b]
    BY <1>1 DEF FirstSlots
  <2>2. i \in 1 .. K /\ j \in 1 .. K /\ N \in Nat /\ K \in Nat
    BY KType, SenderAssumption
  <2>3. (i < j /\ j <= N) \/ (j < i /\ i <= N)
    BY <2>2
  <2> QED
    BY <2>1, <2>3
<1> QED
  BY <1>3, <1>4, <1>5, <1>6 DEF Tidy

(* A draw moves the send index, nothing else.                              *)
LEMMA Next1Alike ==
  ASSUME NEW s \in Sender
  PROVE  Alike(s, Next1(s)) /\ Next1(s).idx \in 0 .. K - 1
<1> DEFINE i == (s.idx + 1) % K
<1>1. i \in 0 .. K - 1
  <2>1. s.idx \in Nat /\ K \in Nat \ {0}
    BY KType DEF Sender
  <2> QED
    BY <2>1
<1>2. Next1(s) = [s EXCEPT !.idx = i]
  BY DEF Next1
<1> HIDE DEF i
<1> QED
  BY <1>1, <1>2 DEF Alike, Sender

(* A draw yields a path, one the sender rotates over unless HKLB probes.   *)
LEMMA DrawsTyped ==
  ASSUME NEW s, Tidy(s), NEW p \in Draws(s)
  PROVE  /\ p \in Paths
         /\ (Algo = "hklb" => Steady(s)) => p \in ActivePaths(s)
<1>1. s \in Sender
  BY DEF Tidy
<1>2. CASE Algo # "hklb"
  <2>1. p = s.slots[s.idx + 1]
    BY <1>2 DEF Draws
  <2>2. s.idx \in 0 .. K - 1 /\ s.slots \in [Slots -> Paths]
    BY <1>1 DEF Sender
  <2>3. s.idx + 1 \in Slots
    BY <2>2, KType
  <2> QED
    BY <1>2, <2>1, <2>2, <2>3 DEF ActivePaths, Range
<1>3. CASE Algo = "hklb" /\ ~Steady(s)
  BY <1>3 DEF Draws
<1>4. CASE Algo = "hklb" /\ Steady(s)
  <2>1. p = s.list[Next1(s).idx + 1]
    BY <1>4 DEF Draws
  <2>2. Next1(s).idx + 1 \in 1 .. K
    BY <1>1, Next1Alike, KType
  <2>3. Len(s.list) >= K /\ Len(s.list) \in Nat /\ DOMAIN s.list = 1 .. Len(s.list)
    BY <1>1, <1>4 DEF Steady, Tidy, Listed, Sender
  <2>4. p \in Range(s.list)
    BY <2>1, <2>2, <2>3, KType DEF Range
  <2> QED
    BY <1>1, <1>4, <2>4 DEF Tidy, Listed, ActivePaths, Sender
<1> QED
  BY <1>2, <1>3, <1>4

(* Cooldowns run out.                                                      *)
LEMMA CalmerTidy ==
  ASSUME NEW s, Tidy(s)
  PROVE  /\ Tidy(Calmer(s)) /\ ActivePaths(Calmer(s)) = ActivePaths(s)
         /\ Calmer(s).confirmed = s.confirmed
<1> DEFINE q == [p \in Paths |-> IF s.quiet[p] = 0 THEN 0 ELSE s.quiet[p] - 1]
           t == Calmer(s)
<1>1. t = [s EXCEPT !.quiet = q]
  BY DEF Calmer
<1>2. q \in [Paths -> 0 .. QuietTime]
  <2>1. \A p \in Paths : s.quiet[p] \in 0 .. QuietTime /\ QuietTime \in Nat
    BY SenderAssumption DEF Tidy, Sender
  <2> QED
    BY <2>1
<1>3. \A p \in Paths : s.quiet[p] = 0 => q[p] = 0
  OBVIOUS
<1> HIDE DEF q
<1>4. /\ t \in Sender /\ t.quiet = q /\ t.slots = s.slots
      /\ t.confirmed = s.confirmed /\ t.list = s.list
  BY <1>1, <1>2 DEF Tidy, Sender
<1> HIDE DEF t
<1>5. Tidy(t)
  <2>1. s.confirmed \subseteq Paths
    BY DEF Tidy, Sender
  <2> QED
    BY <1>3, <1>4, <2>1 DEF Tidy, Listed, Rested, Spread
<1> QED
  BY <1>4, <1>5 DEF t, ActivePaths

-----------------------------------------------------------------------------
(* Feedback, KLB and SKLB.                                                 *)

(* SlotOf finds a slot that holds the path.                                *)
LEMMA SlotOfIn ==
  ASSUME NEW s \in Sender, NEW p \in Range(s.slots)
  PROVE  SlotOf(s, p) \in Slots /\ s.slots[SlotOf(s, p)] = p
<1> DEFINE I == {i \in Slots : s.slots[i] = p}
<1>1. s.slots \in [Slots -> Paths] /\ Slots \in SUBSET Nat
  BY KType DEF Sender
<1>2. I # {}
  BY <1>1 DEF Range
<1>3. I \in SUBSET Nat
  BY <1>1
<1>4. Min(I) \in I
  BY <1>2, <1>3, LeastIn
<1> QED
  BY <1>4 DEF SlotOf

(* The streak of a slot is counted or reset.                               *)
LEMMA StreakAlike ==
  ASSUME NEW s \in Sender, NEW i \in Slots
  PROVE  /\ Alike(s, Marked(s, i))
         /\ Alike(s, IF Fixes THEN [s EXCEPT !.streak[i] = 0] ELSE s)
<1> DEFINE n == (s.streak[i] + 1) % StreakWrap
<1>1. n \in 0 .. StreakWrap - 1 /\ 0 \in 0 .. StreakWrap - 1
  <2>1. s.streak[i] \in 0 .. StreakWrap - 1 /\ StreakWrap \in Nat \ {0}
    BY SenderAssumption DEF Sender
  <2>2. s.streak[i] \in Nat
    BY <2>1
  <2> QED
    BY <2>1, <2>2
<1>2. Marked(s, i) = IF Fixes THEN [s EXCEPT !.streak[i] = n] ELSE s
  BY DEF Marked
<1> HIDE DEF n
<1>3. Alike(s, [s EXCEPT !.streak[i] = n]) /\ Alike(s, [s EXCEPT !.streak[i] = 0])
  BY <1>1 DEF Alike, Sender
<1>4. Alike(s, s)
  BY DEF Alike
<1> QED
  BY <1>2, <1>3, <1>4

(* A slot changes its path for one that others do not hold, or for path 0. *)
LEMMA ReplacedTidy ==
  ASSUME NEW s, Tidy(s), Algo # "hklb", NEW i \in Slots, NEW t \in Replaced(s, i)
  PROVE  Tidy(t)
<1> DEFINE cool == IF Fixes THEN [Cooled(s, s.slots[i]) EXCEPT !.streak[i] = 0] ELSE s
<1>1. PICK p \in PickFreshPath(s, i) : t = [cool EXCEPT !.slots[i] = p]
  BY DEF Replaced
<1>2. s \in Sender /\ s.slots[i] \in Paths
  BY DEF Tidy, Sender
<1>3. /\ cool \in Sender /\ cool.slots = s.slots /\ cool.confirmed = s.confirmed
      /\ cool.list = s.list /\ (~Fixes => cool.quiet = s.quiet)
  <2>1. CASE Fixes
    <3>1. 0 \in 0 .. StreakWrap - 1 /\ QuietTime \in 0 .. QuietTime
      BY KType, SenderAssumption
    <3> DEFINE w == Cooled(s, s.slots[i])
    <3>2. w = [s EXCEPT !.quiet[s.slots[i]] = QuietTime]
      BY <2>1 DEF Cooled
    <3>3. cool = [w EXCEPT !.streak[i] = 0]
      BY <2>1
    <3> HIDE DEF w, cool
    <3>4. /\ w \in Sender /\ w.slots = s.slots /\ w.confirmed = s.confirmed
          /\ w.list = s.list
      BY <1>2, <3>1, <3>2 DEF Sender
    <3>5. /\ cool \in Sender /\ cool.slots = w.slots /\ cool.confirmed = w.confirmed
          /\ cool.list = w.list
      BY <3>1, <3>3, <3>4 DEF Sender
    <3> QED
      BY <2>1, <3>4, <3>5
  <2>2. CASE ~Fixes
    BY <1>2, <2>2
  <2> QED
    BY <2>1, <2>2
<1> HIDE DEF cool
<1>4. p \in Paths /\ (K <= N => p = 0 \/ \A j \in Slots \ {i} : s.slots[j] # p)
  <2>1. K \in Nat /\ N \in Nat
    BY KType, SenderAssumption
  <2> QED
    BY <2>1, KType DEF PickFreshPath, Others
<1>5. /\ t \in Sender /\ t.slots = [s.slots EXCEPT ![i] = p] /\ t.confirmed = s.confirmed
      /\ t.list = s.list /\ (~Fixes => t.quiet = s.quiet)
  BY <1>1, <1>3, <1>4 DEF Sender
<1>6. Spread(t)
  <2> SUFFICES ASSUME K <= N, NEW a \in Slots, NEW b \in Slots, a # b, t.slots[a] = t.slots[b]
               PROVE  t.slots[a] = 0
    BY DEF Spread
  <2>1. s.slots \in [Slots -> Paths]
    BY <1>2 DEF Sender
  <2>2. \A c \in Slots : t.slots[c] = IF c = i THEN p ELSE s.slots[c]
    BY <1>5, <2>1
  <2>3. s.slots[a] = s.slots[b] => s.slots[a] = 0
    BY DEF Tidy, Spread
  <2> QED
    BY <1>4, <2>2, <2>3
<1> QED
  BY <1>5, <1>6 DEF Tidy, Listed, Rested

(* Feedback keeps the sender tidy; what says nothing against an active     *)
(* path changes no slot.                                                   *)
LEMMA SlotFeedbackTidy ==
  ASSUME NEW s, Tidy(s), Algo # "hklb", NEW p, NEW fb, NEW t \in SlotFeedback(s, p, fb)
  PROVE  /\ Tidy(t)
         /\ fb # "ecn" \/ p \notin ActivePaths(s) => ActivePaths(t) = ActivePaths(s)
<1>1. s \in Sender /\ ActivePaths(s) = Range(s.slots)
  BY DEF Tidy, ActivePaths
<1>2. CASE p \notin Range(s.slots)
  <2>1. t = s
    BY <1>2 DEF SlotFeedback
  <2> QED
    BY <2>1
<1>3. CASE p \in Range(s.slots)
  <2> DEFINE i == SlotOf(s, p)
             reset == IF Fixes THEN [s EXCEPT !.streak[i] = 0] ELSE s
             u == Marked(s, i)
  <2>1. i \in Slots
    BY <1>1, <1>3, SlotOfIn
  <2>2. Alike(s, reset) /\ Alike(s, u)
    BY <1>1, <2>1, StreakAlike
  <2>3. fb # "ecn" => t = reset
    BY <1>3 DEF SlotFeedback
  <2>4. fb = "ecn" => t = u \/ t \in Replaced(u, i)
    BY <1>3 DEF SlotFeedback
  <2> HIDE DEF i, reset, u
  <2>5. Tidy(u) /\ Tidy(reset) /\ ActivePaths(reset) = ActivePaths(s)
    BY <2>2, AlikeTidy
  <2>6. t \in Replaced(u, i) => Tidy(t)
    BY <2>1, <2>5, ReplacedTidy
  <2> QED
    BY <1>1, <1>3, <2>3, <2>4, <2>5, <2>6
<1> QED
  BY <1>2, <1>3

-----------------------------------------------------------------------------
(* Feedback, HKLB.                                                         *)

(* RemoveFirst takes one occurrence out and closes the gap.                *)
LEMMA RemoveFirstOf ==
  ASSUME NEW L \in Seq(Paths), NEW p \in Range(L)
  PROVE  LET M == RemoveFirst(L, p)
         IN  /\ M \in Seq(Paths) /\ Len(M) = Len(L) - 1
             /\ \E k \in 1 .. Len(L) :
                  L[k] = p /\ \A j \in 1 .. Len(M) : M[j] = IF j < k THEN L[j] ELSE L[j + 1]
<1> DEFINE n == Len(L)
           I == {i \in 1 .. n : L[i] = p}
           k == Min(I)
           A == SubSeq(L, 1, k - 1)
           B == SubSeq(L, k + 1, n)
<1>1. n \in Nat /\ DOMAIN L = 1 .. n /\ \A i \in 1 .. n : L[i] \in Paths
  OBVIOUS
<1>2. I # {} /\ I \in SUBSET Nat
  BY <1>1 DEF Range
<1>3. k \in 1 .. n /\ L[k] = p
  <2>1. k \in I
    BY <1>2, LeastIn
  <2> QED
    BY <2>1
<1>4. RemoveFirst(L, p) = A \o B
  <2>1. SelectInSeq(L, LAMBDA v : v = p) = k
    BY <1>2 DEF SelectInSeq
  <2>2. \E i \in 1 .. Len(L) : L[i] = p
    BY <1>2
  <2>3. RemoveFirst(L, p) = RemoveAt(L, k)
    BY <2>1, <2>2 DEF RemoveFirst
  <2> QED
    BY <2>3 DEF RemoveAt
<1> HIDE DEF k
<1>5. A \in Seq(Paths) /\ Len(A) = k - 1 /\ \A j \in 1 .. k - 1 : A[j] = L[j]
  BY <1>1, <1>3
<1>6. B \in Seq(Paths) /\ Len(B) = n - k /\ \A j \in 1 .. n - k : B[j] = L[j + k]
  <2>1. k + 1 \in Int /\ n \in Int /\ k \in Int /\ k <= n
    BY <1>1, <1>3
  <2>2. \A i \in k + 1 .. n : L[i] \in Paths
    BY <1>1, <1>3
  <2>3. /\ B \in Seq(Paths)
        /\ Len(B) = IF k + 1 <= n THEN n - (k + 1) + 1 ELSE 0
        /\ \A j \in 1 .. n - (k + 1) + 1 : B[j] = L[(k + 1) + j - 1]
    BY <2>1, <2>2, SubSeqProperties
  <2>4. Len(B) = n - k /\ n - (k + 1) + 1 = n - k
    BY <2>1, <2>3
  <2>5. ASSUME NEW j \in 1 .. n - k PROVE B[j] = L[j + k]
    <3>1. (k + 1) + j - 1 = j + k
      BY <2>1
    <3> QED
      BY <2>3, <2>4, <3>1
  <2> QED
    BY <2>3, <2>4, <2>5
<1> HIDE DEF A, B, n
<1>7. A \o B \in Seq(Paths) /\ Len(A \o B) = n - 1
  BY <1>1, <1>3, <1>5, <1>6
<1>8. ASSUME NEW j \in 1 .. n - 1
      PROVE  (A \o B)[j] = IF j < k THEN L[j] ELSE L[j + 1]
  <2>1. CASE j < k
    BY <1>1, <1>3, <1>5, <1>6, <2>1
  <2>2. CASE ~(j < k)
    <3>1. (A \o B)[j] = B[j - (k - 1)] /\ j - (k - 1) \in 1 .. n - k
      BY <1>1, <1>3, <1>5, <1>6, <2>2
    <3>2. B[j - (k - 1)] = L[(j - (k - 1)) + k] /\ (j - (k - 1)) + k = j + 1
      BY <1>1, <1>3, <1>6, <3>1
    <3> QED
      BY <2>2, <3>1, <3>2
  <2> QED
    BY <2>1, <2>2
<1> QED
  BY <1>3, <1>4, <1>7, <1>8 DEF n

(* An evicted path leaves both the set and the list, and cools down.       *)
LEMMA EvictTidy ==
  ASSUME NEW s, Tidy(s), Algo = "hklb", NEW p \in s.confirmed
  PROVE  Tidy(Evict(s, p))
<1> DEFINE t == IF Fixes THEN [Cooled(s, p) EXCEPT !.pathStreak[p] = 0] ELSE s
           L == s.list
           M == RemoveFirst(L, p)
           n == Len(L)
           u == Evict(s, p)
<1>1. s \in Sender /\ p \in Paths /\ L \in Seq(Paths) /\ n \in Nat /\ DOMAIN L = 1 .. n
  BY DEF Tidy, Sender
<1>2. /\ t \in Sender /\ t.slots = s.slots /\ t.confirmed = s.confirmed /\ t.list = L
      /\ IF Fixes THEN \A x \in Paths \ {p} : t.quiet[x] = s.quiet[x] ELSE t.quiet = s.quiet
  <2>1. CASE Fixes
    <3>1. 0 \in 0 .. StreakWrap - 1 /\ QuietTime \in 0 .. QuietTime
      BY KType, SenderAssumption
    <3> DEFINE w == Cooled(s, p)
    <3>2. w = [s EXCEPT !.quiet[p] = QuietTime]
      BY <2>1 DEF Cooled
    <3>3. t = [w EXCEPT !.pathStreak[p] = 0]
      BY <2>1
    <3> HIDE DEF w, t
    <3>4. /\ w \in Sender /\ w.slots = s.slots /\ w.confirmed = s.confirmed /\ w.list = s.list
          /\ \A x \in Paths \ {p} : w.quiet[x] = s.quiet[x]
      BY <1>1, <3>1, <3>2 DEF Sender
    <3>5. /\ t \in Sender /\ t.slots = w.slots /\ t.confirmed = w.confirmed
          /\ t.list = w.list /\ t.quiet = w.quiet
      BY <1>1, <3>1, <3>3, <3>4 DEF Sender
    <3> QED
      BY <2>1, <3>4, <3>5
  <2>2. CASE ~Fixes
    BY <1>1, <2>2
  <2> QED
    BY <2>1, <2>2
<1>3. u = [t EXCEPT !.confirmed = t.confirmed \ {p}, !.list = RemoveFirst(t.list, p)]
  BY DEF Evict
<1> HIDE DEF t
<1>4. p \in Range(L) /\ Range(L) = s.confirmed /\ n = Cardinality(s.confirmed)
      /\ \A i, j \in 1 .. n : i # j => L[i] # L[j]
  BY DEF Tidy, Listed
<1>5. M \in Seq(Paths) /\ Len(M) = n - 1
  BY <1>1, <1>4, RemoveFirstOf
<1>6. PICK k \in 1 .. n : L[k] = p /\ \A j \in 1 .. Len(M) : M[j] = IF j < k THEN L[j] ELSE L[j + 1]
  BY <1>1, <1>4, RemoveFirstOf
<1> HIDE DEF M
<1>7. /\ u \in Sender /\ u.slots = s.slots /\ u.quiet = t.quiet
      /\ u.confirmed = s.confirmed \ {p} /\ u.list = M
  <2>1. u = [t EXCEPT !.confirmed = s.confirmed \ {p}, !.list = M]
    BY <1>2, <1>3 DEF M
  <2>2. s.confirmed \ {p} \in SUBSET Paths
    BY <1>1 DEF Sender
  <2> QED
    BY <1>2, <1>5, <2>1, <2>2 DEF Sender
<1> HIDE DEF u
<1>8. Range(M) = s.confirmed \ {p}
  <2> HIDE DEF L, n
  <2>1. DOMAIN M = 1 .. n - 1
    BY <1>5
  <2>2. ASSUME NEW x \in Range(M) PROVE x \in s.confirmed \ {p}
    <3>1. PICK j \in 1 .. n - 1 : x = M[j]
      BY <2>1, <2>2 DEF Range
    <3>2. PICK i \in 1 .. n : i # k /\ x = L[i]
      <4>1. CASE j < k
        BY <1>1, <1>5, <1>6, <3>1, <4>1
      <4>2. CASE ~(j < k)
        <5>1. j + 1 \in 1 .. n /\ j + 1 # k /\ x = L[j + 1]
          BY <1>1, <1>5, <1>6, <3>1, <4>2
        <5> QED
          BY <5>1
      <4> QED
        BY <4>1, <4>2
    <3>3. x # p
      BY <1>4, <1>6, <3>2
    <3> QED
      BY <1>1, <1>4, <3>2, <3>3 DEF Range
  <2>3. ASSUME NEW x \in s.confirmed \ {p} PROVE x \in Range(M)
    <3>1. PICK i \in 1 .. n : x = L[i]
      BY <1>1, <1>4, <2>3 DEF Range
    <3>2. i # k
      BY <1>6, <2>3, <3>1
    <3>3. PICK j \in 1 .. n - 1 : x = M[j]
      <4>1. CASE i < k
        BY <1>1, <1>5, <1>6, <3>1, <4>1
      <4>2. CASE ~(i < k)
        <5>1. i - 1 \in 1 .. n - 1 /\ ~(i - 1 < k) /\ (i - 1) + 1 = i
          BY <1>1, <3>2, <4>2
        <5>2. M[i - 1] = L[i]
          BY <1>5, <1>6, <5>1
        <5> QED
          BY <3>1, <5>1, <5>2
      <4> QED
        BY <4>1, <4>2
    <3> QED
      BY <2>1, <3>3 DEF Range
  <2> QED
    BY <2>2, <2>3
<1>9. Len(M) = Cardinality(s.confirmed \ {p})
  <2>1. IsFiniteSet(s.confirmed) /\ Cardinality(s.confirmed) \in Nat
    BY <1>1, PathsFinite DEF Sender
  <2> QED
    BY <1>4, <1>5, <2>1, FS_RemoveElement
<1>10. \A i, j \in 1 .. Len(M) : i # j => M[i] # M[j]
  <2> HIDE DEF L, n
  <2> TAKE i, j \in 1 .. Len(M)
  <2> DEFINE at(x) == IF x < k THEN x ELSE x + 1
  <2>1. at(i) \in 1 .. n /\ at(j) \in 1 .. n /\ (i # j => at(i) # at(j))
    BY <1>1, <1>5
  <2>2. M[i] = L[at(i)] /\ M[j] = L[at(j)]
    BY <1>6
  <2> QED
    BY <1>4, <2>1, <2>2
<1>11. Listed(u)
  BY <1>7, <1>8, <1>9, <1>10 DEF Listed
<1>12. Rested(u)
  BY <1>1, <1>2, <1>7 DEF Tidy, Rested, Sender
<1> QED
  BY <1>7, <1>11, <1>12 DEF Tidy, Spread, u

(* A path confirmed anew was in neither the set nor the list, and has      *)
(* cooled down.                                                            *)
LEMMA ConfirmTidy ==
  ASSUME NEW s, Tidy(s), NEW p \in Paths, MayConfirm(s, p)
  PROVE  Tidy(Confirm(s, p))
<1> DEFINE L == s.list
           M == Append(L, p)
           n == Len(L)
           u == Confirm(s, p)
<1>1. s \in Sender /\ L \in Seq(Paths) /\ n \in Nat /\ DOMAIN L = 1 .. n /\ s.confirmed \in SUBSET Paths
  BY DEF Tidy, Sender
<1>2. M \in Seq(Paths) /\ Len(M) = n + 1 /\ M[n + 1] = p /\ \A i \in 1 .. n : M[i] = L[i]
  BY <1>1, AppendProperties
<1>3. Range(L) = s.confirmed /\ n = Cardinality(s.confirmed)
      /\ \A i, j \in 1 .. n : i # j => L[i] # L[j]
  BY DEF Tidy, Listed
<1>4. p \notin s.confirmed
  BY DEF MayConfirm
<1>5. u = [s EXCEPT !.confirmed = s.confirmed \cup {p}, !.list = M]
  BY DEF Confirm
<1> HIDE DEF M
<1>6. /\ u \in Sender /\ u.slots = s.slots /\ u.quiet = s.quiet
      /\ u.confirmed = s.confirmed \cup {p} /\ u.list = M
  <2>1. s.confirmed \cup {p} \in SUBSET Paths
    BY <1>1
  <2> QED
    BY <1>1, <1>2, <1>5, <2>1 DEF Sender
<1> HIDE DEF u, L, n
<1>7. DOMAIN M = 1 .. n + 1
  BY <1>2
<1>8. Range(M) = s.confirmed \cup {p}
  <2>1. ASSUME NEW x \in Range(M) PROVE x \in s.confirmed \cup {p}
    <3>1. PICK i \in 1 .. n + 1 : x = M[i]
      BY <1>7, <2>1 DEF Range
    <3>2. i = n + 1 \/ i \in 1 .. n
      BY <1>1
    <3> QED
      BY <1>1, <1>2, <1>3, <3>1, <3>2 DEF Range
  <2>2. ASSUME NEW x \in s.confirmed PROVE x \in Range(M)
    <3>1. PICK i \in 1 .. n : x = L[i]
      BY <1>1, <1>3, <2>2 DEF Range
    <3> QED
      BY <1>1, <1>2, <1>7, <3>1 DEF Range
  <2>3. p \in Range(M)
    BY <1>1, <1>2, <1>7 DEF Range
  <2> QED
    BY <2>1, <2>2, <2>3
<1>9. Len(M) = Cardinality(s.confirmed \cup {p})
  <2>1. IsFiniteSet(s.confirmed)
    BY <1>1, PathsFinite
  <2> QED
    BY <1>2, <1>3, <1>4, <2>1, FS_AddElement
<1>10. \A i, j \in 1 .. Len(M) : i # j => M[i] # M[j]
  <2>1. \A i \in 1 .. n : M[i] # p
    BY <1>1, <1>2, <1>3, <1>4 DEF Range
  <2> QED
    BY <1>1, <1>2, <1>3, <2>1
<1>11. Rested(u)
  BY <1>6 DEF Tidy, Rested, MayConfirm
<1>12. Listed(u) /\ Spread(u)
  BY <1>6, <1>8, <1>9, <1>10 DEF Listed, Tidy, Spread
<1> QED
  BY <1>6, <1>11, <1>12 DEF Tidy, u

(* Feedback keeps the sender tidy; what says nothing against an active     *)
(* path changes no path of a sender that has found all of them.            *)
LEMMA ConfirmedFeedbackTidy ==
  ASSUME NEW s, Tidy(s), Algo = "hklb", NEW p \in Paths, NEW fb,
         NEW t \in ConfirmedFeedback(s, p, fb)
  PROVE  /\ Tidy(t)
         /\ Steady(s) /\ (fb = "good" \/ p \notin ActivePaths(s)) => t.confirmed = s.confirmed
<1> DEFINE n == (s.pathStreak[p] + 1) % StreakWrap
           clean  == IF Fixes THEN [s EXCEPT !.pathStreak[p] = 0] ELSE s
           marked == IF Fixes THEN [s EXCEPT !.pathStreak[p] = n] ELSE s
<1>1. s \in Sender
  BY DEF Tidy
<1>2. Alike(s, clean) /\ Alike(s, marked)
  <2>1. n \in 0 .. StreakWrap - 1 /\ 0 \in 0 .. StreakWrap - 1
    <3>1. s.pathStreak[p] \in 0 .. StreakWrap - 1 /\ StreakWrap \in Nat \ {0}
      BY <1>1, SenderAssumption DEF Sender
    <3>2. s.pathStreak[p] \in Nat
      BY <3>1
    <3> QED
      BY <3>1, <3>2
  <2> HIDE DEF n
  <2> QED
    BY <1>1, <2>1 DEF Alike, Sender
<1>3. \/ fb = "good" /\ t = IF MayConfirm(clean, p) THEN Confirm(clean, p) ELSE clean
      \/ fb # "good" /\ p \notin s.confirmed /\ t = s
      \/ fb # "good" /\ p \in s.confirmed /\ (t = Evict(s, p) \/ t = marked \/ t = Evict(marked, p))
  BY Zenon DEF ConfirmedFeedback
<1> HIDE DEF clean, marked
<1>4. Tidy(clean) /\ Tidy(marked) /\ clean.confirmed = s.confirmed /\ marked.confirmed = s.confirmed
  BY <1>2, AlikeTidy DEF Alike
<1>5. CASE fb = "good"
  <2>1. Steady(s) => ~MayConfirm(clean, p)
    BY <1>4 DEF MayConfirm, Steady
  <2> QED
    BY <1>3, <1>4, <1>5, <2>1, ConfirmTidy
<1>6. CASE fb # "good" /\ p \notin s.confirmed
  BY <1>3, <1>6
<1>7. CASE fb # "good" /\ p \in s.confirmed
  <2>1. p \in ActivePaths(s)
    BY <1>7 DEF ActivePaths
  <2>2. Tidy(Evict(s, p)) /\ Tidy(Evict(marked, p))
    BY <1>4, <1>7, EvictTidy
  <2> QED
    BY <1>3, <1>4, <1>7, <2>1, <2>2
<1> QED
  BY <1>5, <1>6, <1>7

(* Any feedback, of any of the three balancers.                            *)
LEMMA ProcessEvTidy ==
  ASSUME NEW s, Tidy(s), NEW p \in Paths, NEW fb, NEW t \in ProcessEv(s, p, fb)
  PROVE  /\ Tidy(t)
         /\ /\ Algo = "hklb" => Steady(s)
            /\ fb = "good" \/ p \notin ActivePaths(s)
            => ActivePaths(t) = ActivePaths(s) /\ (Algo = "hklb" => Steady(t))
<1>1. CASE Algo = "hklb"
  <2>1. t \in ConfirmedFeedback(s, p, fb)
    BY <1>1 DEF ProcessEv
  <2> QED
    BY <1>1, <2>1, ConfirmedFeedbackTidy DEF Steady, ActivePaths
<1>2. CASE Algo # "hklb"
  <2>1. t \in SlotFeedback(s, p, fb)
    BY <1>2 DEF ProcessEv
  <2> QED
    BY <1>2, <2>1, SlotFeedbackTidy
<1> QED
  BY <1>1, <1>2

-----------------------------------------------------------------------------
(* Tables and bags.                                                        *)

Keys == Flows \X Paths

(* A table is a function from sub-flows to ages.                           *)
LEMMA TableType ==
  ASSUME NEW t
  PROVE  t \in Tables <=> /\ Incumbents(t) \in SUBSET Keys
                          /\ t \in [Incumbents(t) -> Ages]
BY DEF Tables, Incumbents, Keys

(* A packet of an incumbent changes nobody's place; no newcomer displaces  *)
(* one that was heard from within the timeout.                             *)
LEMMA ArrivalType ==
  ASSUME NEW t \in Tables, NEW key \in Keys
  PROVE  /\ Arrival(t, key) \in Tables
         /\ Fresh(t) \subseteq Incumbents(Arrival(t, key))
         /\ key \in Incumbents(t) =>
              Incumbents(Arrival(t, key)) = Incumbents(t) /\ Admitted(t, key)
<1> DEFINE kept == EvictExpired(t)
<1>1. Incumbents(t) \in SUBSET Keys /\ \A x \in Incumbents(t) : t[x] \in Ages
  BY TableType
<1>2. 0 \in Ages
  BY TableAssumption DEF Ages
<1>3. kept = [x \in Fresh(t) |-> t[x]] /\ Incumbents(kept) = Fresh(t) /\ Fresh(t) \subseteq Incumbents(t)
  BY DEF EvictExpired, Restrict, Incumbents, Fresh
<1>4. kept \in Tables
  BY <1>1, <1>3, TableType
<1>5. ASSUME NEW u \in Tables
      PROVE  Seen(u, key) \in Tables /\ Incumbents(Seen(u, key)) = Incumbents(u) \cup {key}
  <2>1. Incumbents(u) \in SUBSET Keys /\ \A x \in Incumbents(u) : u[x] \in Ages
    BY <1>5, TableType
  <2>2. Incumbents(Seen(u, key)) = Incumbents(u) \cup {key}
    BY DEF Seen, Incumbents
  <2>3. Seen(u, key) \in [Incumbents(u) \cup {key} -> Ages]
    BY <1>2, <2>1 DEF Seen
  <2> QED
    BY <2>1, <2>2, <2>3, TableType
<1> HIDE DEF kept
<1>6. Arrival(t, key) = IF key \in Incumbents(t) THEN Seen(t, key)
                        ELSE IF HasRoom(kept) THEN Seen(kept, key) ELSE kept
  BY DEF Arrival, kept
<1>7. CASE key \in Incumbents(t)
  <2>1. Arrival(t, key) = Seen(t, key) /\ Incumbents(t) \cup {key} = Incumbents(t)
    BY <1>6, <1>7
  <2> QED
    BY <1>3, <1>5, <1>7, <2>1 DEF Admitted
<1>8. CASE key \notin Incumbents(t)
  BY <1>3, <1>4, <1>5, <1>6, <1>8
<1> QED
  BY <1>7, <1>8

(* Time evicts nobody.                                                     *)
LEMMA OlderType ==
  ASSUME NEW t \in Tables
  PROVE  Older(t) \in Tables /\ Incumbents(Older(t)) = Incumbents(t)
<1>1. Incumbents(t) \in SUBSET Keys /\ \A x \in Incumbents(t) : t[x] \in Ages
  BY TableType
<1>2. Incumbents(Older(t)) = Incumbents(t)
  BY DEF Older, Incumbents
<1>3. \A a \in Ages : (IF a > Idle THEN a ELSE a + 1) \in Ages
  BY TableAssumption DEF Ages
<1>4. Older(t) \in [Incumbents(t) -> Ages]
  BY <1>1, <1>3 DEF Older
<1> QED
  BY <1>1, <1>2, <1>4, TableType

(* A bag gains or loses one element.                                       *)
LEMMA BagType ==
  ASSUME NEW S, NEW b, BagOf(b, S), NEW x \in S
  PROVE  /\ BagOf(b (+) One(x), S) /\ BagToSet(b (+) One(x)) = BagToSet(b) \cup {x}
         /\ BagOf(b (-) One(x), S) /\ BagToSet(b (-) One(x)) \subseteq BagToSet(b)
<1> DEFINE B == One(x)
<1>1. BagToSet(B) = {x} /\ B[x] = 1
  BY DEF One, SetToBag, BagToSet
<1> HIDE DEF B
<1>2. BagOf(b (+) B, S) /\ BagToSet(b (+) B) = BagToSet(b) \cup {x}
  BY <1>1 DEF BagOf, (+), BagToSet
<1>3. BagOf(b (-) B, S) /\ BagToSet(b (-) B) \subseteq BagToSet(b)
  BY <1>1 DEF BagOf, (-), BagToSet
<1> QED
  BY <1>2, <1>3 DEF B

(* A packet that has not arrived is at a port of its route.                *)
LEMMA RouteType ==
  ASSUME NEW pkt \in Packets
  PROVE  /\ Key(pkt) \in Keys
         /\ ~Arrived(pkt) => PortOf(pkt) \in Ports /\ pkt.hop \in 1 .. Len(RouteOf(pkt))
<1>1. pkt.flow \in Flows /\ pkt.ev \in Paths /\ pkt.hop \in Nat \ {0}
  BY DEF Packets
<1>2. RouteOf(pkt) \in Seq(Ports)
  BY <1>1, FabricAssumption DEF RouteOf
<1>3. ~Arrived(pkt) => pkt.hop \in 1 .. Len(RouteOf(pkt))
  BY <1>1, <1>2 DEF Arrived
<1> QED
  BY <1>1, <1>2, <1>3 DEF PortOf, Key, Keys

-----------------------------------------------------------------------------
(* The inductive invariant: every sender is tidy, everything has its type. *)
FabricInv ==
  /\ src \in [Flows -> Sender] /\ \A f \in Flows : Tidy(src[f])
  /\ table \in [Ports -> Tables]
  /\ BagOf(wire, Packets) /\ BagOf(lost, Packets) /\ BagOf(back, Answers)

(* The invariant holds at first.                                           *)
LEMMA InitInv == Init => FabricInv
<1> SUFFICES ASSUME Init PROVE FabricInv
  OBVIOUS
<1>1. \A f \in Flows : Tidy(src[f])
  BY FreshTidy DEF Init
<1>2. src \in [Flows -> Sender]
  BY <1>1 DEF Init, Tidy
<1>3. EmptyTable \in Tables
  BY TableType DEF EmptyTable, Incumbents
<1>4. \A S : BagOf(EmptyBag, S)
  BY DEF BagOf, EmptyBag, SetToBag, BagToSet
<1> QED
  BY <1>1, <1>2, <1>3, <1>4 DEF Init, FabricInv

(* One sender changes.                                                     *)
LEMMA OneSender ==
  ASSUME FabricInv, NEW f \in Flows, NEW t, Tidy(t), src' = [src EXCEPT ![f] = t]
  PROVE  /\ src' \in [Flows -> Sender] /\ \A g \in Flows : Tidy(src'[g])
         /\ \A g \in Flows : src'[g] = IF g = f THEN t ELSE src[g]
BY DEF FabricInv, Tidy

(* One table changes.                                                      *)
LEMMA OneTable ==
  ASSUME FabricInv, NEW pkt \in Packets, ~Arrived(pkt),
         table' = [table EXCEPT ![PortOf(pkt)] = Arrival(table[PortOf(pkt)], Key(pkt))]
  PROVE  /\ table' \in [Ports -> Tables]
         /\ \A q \in Ports : Fresh(table[q]) \subseteq Incumbents(table'[q])
         /\ Key(pkt) \in Incumbents(table[PortOf(pkt)]) =>
              \A q \in Ports : Incumbents(table'[q]) = Incumbents(table[q])
<1> DEFINE r == PortOf(pkt)
           u == Arrival(table[r], Key(pkt))
<1>1. r \in Ports /\ Key(pkt) \in Keys /\ table \in [Ports -> Tables]
  BY RouteType DEF FabricInv
<1>2. /\ u \in Tables /\ Fresh(table[r]) \subseteq Incumbents(u)
      /\ Key(pkt) \in Incumbents(table[r]) => Incumbents(u) = Incumbents(table[r])
  BY <1>1, ArrivalType
<1>3. table' = [table EXCEPT ![r] = u]
  OBVIOUS
<1> HIDE DEF u, r
<1>4. table' \in [Ports -> Tables] /\ \A q \in Ports : table'[q] = IF q = r THEN u ELSE table[q]
  BY <1>1, <1>2, <1>3
<1>5. \A q \in Ports : Fresh(table[q]) \subseteq Incumbents(table[q])
  BY DEF Fresh
<1> QED
  BY <1>2, <1>4, <1>5 DEF r

(* A sender launches a packet, data or RTS, on the path its balancer       *)
(* draws: senders stay tidy, the wire keeps its type, and a settled        *)
(* balancer draws an active path and stays where it is.                    *)
LEMMA LaunchInv ==
  ASSUME FabricInv, NEW f \in Flows, NEW isRts \in BOOLEAN, NEW p \in Draws(src[f]),
         wire' = wire (+) One(Launched(f, p, isRts)),
         src' = [src EXCEPT ![f] = Next1(src[f])]
  PROVE  /\ src' \in [Flows -> Sender] /\ \A g \in Flows : Tidy(src'[g])
         /\ BagOf(wire', Packets)
         /\ \A g \in Flows : /\ ActivePaths(src'[g]) = ActivePaths(src[g])
                             /\ src'[g].confirmed = src[g].confirmed
         /\ BagToSet(wire') = BagToSet(wire) \cup {Launched(f, p, isRts)}
         /\ (Algo = "hklb" => Steady(src[f])) => p \in ActivePaths(src[f])
<1>1. Tidy(src[f]) /\ src[f] \in Sender /\ BagOf(wire, Packets)
  BY DEF FabricInv, Tidy
<1>2. p \in Paths /\ ((Algo = "hklb" => Steady(src[f])) => p \in ActivePaths(src[f]))
  BY <1>1, DrawsTyped
<1>3. Launched(f, p, isRts) \in Packets
  BY <1>2 DEF Packets, Launched
<1>4. BagOf(wire', Packets) /\ BagToSet(wire') = BagToSet(wire) \cup {Launched(f, p, isRts)}
  BY <1>1, <1>3, BagType
<1>5. /\ Tidy(Next1(src[f])) /\ ActivePaths(Next1(src[f])) = ActivePaths(src[f])
      /\ Next1(src[f]).confirmed = src[f].confirmed
  BY <1>1, Next1Alike, AlikeTidy DEF Alike
<1>6. /\ src' \in [Flows -> Sender] /\ \A g \in Flows : Tidy(src'[g])
      /\ \A g \in Flows : src'[g] = IF g = f THEN Next1(src[f]) ELSE src[g]
  BY <1>5, OneSender
<1> QED
  BY <1>2, <1>4, <1>5, <1>6

(* A draw keeps the invariant.                                             *)
LEMMA SendInv ==
  ASSUME FabricInv, NEW f \in Flows, Send(f)
  PROVE  FabricInv'
<1>1. PICK p \in Draws(src[f]) : wire' = wire (+) One(Launched(f, p, FALSE))
  BY DEF Send
<1>2. src' = [src EXCEPT ![f] = Next1(src[f])]
  BY Zenon DEF Send
<1>3. FALSE \in BOOLEAN
  OBVIOUS
<1>4. BagOf(wire', Packets) /\ src' \in [Flows -> Sender] /\ \A g \in Flows : Tidy(src'[g])
  BY <1>1, <1>2, <1>3, LaunchInv
<1> QED
  BY <1>4 DEF FabricInv, Send

(* A packet that crosses a port is one hop further, marked or not.         *)
LEMMA CrossedType ==
  ASSUME NEW pkt \in Packets, NEW m \in BOOLEAN
  PROVE  LET next == [pkt EXCEPT !.hop = @ + 1, !.ecn = m]
         IN  /\ next \in Packets /\ next.flow = pkt.flow /\ next.ev = pkt.ev
             /\ next.ecn = m /\ next.rts = pkt.rts
<1> DEFINE n == pkt.hop + 1
<1>1. n \in Nat \ {0}
  BY DEF Packets
<1> HIDE DEF n
<1>2. LET next == [pkt EXCEPT !.hop = n, !.ecn = m]
      IN  /\ next \in Packets /\ next.flow = pkt.flow /\ next.ev = pkt.ev
          /\ next.ecn = m /\ next.rts = pkt.rts
  BY <1>1 DEF Packets
<1> QED
  BY <1>2 DEF n

(* An untracked packet that crosses a port changes nothing but the wire.   *)
LEMMA UntrackedType ==
  ASSUME FabricInv, NEW pkt \in BagToSet(wire), CrossUntracked(pkt)
  PROVE  /\ BagOf(wire', Packets)
         /\ \A x \in BagToSet(wire') :
              x \in BagToSet(wire) \/ (x.flow = pkt.flow /\ x.rts = pkt.rts)
<1>1. pkt \in Packets /\ BagOf(wire, Packets)
  BY DEF FabricInv, BagOf
<1>2. PICK m \in UntrackedMarks(pkt) :
        wire' = wire (-) One(pkt) (+) One([pkt EXCEPT !.hop = @ + 1, !.ecn = m])
  BY DEF CrossUntracked
<1>3. m \in BOOLEAN
  BY DEF UntrackedMarks
<1> DEFINE next == [pkt EXCEPT !.hop = @ + 1, !.ecn = m]
<1>4. next \in Packets /\ next.flow = pkt.flow /\ next.rts = pkt.rts
  BY <1>1, <1>3, CrossedType
<1>5. wire' = wire (-) One(pkt) (+) One(next)
  BY <1>2
<1> HIDE DEF next
<1>6. BagOf(wire (-) One(pkt), Packets) /\ BagToSet(wire (-) One(pkt)) \subseteq BagToSet(wire)
  BY <1>1, BagType
<1>7. BagOf(wire', Packets) /\ BagToSet(wire') \subseteq BagToSet(wire) \cup {next}
  BY <1>4, <1>5, <1>6, BagType
<1> QED
  BY <1>4, <1>7

(* What happens to a packet keeps the invariant.                           *)
LEMMA OnWireInv ==
  ASSUME FabricInv, NEW pkt \in BagToSet(wire), OnWire(pkt)
  PROVE  FabricInv'
<1>1. pkt \in Packets /\ BagOf(wire, Packets) /\ BagOf(lost, Packets) /\ BagOf(back, Answers)
  BY DEF FabricInv, BagOf
<1>2. BagOf(wire (-) One(pkt), Packets) /\ BagOf(lost (+) One(pkt), Packets)
  BY <1>1, BagType
<1>3. pkt.flow \in Flows /\ pkt.ev \in Paths /\ pkt.ecn \in BOOLEAN
  BY <1>1 DEF Packets
<1>4. CASE CrossStateful(pkt)
  <2> DEFINE t == table[PortOf(pkt)]
  <2>1. PICK m \in Marks(t, Key(pkt)) :
          wire' = wire (-) One(pkt) (+) One([pkt EXCEPT !.hop = @ + 1, !.ecn = m])
    BY <1>4 DEF CrossStateful
  <2>2. m \in BOOLEAN
    BY DEF Marks, Admitted
  <2>3. BagOf(wire', Packets)
    BY <1>1, <1>2, <2>1, <2>2, CrossedType, BagType
  <2>4. table' \in [Ports -> Tables]
    BY <1>1, <1>4, OneTable DEF CrossStateful
  <2> QED
    BY <1>4, <2>3, <2>4 DEF CrossStateful, FabricInv
<1>5. CASE DropStateful(pkt)
  <2>1. table' \in [Ports -> Tables]
    BY <1>1, <1>5, OneTable DEF DropStateful
  <2> QED
    BY <1>2, <1>5, <2>1 DEF DropStateful, FabricInv
<1>6. CASE CrossUntracked(pkt)
  BY <1>6, UntrackedType DEF CrossUntracked, FabricInv
<1>7. CASE DropUntracked(pkt)
  BY <1>2, <1>7 DEF DropUntracked, FabricInv
<1>8. CASE TrimComposite(pkt)
  <2>1. [flow |-> pkt.flow, ev |-> pkt.ev, fb |-> "nack"] \in Answers
    BY <1>3 DEF Answers
  <2>2. BagOf(back', Answers)
    BY <1>1, <1>8, <2>1, BagType DEF TrimComposite
  <2> QED
    BY <1>2, <1>8, <2>2 DEF TrimComposite, FabricInv
<1>9. CASE Deliver(pkt)
  <2>1. [flow |-> pkt.flow, ev |-> pkt.ev, fb |-> IF pkt.ecn THEN "ecn" ELSE "good"] \in Answers
    BY <1>3 DEF Answers
  <2>2. BagOf(back', Answers)
    BY <1>1, <1>9, <2>1, BagType DEF Deliver
  <2> QED
    BY <1>2, <1>9, <2>2 DEF Deliver, FabricInv
<1>10. CASE Absorb(pkt)
  BY <1>2, <1>10 DEF Absorb, FabricInv
<1> QED
  BY <1>4, <1>5, <1>6, <1>7, <1>8, <1>9, <1>10 DEF OnWire

(* Feedback keeps the invariant.                                           *)
LEMMA AnswerInv ==
  ASSUME FabricInv, NEW a \in BagToSet(back), Hear(a) \/ LoseAnswer(a)
  PROVE  FabricInv'
<1>1. a \in Answers /\ BagOf(back, Answers)
  BY DEF FabricInv, BagOf
<1>2. BagOf(back (-) One(a), Answers)
  BY <1>1, BagType
<1>3. a.flow \in Flows /\ a.ev \in Paths
  BY <1>1 DEF Answers
<1>4. CASE Hear(a)
  <2>1. PICK t \in ProcessEv(src[a.flow], a.ev, a.fb) : src' = [src EXCEPT ![a.flow] = t]
    BY <1>4 DEF Hear
  <2>2. Tidy(t)
    BY <1>3, ProcessEvTidy DEF FabricInv
  <2>3. src' \in [Flows -> Sender] /\ \A g \in Flows : Tidy(src'[g])
    BY <1>3, <2>1, <2>2, OneSender
  <2> QED
    BY <1>2, <1>4, <2>3 DEF Hear, FabricInv
<1>5. CASE LoseAnswer(a)
  BY <1>2, <1>5 DEF LoseAnswer, FabricInv
<1> QED
  BY <1>4, <1>5

(* A timeout keeps the invariant and moves no balancer, and all it may     *)
(* put on the wire is an RTS.                                              *)
LEMMA ExpireInv ==
  ASSUME FabricInv, NEW pkt \in BagToSet(lost), Expire(pkt)
  PROVE  /\ FabricInv'
         /\ \A g \in Flows : /\ ActivePaths(src'[g]) = ActivePaths(src[g])
                             /\ src'[g].confirmed = src[g].confirmed
         /\ \A x \in BagToSet(wire') : x \in BagToSet(wire) \/ (x.flow \in Flows /\ x.rts)
<1> DEFINE f == pkt.flow
<1>1. pkt \in Packets /\ f \in Flows /\ BagOf(lost, Packets)
  BY DEF FabricInv, BagOf, Packets
<1>2. BagOf(lost', Packets) /\ table' = table /\ back' = back
  BY <1>1, BagType DEF Expire
<1>3. \/ src' = [src EXCEPT ![f] = src[f]] /\ wire' = wire
      \/ /\ src' = [src EXCEPT ![f] = Next1(src[f])]
         /\ \E p \in Draws(src[f]) : wire' = wire (+) One(Launched(f, p, TRUE))
  BY DEF Expire, ProcessTimeout
<1> HIDE DEF f
<1>4. CASE src' = [src EXCEPT ![f] = src[f]] /\ wire' = wire
  <2>1. src' = src
    BY <1>4 DEF FabricInv
  <2> QED
    BY <1>2, <1>4, <2>1 DEF FabricInv
<1>5. CASE /\ src' = [src EXCEPT ![f] = Next1(src[f])]
           /\ \E p \in Draws(src[f]) : wire' = wire (+) One(Launched(f, p, TRUE))
  <2>1. PICK p \in Draws(src[f]) : wire' = wire (+) One(Launched(f, p, TRUE))
    BY <1>5
  <2>2. TRUE \in BOOLEAN
    OBVIOUS
  <2>3. /\ src' \in [Flows -> Sender] /\ \A g \in Flows : Tidy(src'[g])
        /\ BagOf(wire', Packets)
        /\ \A g \in Flows : /\ ActivePaths(src'[g]) = ActivePaths(src[g])
                            /\ src'[g].confirmed = src[g].confirmed
        /\ BagToSet(wire') = BagToSet(wire) \cup {Launched(f, p, TRUE)}
    BY <1>1, <1>5, <2>1, <2>2, LaunchInv
  <2>4. Launched(f, p, TRUE).flow = f /\ Launched(f, p, TRUE).rts
    BY DEF Launched
  <2> QED
    BY <1>1, <1>2, <2>3, <2>4 DEF FabricInv
<1> QED
  BY <1>3, <1>4, <1>5

(* Time keeps the invariant, and moves nobody.                             *)
LEMMA TickInv ==
  ASSUME FabricInv, Tick
  PROVE  /\ FabricInv'
         /\ \A f \in Flows : /\ ActivePaths(src'[f]) = ActivePaths(src[f])
                             /\ src'[f].confirmed = src[f].confirmed
         /\ \A q \in Ports : Incumbents(table'[q]) = Incumbents(table[q])
<1>1. \A f \in Flows : /\ Tidy(src'[f]) /\ ActivePaths(src'[f]) = ActivePaths(src[f])
                       /\ src'[f].confirmed = src[f].confirmed
  BY CalmerTidy DEF Tick, FabricInv
<1>2. src' \in [Flows -> Sender]
  BY <1>1 DEF Tick, Tidy
<1>3. \A q \in Ports : table'[q] \in Tables /\ Incumbents(table'[q]) = Incumbents(table[q])
  BY OlderType DEF Tick, FabricInv
<1>4. table' \in [Ports -> Tables]
  BY <1>3 DEF Tick
<1> QED
  BY <1>1, <1>2, <1>3, <1>4 DEF Tick, FabricInv

(* Every step keeps the invariant.                                         *)
LEMMA NextInv == FabricInv /\ [Next]_vars => FabricInv'
<1> SUFFICES ASSUME FabricInv, [Next]_vars PROVE FabricInv'
  OBVIOUS
<1>1. CASE UNCHANGED vars
  BY <1>1 DEF vars, FabricInv
<1> QED
  BY <1>1, SendInv, OnWireInv, AnswerInv, ExpireInv, TickInv DEF Next

(* Every sender is tidy in every reachable state.                          *)
THEOREM FabricInvariant == Spec => []FabricInv
<1>1. Init => FabricInv
  BY InitInv
<1>2. FabricInv /\ [Next]_vars => FabricInv'
  BY NextInv
<1> QED
  BY <1>1, <1>2, PTL DEF Spec

(* Every variable keeps its type: no draw reaches past the end of HKLB's   *)
(* list, no streak or cooldown leaves its range.                           *)
THEOREM TypeCorrect == Spec => []TypeOK
<1>1. FabricInv => TypeOK
  BY DEF FabricInv, TypeOK
<1> QED
  BY <1>1, FabricInvariant, PTL

(* klb_pick_fresh_path() lets two slots hold one path only when it falls   *)
(* back to path 0.                                                         *)
THEOREM DuplicatesHold == Spec => []DuplicatesArePathZero
<1>1. FabricInv => DuplicatesArePathZero
  BY DEF FabricInv, Tidy, Spread, DuplicatesArePathZero
<1> QED
  BY <1>1, FabricInvariant, PTL

(* HKLB's list is its set, each path once: the rotation is fair.           *)
THEOREM ListHolds == Spec => []ListMatchesSet
<1>1. FabricInv => ListMatchesSet
  BY DEF FabricInv, Tidy, Listed, ListMatchesSet
<1> QED
  BY <1>1, FabricInvariant, PTL

(* HKLB never rotates over a path that cools down.                         *)
THEOREM RestHolds == Spec => []ConfirmedNotQuiet
<1>1. FabricInv => ConfirmedNotQuiet
  BY DEF FabricInv, Tidy, Rested, ConfirmedNotQuiet
<1> QED
  BY <1>1, FabricInvariant, PTL

-----------------------------------------------------------------------------
(* A settled fabric stays settled.                                         *)

(* It does when no balancer moves, no incumbent loses its slot, and what   *)
(* travels stays harmless.                                                 *)
LEMMA StaysSettled ==
  ASSUME FabricInv, Settled,
         \A f \in Flows : /\ ActivePaths(src'[f]) = ActivePaths(src[f])
                          /\ Algo = "hklb" => Steady(src'[f]),
         \A q \in Ports : Incumbents(table[q]) \subseteq Incumbents(table'[q]),
         \A pkt \in BagToSet(wire') : pkt.flow \in Flows /\ InPlace(pkt),
         \A a \in BagToSet(back') :
           a.flow \in Flows /\ (a.fb = "good" \/ a.ev \notin ActivePaths(src[a.flow]))
  PROVE  Settled'
<1>1. ASSUME NEW f \in Flows, NEW p \in ActivePaths(src'[f])
      PROVE  Holds(f, p)'
  <2>1. p \in ActivePaths(src[f]) /\ src[f] \in Sender
    BY <1>1 DEF FabricInv
  <2>2. p \in Paths
    BY <2>1 DEF ActivePaths, Sender, Range
  <2>3. Route[f][p] \in Seq(Ports)
    BY <2>2, FabricAssumption
  <2>4. Holds(f, p)
    BY <2>1 DEF Settled
  <2> SUFFICES ASSUME NEW h \in 1 .. Len(Route[f][p])
               PROVE  <<f, p>> \in Incumbents(table'[Route[f][p][h]])
    BY DEF Holds
  <2>5. Route[f][p][h] \in Ports
    BY <2>3
  <2> QED
    BY <2>4, <2>5 DEF Holds
<1>2. \A pkt \in BagToSet(wire') : InPlace(pkt)'
  BY DEF InPlace
<1> QED
  BY <1>1, <1>2 DEF Settled

(* What is under way in a settled fabric.                                  *)
LEMMA Harmless ==
  ASSUME FabricInv, Settled
  PROVE  /\ \A f \in Flows : Algo = "hklb" => Steady(src[f])
         /\ \A pkt \in BagToSet(wire) :
              pkt \in Packets /\ pkt.flow \in Flows /\ InPlace(pkt)
         /\ \A a \in BagToSet(back) :
              /\ a \in Answers /\ a.flow \in Flows
              /\ a.fb = "good" \/ a.ev \notin ActivePaths(src[a.flow])
BY DEF FabricInv, Settled, BagOf, Packets, Answers

(* Data on the way of a settled fabric is of an incumbent.                 *)
LEMMA AtIncumbent ==
  ASSUME FabricInv, Settled, NEW pkt \in BagToSet(wire), ~Arrived(pkt), ~pkt.rts
  PROVE  Key(pkt) \in Incumbents(table[PortOf(pkt)])
<1>1. pkt \in Packets /\ pkt.flow \in Flows /\ pkt.ev \in ActivePaths(src[pkt.flow])
  BY Harmless DEF InPlace
<1>2. Holds(pkt.flow, pkt.ev)
  BY <1>1 DEF Settled
<1>3. pkt.hop \in 1 .. Len(RouteOf(pkt))
  BY <1>1, RouteType
<1> QED
  BY <1>2, <1>3 DEF Holds, RouteOf, PortOf, Key

(* A settled balancer draws a path it holds everywhere.                    *)
LEMMA SettledSend ==
  ASSUME FabricInv, Settled, NEW f \in Flows, Send(f)
  PROVE  Settled'
<1>1. PICK p \in Draws(src[f]) : wire' = wire (+) One(Launched(f, p, FALSE))
  BY DEF Send
<1>2. src' = [src EXCEPT ![f] = Next1(src[f])]
  BY Zenon DEF Send
<1>3. FALSE \in BOOLEAN
  OBVIOUS
<1>4. /\ \A g \in Flows : /\ ActivePaths(src'[g]) = ActivePaths(src[g])
                          /\ src'[g].confirmed = src[g].confirmed
      /\ BagToSet(wire') = BagToSet(wire) \cup {Launched(f, p, FALSE)}
      /\ (Algo = "hklb" => Steady(src[f])) => p \in ActivePaths(src[f])
  BY <1>1, <1>2, <1>3, LaunchInv
<1>5. \A g \in Flows : Algo = "hklb" => Steady(src'[g])
  BY <1>4, Harmless DEF Steady
<1>6. Launched(f, p, FALSE).flow \in Flows /\ InPlace(Launched(f, p, FALSE))
  BY <1>4, Harmless DEF Launched, InPlace
<1>7. table' = table /\ back' = back
  BY DEF Send
<1> QED
  BY <1>4, <1>5, <1>6, <1>7, Harmless, StaysSettled

(* No port marks what a settled balancer sends.                            *)
LEMMA SettledOnWire ==
  ASSUME FabricInv, Settled, Stateful, NEW pkt \in BagToSet(wire), OnWire(pkt)
  PROVE  Settled'
<1>1. /\ pkt \in Packets /\ pkt.flow \in Flows /\ InPlace(pkt)
      /\ BagOf(wire, Packets) /\ BagOf(back, Answers) /\ pkt.ev \in Paths
  BY Harmless DEF FabricInv, Packets
<1>2. BagOf(wire (-) One(pkt), Packets) /\ BagToSet(wire (-) One(pkt)) \subseteq BagToSet(wire)
  BY <1>1, BagType
<1>3. src' = src
  BY DEF OnWire, CrossStateful, DropStateful, CrossUntracked, DropUntracked, TrimComposite, Deliver, Absorb
<1>4. ASSUME ~Arrived(pkt), ~pkt.rts,
             table' = [table EXCEPT ![PortOf(pkt)] = Arrival(table[PortOf(pkt)], Key(pkt))]
      PROVE  \A q \in Ports : Incumbents(table[q]) \subseteq Incumbents(table'[q])
  BY <1>1, <1>4, AtIncumbent, OneTable
<1>5. CASE CrossStateful(pkt)
  <2> DEFINE t == table[PortOf(pkt)]
             next == [pkt EXCEPT !.hop = @ + 1, !.ecn = FALSE]
  <2>1. t \in Tables /\ Key(pkt) \in Keys
    BY <1>1, <1>5, RouteType DEF FabricInv, CrossStateful
  <2>2. Admitted(t, Key(pkt))
    BY <1>5, <2>1, AtIncumbent, ArrivalType DEF CrossStateful
  <2>3. wire' = wire (-) One(pkt) (+) One(next)
    BY <1>5, <2>2 DEF CrossStateful, Marks
  <2>5. /\ next \in Packets /\ next.flow = pkt.flow /\ next.ev = pkt.ev
        /\ ~next.ecn /\ next.rts = pkt.rts
    BY <1>1, CrossedType
  <2> HIDE DEF next
  <2>6. BagToSet(wire') \subseteq BagToSet(wire) \cup {next}
    BY <1>2, <2>3, <2>5, BagType
  <2>7. \A x \in BagToSet(wire') : x.flow \in Flows /\ InPlace(x)
    BY <1>1, <1>5, <2>5, <2>6, Harmless DEF InPlace, CrossStateful
  <2> QED
    BY <1>3, <1>4, <1>5, <2>7, Harmless, StaysSettled DEF CrossStateful
<1>6. CASE DropStateful(pkt)
  <2>1. \A x \in BagToSet(wire') : x.flow \in Flows /\ InPlace(x)
    BY <1>2, <1>6, Harmless DEF DropStateful
  <2> QED
    BY <1>3, <1>4, <1>6, <2>1, Harmless, StaysSettled DEF DropStateful
<1>7. CASE Deliver(pkt)
  <2>0. ~pkt.ecn
    BY <1>1, <1>7 DEF Deliver, InPlace
  <2> DEFINE a == [flow |-> pkt.flow, ev |-> pkt.ev, fb |-> "good"]
  <2>1. a \in Answers /\ a.flow \in Flows /\ a.fb = "good"
    BY <1>1 DEF Answers
  <2>2. back' = back (+) One(a)
    BY <1>1, <1>7, <2>0 DEF Deliver
  <2> HIDE DEF a
  <2>3. BagToSet(back') = BagToSet(back) \cup {a}
    BY <1>1, <2>1, <2>2, BagType
  <2>4. \A x \in BagToSet(back') : x.flow \in Flows /\ (x.fb = "good" \/ x.ev \notin ActivePaths(src[x.flow]))
    BY <2>1, <2>3, Harmless
  <2>5. \A x \in BagToSet(wire') : x.flow \in Flows /\ InPlace(x)
    BY <1>2, <1>7, Harmless DEF Deliver
  <2>6. table' = table
    BY <1>7 DEF Deliver
  <2> QED
    BY <1>3, <2>4, <2>5, <2>6, Harmless, StaysSettled
<1>8. CASE Absorb(pkt)
  <2>1. \A x \in BagToSet(wire') : x.flow \in Flows /\ InPlace(x)
    BY <1>2, <1>8, Harmless DEF Absorb
  <2>2. table' = table /\ back' = back
    BY <1>8 DEF Absorb
  <2> QED
    BY <1>3, <2>1, <2>2, Harmless, StaysSettled
<1>9. CASE CrossUntracked(pkt)
  <2>1. pkt.rts
    BY <1>9 DEF CrossUntracked, Untracked
  <2>2. \A x \in BagToSet(wire') : x.flow \in Flows /\ InPlace(x)
    BY <1>1, <1>9, <2>1, UntrackedType, Harmless DEF InPlace
  <2>3. table' = table /\ back' = back
    BY <1>9 DEF CrossUntracked
  <2> QED
    BY <1>3, <2>2, <2>3, Harmless, StaysSettled
<1>10. CASE DropUntracked(pkt)
  <2>1. \A x \in BagToSet(wire') : x.flow \in Flows /\ InPlace(x)
    BY <1>2, <1>10, Harmless DEF DropUntracked
  <2>2. table' = table /\ back' = back
    BY <1>10 DEF DropUntracked
  <2> QED
    BY <1>3, <2>1, <2>2, Harmless, StaysSettled
<1> QED
  BY <1>5, <1>6, <1>7, <1>8, <1>9, <1>10 DEF OnWire, TrimComposite

(* Harmless feedback moves no settled balancer.                            *)
LEMMA SettledAnswer ==
  ASSUME FabricInv, Settled, NEW a \in BagToSet(back), Hear(a) \/ LoseAnswer(a)
  PROVE  Settled'
<1>1. /\ a \in Answers /\ a.flow \in Flows /\ a.ev \in Paths
      /\ a.fb = "good" \/ a.ev \notin ActivePaths(src[a.flow])
      /\ BagOf(back, Answers)
  BY Harmless DEF FabricInv, Answers
<1>2. back' = back (-) One(a) /\ table' = table /\ wire' = wire
  BY DEF Hear, LoseAnswer
<1>3. \A x \in BagToSet(back') : x.flow \in Flows /\ (x.fb = "good" \/ x.ev \notin ActivePaths(src[x.flow]))
  BY <1>1, <1>2, BagType, Harmless
<1>4. \A f \in Flows : /\ ActivePaths(src'[f]) = ActivePaths(src[f])
                       /\ Algo = "hklb" => Steady(src'[f])
  <2>1. CASE Hear(a)
    <3>1. PICK t \in ProcessEv(src[a.flow], a.ev, a.fb) : src' = [src EXCEPT ![a.flow] = t]
      BY <2>1 DEF Hear
    <3>2. Tidy(src[a.flow]) /\ (Algo = "hklb" => Steady(src[a.flow]))
      BY <1>1, Harmless DEF FabricInv
    <3>3. Tidy(t) /\ ActivePaths(t) = ActivePaths(src[a.flow]) /\ (Algo = "hklb" => Steady(t))
      BY <1>1, <3>2, ProcessEvTidy
    <3>4. \A g \in Flows : src'[g] = IF g = a.flow THEN t ELSE src[g]
      BY <1>1, <3>1, <3>3, OneSender
    <3> QED
      BY <3>3, <3>4, Harmless
  <2>2. CASE LoseAnswer(a)
    BY <2>2, Harmless DEF LoseAnswer
  <2> QED
    BY <2>1, <2>2
<1> QED
  BY <1>2, <1>3, <1>4, Harmless, StaysSettled

(* No step unsettles a settled fabric.                                     *)
LEMMA SettledNext ==
  ASSUME FabricInv, Settled, Stateful, [Next]_vars
  PROVE  Settled'
<1>1. CASE UNCHANGED vars
  BY <1>1 DEF vars, Settled, Holds, InPlace
<1>2. CASE Tick
  <2>1. \A f \in Flows : /\ ActivePaths(src'[f]) = ActivePaths(src[f])
                         /\ Algo = "hklb" => Steady(src'[f])
    BY <1>2, TickInv, Harmless DEF Steady
  <2>2. wire' = wire /\ back' = back
    BY <1>2 DEF Tick
  <2>3. \A q \in Ports : Incumbents(table[q]) \subseteq Incumbents(table'[q])
    BY <1>2, TickInv
  <2> QED
    BY <2>1, <2>2, <2>3, Harmless, StaysSettled
<1>3. ASSUME NEW pkt \in BagToSet(lost), Expire(pkt) PROVE Settled'
  <2>1. \A f \in Flows : /\ ActivePaths(src'[f]) = ActivePaths(src[f])
                         /\ Algo = "hklb" => Steady(src'[f])
    BY <1>3, ExpireInv, Harmless DEF Steady
  <2>2. \A x \in BagToSet(wire') : x.flow \in Flows /\ InPlace(x)
    BY <1>3, ExpireInv, Harmless DEF InPlace
  <2>3. table' = table /\ back' = back
    BY <1>3 DEF Expire
  <2> QED
    BY <2>1, <2>2, <2>3, Harmless, StaysSettled
<1> QED
  BY <1>1, <1>2, <1>3, SettledSend, SettledOnWire, SettledAnswer DEF Next

(* Absolute incumbent advantage: once every sub-flow a balancer rotates    *)
(* over is an incumbent at every port of its path, no port ever marks it   *)
(* again and no balancer ever moves, for any fabric of stateful ports.     *)
THEOREM SettledIsStableHolds == Spec => SettledIsStable
<1>1. FabricInv /\ [Next]_vars => [Stateful /\ Settled => Settled']_vars
  BY SettledNext
<1> QED
  BY <1>1, FabricInvariant, PTL DEF Spec, SettledIsStable

(* No arrival evicts an incumbent that was heard from within the timeout.  *)
THEOREM IncumbentsKeptHolds == Spec => IncumbentsKept
<1>1. ASSUME FabricInv, [Next]_vars
      PROVE  [\A q \in Ports : Fresh(table[q]) \subseteq Incumbents(table'[q])]_vars
  <2> SUFFICES \A q \in Ports : Fresh(table[q]) \subseteq Incumbents(table'[q])
    OBVIOUS
  <2>1. \A q \in Ports : Fresh(table[q]) \subseteq Incumbents(table[q])
    BY DEF Fresh
  <2>2. CASE table' = table
    BY <2>1, <2>2
  <2>3. CASE Tick
    BY <1>1, <2>1, <2>3, TickInv
  <2>4. ASSUME NEW pkt \in BagToSet(wire), CrossStateful(pkt) \/ DropStateful(pkt)
        PROVE  \A q \in Ports : Fresh(table[q]) \subseteq Incumbents(table'[q])
    <3>1. pkt \in Packets
      BY <1>1, <2>4 DEF FabricInv, BagOf
    <3>2. /\ ~Arrived(pkt)
          /\ table' = [table EXCEPT ![PortOf(pkt)] = Arrival(table[PortOf(pkt)], Key(pkt))]
      BY <2>4 DEF CrossStateful, DropStateful
    <3> QED
      BY <1>1, <3>1, <3>2, OneTable
  <2>5. \/ table' = table \/ Tick
        \/ \E pkt \in BagToSet(wire) : CrossStateful(pkt) \/ DropStateful(pkt)
    BY <1>1 DEF Next, Send, OnWire, CrossUntracked, DropUntracked, TrimComposite, Deliver,
                Absorb, Hear, LoseAnswer, Expire, vars
  <2> QED
    BY <2>2, <2>3, <2>4, <2>5
<1> QED
  BY <1>1, FabricInvariant, PTL DEF Spec, IncumbentsKept

-----------------------------------------------------------------------------
(* Rejections.                                                             *)

(* A port has as many incumbents as slots at most.                         *)
Fits(t) == IsFiniteSet(Incumbents(t)) /\ Cardinality(Incumbents(t)) <= SlotsPerLink

TablesFit == \A q \in Ports : Fits(table[q])

(* An arrival keeps it, and one that is not admitted found every slot with *)
(* a sub-flow that was heard from within the timeout.                      *)
LEMMA ArrivalFits ==
  ASSUME NEW t \in Tables, NEW key \in Keys, Fits(t)
  PROVE  LET u == Arrival(t, key)
         IN /\ Fits(u)
            /\ key \notin Incumbents(u) => Cardinality(Fresh(u)) >= SlotsPerLink
<1> DEFINE kept == EvictExpired(t)
           u == Arrival(t, key)
<1>1. /\ Incumbents(kept) = Fresh(t) /\ Fresh(t) \subseteq Incumbents(t)
      /\ Fresh(kept) = Fresh(t)
  BY DEF EvictExpired, Restrict, Incumbents, Fresh
<1>2. /\ IsFiniteSet(Fresh(t)) /\ Cardinality(Fresh(t)) \in Nat /\ SlotsPerLink \in Nat
      /\ Cardinality(Fresh(t)) <= Cardinality(Incumbents(t))
      /\ Cardinality(Incumbents(t)) \in Nat
  BY <1>1, FS_Subset, FS_CardinalityType, TableAssumption DEF Fits
<1>3. \A v : Incumbents(Seen(v, key)) = Incumbents(v) \cup {key}
  BY DEF Seen, Incumbents
<1>4. Cardinality(Fresh(t)) <= SlotsPerLink
  BY <1>2 DEF Fits
<1> HIDE DEF kept
<1>5. u = IF key \in Incumbents(t) THEN Seen(t, key)
          ELSE IF HasRoom(kept) THEN Seen(kept, key) ELSE kept
  BY DEF Arrival, kept
<1> HIDE DEF u
<1>6. CASE key \in Incumbents(t)
  <2>1. Incumbents(u) = Incumbents(t)
    BY <1>3, <1>5, <1>6
  <2> QED
    BY <1>6, <2>1 DEF Fits, u
<1>7. CASE key \notin Incumbents(t) /\ HasRoom(kept)
  <2>1. Incumbents(u) = Fresh(t) \cup {key}
    BY <1>1, <1>3, <1>5, <1>7
  <2>2. /\ IsFiniteSet(Fresh(t) \cup {key})
        /\ Cardinality(Fresh(t) \cup {key}) = Cardinality(Fresh(t)) + 1
    BY <1>1, <1>2, <1>7, FS_AddElement
  <2>3. Cardinality(Fresh(t)) < SlotsPerLink
    BY <1>1, <1>7 DEF HasRoom
  <2> QED
    BY <1>2, <2>1, <2>2, <2>3 DEF Fits, u
<1>8. CASE key \notin Incumbents(t) /\ ~HasRoom(kept)
  <2>1. u = kept /\ Cardinality(Fresh(t)) >= SlotsPerLink
    BY <1>1, <1>2, <1>5, <1>8 DEF HasRoom
  <2> QED
    BY <1>1, <1>2, <1>4, <2>1 DEF Fits, u
<1> QED
  BY <1>6, <1>7, <1>8

(* The tables are empty at first.                                          *)
LEMMA InitFits == Init => TablesFit
<1>1. Incumbents(EmptyTable) = {}
  BY DEF EmptyTable, Incumbents
<1>2. Fits(EmptyTable)
  BY <1>1, FS_EmptySet, TableAssumption DEF Fits
<1> QED
  BY <1>2 DEF Init, TablesFit

(* Only arrivals and time change a table.                                  *)
LEMMA TableSteps ==
  ASSUME [Next]_vars
  PROVE  \/ table' = table \/ Tick
         \/ \E pkt \in BagToSet(wire) : CrossStateful(pkt) \/ DropStateful(pkt)
BY DEF Next, Send, OnWire, CrossUntracked, DropUntracked, TrimComposite, Deliver,
       Absorb, Hear, LoseAnswer, Expire, vars

(* Every step keeps the tables within their slots.                         *)
LEMMA NextFits == FabricInv /\ TablesFit /\ [Next]_vars => TablesFit'
<1> SUFFICES ASSUME FabricInv, TablesFit, [Next]_vars PROVE TablesFit'
  OBVIOUS
<1>1. CASE table' = table
  BY <1>1 DEF TablesFit
<1>2. CASE Tick
  BY <1>2, TickInv DEF TablesFit, Fits
<1>3. ASSUME NEW pkt \in BagToSet(wire), CrossStateful(pkt) \/ DropStateful(pkt)
      PROVE  TablesFit'
  <2> DEFINE r == PortOf(pkt)
             u == Arrival(table[r], Key(pkt))
  <2>1. pkt \in Packets /\ ~Arrived(pkt) /\ table \in [Ports -> Tables]
    BY <1>3 DEF FabricInv, BagOf, CrossStateful, DropStateful
  <2>2. r \in Ports /\ Key(pkt) \in Keys
    BY <2>1, RouteType
  <2>3. Fits(u)
    BY <2>1, <2>2, ArrivalFits DEF TablesFit
  <2>4. table' = [table EXCEPT ![r] = u]
    BY <1>3 DEF CrossStateful, DropStateful
  <2> HIDE DEF u
  <2>5. \A q \in Ports : table'[q] = IF q = r THEN u ELSE table[q]
    BY <2>1, <2>2, <2>4
  <2> QED
    BY <2>3, <2>5 DEF TablesFit
<1> QED
  BY <1>1, <1>2, <1>3, TableSteps

(* How a bag changes: only what goes in has more copies, and only what is  *)
(* taken out has fewer.                                                    *)
LEMMA BagCopies ==
  ASSUME NEW S, NEW b, BagOf(b, S), NEW x \in S, NEW y \in S
  PROVE  /\ Copies(y, b (+) One(x)) >= Copies(y, b)
         /\ y # x => Copies(y, b (+) One(x)) = Copies(y, b)
         /\ Copies(y, b (-) One(x)) <= Copies(y, b)
         /\ y # x => Copies(y, b (-) One(x)) = Copies(y, b)
         /\ Copies(y, b) \in Nat
         /\ Copies(y, b (+) One(x)) \in Nat /\ Copies(y, b (-) One(x)) \in Nat
<1> DEFINE B == One(x)
<1>1. BagToSet(B) = {x} /\ B[x] = 1 /\ \A z : BagIn(z, B) <=> z = x
  BY DEF One, SetToBag, BagToSet, BagIn
<1> HIDE DEF B
<1>2. \A z \in BagToSet(b) : b[z] \in Nat \ {0}
  BY DEF BagOf
<1>3. /\ BagToSet(b (+) B) = BagToSet(b) \cup {x}
      /\ \A z \in BagToSet(b) \cup {x} :
           (b (+) B)[z] = (IF BagIn(z, b) THEN b[z] ELSE 0) + (IF z = x THEN 1 ELSE 0)
  BY <1>1 DEF (+), BagToSet, BagIn
<1>4. /\ BagToSet(b (-) B) \subseteq BagToSet(b)
      /\ \A z \in BagToSet(b) :
           z \in BagToSet(b (-) B) <=> b[z] - (IF z = x THEN 1 ELSE 0) > 0
      /\ \A z \in BagToSet(b (-) B) : (b (-) B)[z] = b[z] - (IF z = x THEN 1 ELSE 0)
  BY <1>1, <1>2 DEF (-), BagToSet, BagIn
<1>5. Copies(y, b) = IF y \in BagToSet(b) THEN b[y] ELSE 0
  BY DEF Copies, BagIn
<1>6. Copies(y, b (+) B) = Copies(y, b) + (IF y = x THEN 1 ELSE 0)
  BY <1>2, <1>3, <1>5 DEF Copies, BagIn
<1>7. /\ Copies(y, b (-) B) <= Copies(y, b)
      /\ y # x => Copies(y, b (-) B) = Copies(y, b)
      /\ Copies(y, b (-) B) \in Nat
  BY <1>2, <1>4, <1>5 DEF Copies, BagIn
<1> QED
  BY <1>2, <1>5, <1>6, <1>7 DEF B

(* The one step that takes an unmarked data packet off the wire and puts   *)
(* it back marked is its arrival at a port that does not admit it.         *)
LEMMA RejectionStep ==
  ASSUME Stateful, FabricInv, [Next]_vars, NEW pkt \in BagToSet(wire),
         ~Arrived(pkt), ~pkt.ecn, ~pkt.rts,
         Copies(pkt, wire') < Copies(pkt, wire),
         Copies(Rejection(pkt), wire') > Copies(Rejection(pkt), wire)
  PROVE  /\ table' = [table EXCEPT ![PortOf(pkt)] = Arrival(table[PortOf(pkt)], Key(pkt))]
         /\ ~Admitted(table[PortOf(pkt)], Key(pkt))
<1> DEFINE rej == Rejection(pkt)
<1>1. BagOf(wire, Packets) /\ pkt \in Packets
  BY DEF FabricInv, BagOf
<1>2. rej \in Packets
  <2>1. pkt.hop + 1 \in Nat \ {0}
    BY <1>1 DEF Packets
  <2> QED
    BY <1>1, <2>1 DEF Rejection, Packets
<1>3. rej = [pkt EXCEPT !.hop = @ + 1, !.ecn = TRUE]
  BY DEF Rejection
<1> HIDE DEF rej
<1>4. Copies(pkt, wire) \in Nat /\ Copies(rej, wire) \in Nat
      /\ Copies(pkt, wire') < Copies(pkt, wire) /\ Copies(rej, wire') > Copies(rej, wire)
  BY <1>1, <1>2, BagCopies DEF rej
<1>5. wire' # wire
  BY <1>4
<1>6. ASSUME NEW y \in Packets, wire' = wire (+) One(y) PROVE FALSE
  <2>1. /\ Copies(pkt, wire (+) One(y)) >= Copies(pkt, wire)
        /\ Copies(pkt, wire (+) One(y)) \in Nat
    BY <1>1, BagCopies
  <2> QED
    BY <1>4, <1>6, <2>1
<1>7. ASSUME NEW y \in BagToSet(wire), wire' = wire (-) One(y) PROVE FALSE
  <2>1. y \in Packets
    BY <1>1 DEF BagOf
  <2>2. /\ Copies(rej, wire (-) One(y)) <= Copies(rej, wire)
        /\ Copies(rej, wire (-) One(y)) \in Nat
    BY <1>1, <1>2, <2>1, BagCopies
  <2> QED
    BY <1>4, <1>7, <2>2
<1>8. ASSUME NEW f \in Flows, Send(f) PROVE FALSE
  <2>1. PICK p \in Draws(src[f]) : wire' = wire (+) One(Launched(f, p, FALSE))
    BY <1>8 DEF Send
  <2>2. p \in Paths
    BY DrawsTyped DEF FabricInv
  <2>3. Launched(f, p, FALSE) \in Packets
    BY <2>2 DEF Launched, Packets
  <2> QED
    BY <1>6, <2>1, <2>3
<1>9. ASSUME NEW x \in BagToSet(lost), Expire(x) PROVE FALSE
  <2> DEFINE t == ProcessTimeout(src[x.flow], x.ev)
  <2>1. x.flow \in Flows /\ x.ev \in Paths
    BY DEF FabricInv, BagOf, Packets
  <2>2. Tidy(t)
    BY <2>1 DEF FabricInv, ProcessTimeout
  <2>3. PICK p \in Draws(t) : wire' = wire (+) One(Launched(x.flow, p, TRUE))
    BY <1>5, <1>9 DEF Expire
  <2>4. p \in Paths
    BY <2>2, DrawsTyped
  <2>5. Launched(x.flow, p, TRUE) \in Packets
    BY <2>1, <2>4 DEF Launched, Packets
  <2> QED
    BY <1>6, <2>3, <2>5
<1>10. PICK x \in BagToSet(wire) : OnWire(x)
  BY <1>5, <1>8, <1>9 DEF Next, vars, Hear, LoseAnswer, Tick
<1>11. PICK m \in BOOLEAN :
         /\ wire' = wire (-) One(x) (+) One([x EXCEPT !.hop = @ + 1, !.ecn = m])
         /\ CrossStateful(x) \/ (CrossUntracked(x) /\ x.rts)
         /\ CrossStateful(x) => m \in Marks(table[PortOf(x)], Key(x))
  BY <1>7, <1>10 DEF OnWire, CrossStateful, CrossUntracked, Untracked, UntrackedMarks,
     Marks, DropStateful, DropUntracked, TrimComposite, Deliver, Absorb
<1> DEFINE y == [x EXCEPT !.hop = @ + 1, !.ecn = m]
<1>12. x \in Packets /\ y \in Packets /\ y.ecn = m /\ x \in BagToSet(wire)
  <2>1. x \in Packets
    BY <1>1, <1>10 DEF BagOf
  <2>2. x.hop + 1 \in Nat \ {0}
    BY <2>1 DEF Packets
  <2> QED
    BY <1>10, <1>11, <2>1, <2>2 DEF Packets
<1>13. wire' = wire (-) One(x) (+) One(y)
  BY <1>11
<1> HIDE DEF y
<1>14. BagOf(wire (-) One(x), Packets)
  BY <1>1, <1>12, BagType
<1>15. x = pkt
  <2> SUFFICES ASSUME x # pkt PROVE FALSE
    OBVIOUS
  <2>1. Copies(pkt, wire (-) One(x)) = Copies(pkt, wire)
    BY <1>1, <1>12, BagCopies
  <2>2. /\ Copies(pkt, wire (-) One(x) (+) One(y)) >= Copies(pkt, wire (-) One(x))
        /\ Copies(pkt, wire (-) One(x) (+) One(y)) \in Nat
    BY <1>1, <1>12, <1>14, BagCopies
  <2> QED
    BY <1>4, <1>13, <2>1, <2>2
<1>16. y = rej
  <2> SUFFICES ASSUME y # rej PROVE FALSE
    OBVIOUS
  <2>1. /\ Copies(rej, wire (-) One(x)) <= Copies(rej, wire)
        /\ Copies(rej, wire (-) One(x)) \in Nat
    BY <1>1, <1>2, <1>12, BagCopies
  <2>2. Copies(rej, wire (-) One(x) (+) One(y)) = Copies(rej, wire (-) One(x))
    BY <1>2, <1>12, <1>14, BagCopies
  <2> QED
    BY <1>4, <1>13, <2>1, <2>2
<1>17. m = TRUE
  <2>1. rej.ecn = TRUE
    BY <1>1, <1>3 DEF Packets
  <2> QED
    BY <1>12, <1>16, <2>1
<1>18. CrossStateful(pkt) /\ ~Admitted(table[PortOf(pkt)], Key(pkt))
  BY <1>11, <1>15, <1>17 DEF Marks
<1> QED
  BY <1>18 DEF CrossStateful

(* Where ports are stateful, one rejects a packet only when other          *)
(* sub-flows, heard from within the timeout, hold all of its slots.        *)
THEOREM RejectionDeservedHolds ==
  ASSUME Stateful
  PROVE  Spec => RejectionDeserved
<1> DEFINE Deserved(pkt) ==
      /\ ~Arrived(pkt) /\ ~pkt.ecn /\ ~pkt.rts
      /\ Copies(pkt, wire') < Copies(pkt, wire)
      /\ Copies(Rejection(pkt), wire') > Copies(Rejection(pkt), wire)
      => LET t == table'[PortOf(pkt)]
         IN Cardinality(Fresh(t)) >= SlotsPerLink /\ Key(pkt) \notin Incumbents(t)
<1>1. ASSUME FabricInv, TablesFit, [Next]_vars
      PROVE  [\A pkt \in BagToSet(wire) : Deserved(pkt)]_vars
  <2> SUFFICES ASSUME NEW pkt \in BagToSet(wire) PROVE Deserved(pkt)
    OBVIOUS
  <2> SUFFICES ASSUME ~Arrived(pkt), ~pkt.ecn, ~pkt.rts,
                      Copies(pkt, wire') < Copies(pkt, wire),
                      Copies(Rejection(pkt), wire') > Copies(Rejection(pkt), wire)
               PROVE  /\ Cardinality(Fresh(table'[PortOf(pkt)])) >= SlotsPerLink
                      /\ Key(pkt) \notin Incumbents(table'[PortOf(pkt)])
    OBVIOUS
  <2> DEFINE r == PortOf(pkt)
             u == Arrival(table[r], Key(pkt))
  <2>1. table' = [table EXCEPT ![r] = u] /\ Key(pkt) \notin Incumbents(u)
    BY <1>1, RejectionStep DEF Admitted
  <2>2. pkt \in Packets /\ table \in [Ports -> Tables]
    BY <1>1 DEF FabricInv, BagOf
  <2>3. r \in Ports /\ Key(pkt) \in Keys
    BY <2>2, RouteType
  <2>4. Cardinality(Fresh(u)) >= SlotsPerLink
    BY <1>1, <2>1, <2>2, <2>3, ArrivalFits DEF TablesFit
  <2> HIDE DEF u, r
  <2>5. table'[r] = u
    BY <2>1, <2>2, <2>3
  <2> QED
    BY <2>1, <2>4, <2>5 DEF r
<1>2. Spec => []TablesFit
  BY InitFits, NextFits, FabricInvariant, PTL DEF Spec
<1> QED
  BY <1>1, <1>2, FabricInvariant, PTL DEF Spec, RejectionDeserved
=============================================================================
