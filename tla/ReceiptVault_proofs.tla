------------------------ MODULE ReceiptVault_proofs ------------------------
(***************************************************************************)
(* Proofs about the bridge from receipt files to the vault, for any files, *)
(* receipts and swap ids, any lengths, truncations, restarts and failed    *)
(* inserts.  They assume ~Rewrites: a truncated file does not reach its    *)
(* old offset again before the bridge has looked at it.                    *)
(* What holds for a file of any length is proved by a least counterexample,*)
(* the only induction there is.                                            *)
(***************************************************************************)
EXTENDS ReceiptVault, TLAPS, SequenceTheorems, FiniteSetTheorems, WellFoundedInduction

-----------------------------------------------------------------------------
(* Order, positions and pieces.                                            *)

\* Every set of natural numbers has a least one.
LEMMA LeastOf ==
    ASSUME NEW T, T \subseteq Nat, T # {}
    PROVE  \E n \in T : \A k \in T : n <= k
<1>1. PICK n \in T : \A k \in T : ~(<<k, n>> \in OpToRel(<, Nat))
  BY NatLessThanWellFounded, WFMin
<1>2. ASSUME NEW k \in T PROVE n <= k
  <2>1. <<k, n>> \in Nat \X Nat /\ k \in Nat /\ n \in Nat
    OBVIOUS
  <2>2. ~(k < n)
    BY <1>1, <2>1 DEF OpToRel
  <2> QED
    BY <2>1, <2>2
<1> QED
  BY <1>2

\* Max is the greatest position.
LEMMA GreatestOf ==
    ASSUME NEW n \in Nat, NEW T, T \subseteq 1..n, T # {}
    PROVE  Max(T) \in T /\ \A x \in T : x <= Max(T)
<1> DEFINE below == {n - x : x \in T}
<1>0. \A x \in T : x \in 1..n /\ x \in Int /\ n - x \in Nat
  <2> SUFFICES ASSUME NEW x \in T PROVE x \in 1..n /\ x \in Int /\ n - x \in Nat
    OBVIOUS
  <2>1. x \in 1..n
    OBVIOUS
  <2> QED
    BY <2>1
<1>1. below \subseteq Nat /\ below # {}
  BY <1>0
<1>2. PICK d \in below : \A k \in below : d <= k
  BY <1>1, LeastOf
<1>3. PICK m \in T : d = n - m
  OBVIOUS
<1>4. ASSUME NEW x \in T PROVE m >= x
  <2>1. d <= n - x
    BY <1>2
  <2>2. x \in Int /\ m \in Int
    BY <1>0
  <2> QED
    BY <1>3, <2>1, <2>2
<1>5. \E y \in T : \A x \in T : y >= x
  BY <1>4
<1>6. Max(T) \in T /\ \A x \in T : Max(T) >= x
  BY <1>5 DEF Max
<1>7. ASSUME NEW x \in T PROVE x <= Max(T)
  <2>1. Max(T) >= x /\ Max(T) \in Int /\ x \in Int
    BY <1>0, <1>6
  <2> QED
    BY <2>1
<1> QED
  BY <1>6, <1>7

\* Any set of positions can be put in order.
Ordered(S) == \E f \in [1..Cardinality(S) -> S] : \A i, j \in DOMAIN f : i < j => f[i] < f[j]

LEMMA OrderedExists ==
    ASSUME NEW n \in Nat, NEW S \in SUBSET (1..n)
    PROVE  Ordered(S)
<1> DEFINE Bad == {k \in Nat : \E T \in SUBSET (1..k) : ~Ordered(T)}
<1>1. SUFFICES ASSUME Bad # {} PROVE FALSE
  OBVIOUS
<1>2. PICK k \in Bad : \A j \in Bad : k <= j
  <2>1. Bad \subseteq Nat
    OBVIOUS
  <2> HIDE DEF Bad
  <2> QED
    BY <1>1, <2>1, LeastOf
<1>3. k \in Nat /\ \A j \in Nat : j < k => \A T \in SUBSET (1..j) : Ordered(T)
  BY <1>2
<1>4. PICK T \in SUBSET (1..k) : ~Ordered(T)
  OBVIOUS
<1> HIDE DEF Bad
<1>5. k \in T
  <2> SUFFICES ASSUME k \notin T PROVE FALSE
    OBVIOUS
  <2>1. CASE k = 0
    <3>2. T = {}
      BY <1>4, <2>1
    <3>1. T = {} /\ Cardinality(T) = 0
      BY <3>2, FS_EmptySet
    <3>3. [i \in 1..0 |-> i] \in [1..0 -> {}] /\ \A i \in DOMAIN [i \in 1..0 |-> i] : FALSE
      OBVIOUS
    <3> QED
      BY <1>4, <3>1, <3>3 DEF Ordered
  <2>2. CASE k > 0
    <3>1. k - 1 \in Nat /\ k - 1 < k
      BY <1>3, <2>2
    <3>2. T \in SUBSET (1..k - 1)
      BY <1>3
    <3> QED
      BY <1>3, <1>4, <3>1, <3>2
  <2> QED
    BY <1>3, <2>1, <2>2
<1> DEFINE U == T \ {k}
<1>6. U \in SUBSET (1..k - 1) /\ k - 1 \in Nat /\ k - 1 < k
  BY <1>3, <1>5
<1>7. Ordered(U)
  BY <1>3, <1>6
<1> DEFINE c == Cardinality(U)
<1>8. IsFiniteSet(T) /\ Cardinality(T) = c + 1 /\ c \in Nat
  <2>1. IsFiniteSet(1..k)
    BY <1>3, FS_Interval
  <2>2. IsFiniteSet(T)
    BY <2>1, FS_Subset
  <2>3. IsFiniteSet(U) /\ Cardinality(U) = Cardinality(T) - 1
    BY <1>5, <2>2, FS_RemoveElement
  <2>4. Cardinality(T) \in Nat /\ Cardinality(U) \in Nat
    BY <2>2, <2>3, FS_CardinalityType
  <2> QED
    BY <2>2, <2>3, <2>4
<1>9. PICK f \in [1..c -> U] : \A i, j \in DOMAIN f : i < j => f[i] < f[j]
  BY <1>7 DEF Ordered
<1> DEFINE g == [i \in 1..c + 1 |-> IF i <= c THEN f[i] ELSE k]
<1> HIDE DEF c
<1>10. ASSUME NEW i \in 1..c
       PROVE  f[i] \in T /\ f[i] \in Int /\ f[i] < k
  <2>1. f[i] \in U
    BY <1>9
  <2>2. f[i] \in 1..k - 1 /\ f[i] \in T
    BY <1>6, <2>1
  <2> QED
    BY <1>3, <2>2
<1>11. g \in [1..c + 1 -> T]
  BY <1>5, <1>8, <1>10
<1>12. ASSUME NEW i \in 1..c + 1, NEW j \in 1..c + 1, i < j PROVE g[i] < g[j]
  <2>1. i \in 1..c /\ (j \in 1..c \/ j = c + 1)
    BY <1>8, <1>12
  <2> QED
    BY <1>8, <1>9, <1>10, <1>12, <2>1
<1>13. Ordered(T)
  <2>1. DOMAIN g = 1..Cardinality(T) /\ g \in [1..Cardinality(T) -> T]
    BY <1>8, <1>11
  <2> HIDE DEF g
  <2> QED
    BY <1>8, <1>12, <2>1 DEF Ordered
<1> QED
  BY <1>4, <1>13

\* The line ends come in the order of the file (tailFile).
LEMMA AscendingIs ==
    ASSUME NEW n \in Nat, NEW S \in SUBSET (1..n)
    PROVE  /\ Ascending(S) \in [1..Cardinality(S) -> S]
           /\ \A i, j \in DOMAIN Ascending(S) : i < j => Ascending(S)[i] < Ascending(S)[j]
           /\ Cardinality(S) \in Nat
<1>1. Ordered(S)
  BY OrderedExists
<1>2. Cardinality(S) \in Nat
  <2>1. IsFiniteSet(1..n)
    BY FS_Interval
  <2>2. IsFiniteSet(S)
    BY <2>1, FS_Subset
  <2> QED
    BY <2>2, FS_CardinalityType
<1> QED
  BY <1>1, <1>2 DEF Ordered, Ascending

\* Nothing after the last line end is one.
LEMMA LastEndIs ==
    ASSUME NEW S, NEW s \in Seq(S)
    PROVE  /\ LastEnd(s) \in 0..Len(s) /\ (LastEnd(s) = 0 \/ s[LastEnd(s)] = End)
           /\ \A i \in LastEnd(s) + 1..Len(s) : s[i] # End
<1>1. Ends(s) \subseteq 1..Len(s) /\ Len(s) \in Nat
  BY DEF Ends
<1>2. CASE Ends(s) = {}
  BY <1>1, <1>2 DEF LastEnd, Ends
<1>3. CASE Ends(s) # {}
  <2>1. LastEnd(s) = Max(Ends(s)) /\ Max(Ends(s)) \in Ends(s) /\ \A x \in Ends(s) : x <= Max(Ends(s))
    BY <1>1, <1>3, GreatestOf DEF LastEnd
  <2>2. LastEnd(s) \in 1..Len(s) /\ s[LastEnd(s)] = End
    BY <2>1 DEF Ends
  <2>3. ASSUME NEW i \in LastEnd(s) + 1..Len(s), s[i] = End PROVE FALSE
    <3>1. i \in Ends(s)
      BY <1>1, <2>2, <2>3 DEF Ends
    <3>2. i <= LastEnd(s)
      BY <2>1, <3>1
    <3> QED
      BY <1>1, <2>2, <3>2
  <2> QED
    BY <1>1, <2>2, <2>3
<1> QED
  BY <1>2, <1>3

\* A line end, or the start, with none after it is the last.
LEMMA LastEndOnly ==
    ASSUME NEW S, NEW s \in Seq(S), NEW k \in 0..Len(s), k = 0 \/ s[k] = End,
           \A i \in k + 1..Len(s) : s[i] # End
    PROVE  LastEnd(s) = k
<1> DEFINE m == LastEnd(s)
<1>1. m \in 0..Len(s) /\ (m = 0 \/ s[m] = End) /\ \A i \in m + 1..Len(s) : s[i] # End
  BY LastEndIs
<1>2. Len(s) \in Nat
  OBVIOUS
<1> HIDE DEF m
<1>3. ~(m < k)
  BY <1>1, <1>2
<1>4. ~(k < m)
  BY <1>1, <1>2
<1> QED
  BY <1>1, <1>2, <1>3, <1>4 DEF m

\* A piece of a sequence.
LEMMA Piece ==
    ASSUME NEW S, NEW s \in Seq(S), NEW a \in 1..Len(s) + 1, NEW b \in a - 1..Len(s)
    PROVE  /\ SubSeq(s, a, b) \in Seq(S) /\ Len(SubSeq(s, a, b)) = b - a + 1
           /\ \A i \in 1..b - a + 1 : SubSeq(s, a, b)[i] = s[a + i - 1]
<1>1. a \in Int /\ b \in Int /\ Len(s) \in Nat
  OBVIOUS
<1>2. \A i \in a..b : s[i] \in S
  BY <1>1, ElementOfSeq
<1>3. /\ SubSeq(s, a, b) \in Seq(S)
      /\ Len(SubSeq(s, a, b)) = IF a <= b THEN b - a + 1 ELSE 0
      /\ \A i \in 1..b - a + 1 : SubSeq(s, a, b)[i] = s[a + i - 1]
  BY <1>1, <1>2, SubSeqProperties
<1> QED
  BY <1>1, <1>3

\* What is held of a file with what is read on is the file from a line's start.
LEMMA HeldAndRead ==
    ASSUME NEW S, NEW f \in Seq(S), NEW o \in 0..Len(f)
    PROVE  LET k == LastEnd(SubSeq(f, 1, o))
           IN /\ k \in 0..o /\ (k = 0 \/ f[k] = End)
              /\ Rest(SubSeq(f, 1, o)) = SubSeq(f, k + 1, o)
              /\ Rest(SubSeq(f, 1, o)) \o SubSeq(f, o + 1, Len(f)) = SubSeq(f, k + 1, Len(f))
<1> DEFINE g == SubSeq(f, 1, o)
           k == LastEnd(g)
<1>1. Len(f) \in Nat /\ o \in Nat
  OBVIOUS
<1>2. g \in Seq(S) /\ Len(g) = o /\ \A i \in 1..o : g[i] = f[i]
  <2>1. 1 \in 1..Len(f) + 1 /\ o \in 1 - 1..Len(f)
    BY <1>1
  <2>2. /\ g \in Seq(S) /\ Len(g) = o - 1 + 1
        /\ \A i \in 1..o - 1 + 1 : g[i] = f[1 + i - 1]
    BY <2>1, Piece
  <2>3. o - 1 + 1 = o /\ \A i \in 1..o : 1 + i - 1 = i
    BY <1>1
  <2> QED
    BY <2>2, <2>3
<1> HIDE DEF g
<1>3. k \in 0..o /\ (k = 0 \/ g[k] = End)
  BY <1>2, LastEndIs
<1>4. k = 0 \/ f[k] = End
  BY <1>1, <1>2, <1>3
<1>5. Rest(g) = SubSeq(f, k + 1, o)
  <2> HIDE DEF k
  <2>1. Rest(g) = SubSeq(g, k + 1, o)
    BY <1>2 DEF Rest, k
  <2>2. k + 1 \in 1..Len(g) + 1 /\ o \in (k + 1) - 1..Len(g)
    BY <1>1, <1>2, <1>3
  <2>3. k + 1 \in 1..Len(f) + 1 /\ o \in (k + 1) - 1..Len(f)
    BY <1>1, <1>3
  <2>4. /\ SubSeq(g, k + 1, o) \in Seq(S) /\ Len(SubSeq(g, k + 1, o)) = o - (k + 1) + 1
        /\ \A i \in 1..o - (k + 1) + 1 : SubSeq(g, k + 1, o)[i] = g[(k + 1) + i - 1]
    BY <1>2, <2>2, Piece
  <2>5. /\ SubSeq(f, k + 1, o) \in Seq(S) /\ Len(SubSeq(f, k + 1, o)) = o - (k + 1) + 1
        /\ \A i \in 1..o - (k + 1) + 1 : SubSeq(f, k + 1, o)[i] = f[(k + 1) + i - 1]
    BY <2>3, Piece
  <2>6. \A i \in 1..o - (k + 1) + 1 : (k + 1) + i - 1 \in 1..o
    BY <1>1, <1>3
  <2> QED
    BY <1>2, <2>1, <2>4, <2>5, <2>6, SeqEqual
<1>6. SubSeq(f, k + 1, o) \o SubSeq(f, o + 1, Len(f)) = SubSeq(f, k + 1, Len(f))
  <2> HIDE DEF k
  <2>1. k + 1 \in 1..Len(f) + 1 /\ o \in (k + 1) - 1..Len(f) /\ Len(f) \in o..Len(f)
    BY <1>1, <1>3
  <2> QED
    BY <2>1, ConcatAdjacentSubSeq
<1> QED
  BY <1>3, <1>4, <1>5, <1>6 DEF g

\* The rest of what starts at a line is the rest of the whole.
LEMMA RestFromLine ==
    ASSUME NEW S, NEW f \in Seq(S), NEW k \in 0..Len(f), k = 0 \/ f[k] = End
    PROVE  Rest(SubSeq(f, k + 1, Len(f))) = Rest(f)
<1> DEFINE b == SubSeq(f, k + 1, Len(f))
           n == Len(f)
           m == LastEnd(b)
<1>1. n \in Nat /\ k \in Nat /\ k <= n
  OBVIOUS
<1>2. b \in Seq(S) /\ Len(b) = n - k /\ \A i \in 1..n - k : b[i] = f[k + i]
  <2>1. k + 1 \in 1..Len(f) + 1 /\ n \in (k + 1) - 1..Len(f)
    BY <1>1
  <2>2. /\ b \in Seq(S) /\ Len(b) = n - (k + 1) + 1
        /\ \A i \in 1..n - (k + 1) + 1 : b[i] = f[(k + 1) + i - 1]
    BY <2>1, Piece
  <2>3. n - (k + 1) + 1 = n - k
    BY <1>1
  <2>4. ASSUME NEW i \in 1..n - k PROVE b[i] = f[k + i]
    <3>1. i \in 1..n - (k + 1) + 1 /\ (k + 1) + i - 1 = k + i
      BY <1>1
    <3> QED
      BY <2>2, <3>1
  <2> QED
    BY <2>2, <2>3, <2>4
<1> HIDE DEF b
<1>3. m \in 0..n - k /\ (m = 0 \/ b[m] = End) /\ \A i \in m + 1..n - k : b[i] # End
  BY <1>2, LastEndIs
<1> HIDE DEF m, n
<1>4. k + m \in 0..Len(f) /\ (k + m = 0 \/ f[k + m] = End)
  <2>1. k + m \in 0..n /\ (m = 0 => k + m = k) /\ (m # 0 => m \in 1..n - k)
    BY <1>1, <1>3
  <2> QED
    BY <1>2, <1>3, <2>1 DEF n
<1>5. ASSUME NEW i \in (k + m) + 1..Len(f) PROVE f[i] # End
  <2>2. i \in (k + m) + 1..n
    BY <1>5 DEF n
  <2>1. i - k \in m + 1..n - k /\ i - k \in 1..n - k /\ k + (i - k) = i
    BY <1>1, <1>3, <2>2
  <2> QED
    BY <1>2, <1>3, <2>1
<1>6. LastEnd(f) = k + m
  BY <1>4, <1>5, LastEndOnly
<1>7. Rest(b) = SubSeq(b, m + 1, n - k) /\ Rest(f) = SubSeq(f, k + m + 1, n)
  BY <1>2, <1>6 DEF Rest, m, n
<1>8. /\ SubSeq(b, m + 1, n - k) \in Seq(S) /\ Len(SubSeq(b, m + 1, n - k)) = n - k - m
      /\ \A i \in 1..n - k - m : SubSeq(b, m + 1, n - k)[i] = f[k + m + i]
  <2>1. m + 1 \in 1..Len(b) + 1 /\ n - k \in (m + 1) - 1..Len(b)
    BY <1>1, <1>2, <1>3
  <2>2. /\ SubSeq(b, m + 1, n - k) \in Seq(S) /\ Len(SubSeq(b, m + 1, n - k)) = (n - k) - (m + 1) + 1
        /\ \A i \in 1..(n - k) - (m + 1) + 1 : SubSeq(b, m + 1, n - k)[i] = b[(m + 1) + i - 1]
    BY <1>2, <2>1, Piece
  <2>3. (n - k) - (m + 1) + 1 = n - k - m
    BY <1>1, <1>3
  <2>4. \A i \in 1..n - k - m : (m + 1) + i - 1 = m + i /\ m + i \in 1..n - k /\ k + (m + i) = k + m + i
    BY <1>1, <1>3
  <2> QED
    BY <1>2, <2>2, <2>3, <2>4
<1>9. /\ SubSeq(f, k + m + 1, n) \in Seq(S) /\ Len(SubSeq(f, k + m + 1, n)) = n - k - m
      /\ \A i \in 1..n - k - m : SubSeq(f, k + m + 1, n)[i] = f[k + m + i]
  <2>1. k + m + 1 \in 1..Len(f) + 1 /\ n \in (k + m + 1) - 1..Len(f)
    BY <1>1, <1>3 DEF n
  <2>2. /\ SubSeq(f, k + m + 1, n) \in Seq(S) /\ Len(SubSeq(f, k + m + 1, n)) = n - (k + m + 1) + 1
        /\ \A i \in 1..n - (k + m + 1) + 1 : SubSeq(f, k + m + 1, n)[i] = f[(k + m + 1) + i - 1]
    BY <2>1, Piece
  <2>3. n - (k + m + 1) + 1 = n - k - m
    BY <1>1, <1>3
  <2>4. ASSUME NEW i \in 1..n - k - m PROVE SubSeq(f, k + m + 1, n)[i] = f[k + m + i]
    <3>1. i \in 1..n - (k + m + 1) + 1 /\ (k + m + 1) + i - 1 = k + m + i
      BY <1>1, <1>3
    <3> QED
      BY <2>2, <3>1
  <2> QED
    BY <2>2, <2>3, <2>4
<1> DEFINE x == SubSeq(b, m + 1, n - k)
           y == SubSeq(f, k + m + 1, n)
<1>10. x \in Seq(S) /\ y \in Seq(S) /\ Len(x) = Len(y) /\ \A i \in 1..Len(x) : x[i] = y[i]
  BY <1>8, <1>9
<1> HIDE DEF x, y
<1>11. x = y
  BY <1>10, SeqEqual
<1> QED
  BY <1>7, <1>11 DEF b, n, x, y

-----------------------------------------------------------------------------
(* Lines.                                                                  *)

\* A line of one receipt of w.
Whole(l, w) == \E r \in w : l = <<First(r), Second(r)>>

\* Halves follow one another, and what has an end is a receipt of w.
WellFormed(f, w) ==
    /\ f \in Seq(Symbol)
    /\ \A i \in 1..Len(f) :
          /\ f[i] = End => i > 2 /\ \E r \in w : f[i - 1] = Second(r) /\ f[i - 2] = First(r)
          /\ \A r \in Receipt : f[i] = Second(r) => i > 1 /\ f[i - 1] = First(r)
          /\ \A r \in Receipt : f[i] = First(r) => i = 1 \/ f[i - 1] = End

\* The part of the types the argument needs.
VaultTyped ==
    /\ file \in [Path -> Seq(Symbol)] /\ off \in [Path -> Nat] /\ partial \in [Path -> Seq(Symbol)]
    /\ written \subseteq Receipt

\* Every file holds lines of receipts that were written, the last maybe cut.
WellWritten == \A p \in Path : WellFormed(file[p], written)

\* A bridge at the start of a file holds no piece of it.
NothingHeldAtStart == \A p \in Path : off[p] = 0 => partial[p] = <<>>

\* Every line that was read is one receipt's.
WholeLines == lines \in Seq(Seq(Symbol)) /\ \A k \in 1..Len(lines) : Whole(lines[k], written)

\* The inductive invariant.
VInv == VaultTyped /\ WellWritten /\ NothingHeldAtStart /\ OffsetMatchesPartial /\ WholeLines

\* A symbol tells which receipt and which half it is.
LEMMA SymbolsDiffer ==
    ASSUME NEW r, NEW q
    PROVE  /\ First(r) # End /\ Second(r) # End /\ First(r) # Second(q)
           /\ First(r) = First(q) <=> r = q
           /\ Second(r) = Second(q) <=> r = q
           /\ <<First(r), Second(r)>>[1][2] = r /\ <<First(r), Second(r)>>[2][2] = r
BY DEF First, Second, End

LEMMA SymbolsAre == End \in Symbol /\ \A r \in Receipt : First(r) \in Symbol /\ Second(r) \in Symbol
BY DEF Symbol

\* More receipts written, the same file.
LEMMA WellFormedMore ==
    ASSUME NEW f, NEW w, NEW v, w \subseteq v, WellFormed(f, w)
    PROVE  WellFormed(f, v)
BY DEF WellFormed

LEMMA WellFormedEmpty == ASSUME NEW w PROVE WellFormed(<<>>, w)
BY DEF WellFormed

\* Where the emitter is in a line.
LEMMA LatestIs ==
    ASSUME NEW p, file[p] \in Seq(Symbol)
    PROVE  Latest(p) = IF Len(file[p]) = 0 THEN End ELSE file[p][Len(file[p])]
<1> DEFINE f == file[p]
           g == <<End>> \o f
<1>1. <<End>> \in Seq(Symbol) /\ Len(<<End>>) = 1 /\ f \in Seq(Symbol) /\ Len(f) \in Nat
  BY SymbolsAre
<1>2. /\ Len(g) = 1 + Len(f)
      /\ \A i \in 1..1 + Len(f) : g[i] = IF i <= 1 THEN <<End>>[i] ELSE f[i - 1]
  BY <1>1, ConcatProperties
<1>3. 1 + Len(f) \in 1..1 + Len(f) /\ (1 + Len(f)) - 1 = Len(f) /\ (1 + Len(f) <= 1 <=> Len(f) = 0)
  BY <1>1
<1>4. g[1 + Len(f)] = IF Len(f) = 0 THEN <<End>>[1 + Len(f)] ELSE f[Len(f)]
  BY <1>2, <1>3
<1> QED
  BY <1>2, <1>4 DEF Latest, Last

\* A sequence and one more element.
LEMMA Extended ==
    ASSUME NEW f \in Seq(Symbol), NEW x \in Symbol
    PROVE  LET g == Append(f, x)
           IN /\ g \in Seq(Symbol) /\ Len(g) = Len(f) + 1 /\ g[Len(f) + 1] = x
              /\ \A i \in 1..Len(f) : g[i] = f[i]
BY AppendProperties

\* Halves and ends put in order keep a file well formed.
LEMMA WellFormedLonger ==
    ASSUME NEW f, NEW w \in SUBSET Receipt, WellFormed(f, w), NEW x, NEW r \in Receipt,
           \/ x = First(r) /\ (Len(f) = 0 \/ f[Len(f)] = End)
           \/ x = Second(r) /\ Len(f) > 0 /\ f[Len(f)] = First(r)
           \/ x = End /\ Len(f) > 0 /\ f[Len(f)] = Second(r) /\ r \in w
    PROVE  WellFormed(Append(f, x), w)
<1> DEFINE g == Append(f, x)
           n == Len(f)
<1>1. f \in Seq(Symbol) /\ x \in Symbol /\ n \in Nat
  BY SymbolsAre DEF WellFormed
<1>2. g \in Seq(Symbol) /\ Len(g) = n + 1 /\ g[n + 1] = x /\ \A i \in 1..n : g[i] = f[i]
  BY <1>1, Extended
<1> HIDE DEF g, n
<1>3. ASSUME NEW i \in 1..n
      PROVE  /\ g[i] = End => i > 2 /\ \E q \in w : g[i - 1] = Second(q) /\ g[i - 2] = First(q)
             /\ \A q \in Receipt : g[i] = Second(q) => i > 1 /\ g[i - 1] = First(q)
             /\ \A q \in Receipt : g[i] = First(q) => i = 1 \/ g[i - 1] = End
  <2>1. /\ f[i] = End => i > 2 /\ \E q \in w : f[i - 1] = Second(q) /\ f[i - 2] = First(q)
        /\ \A q \in Receipt : f[i] = Second(q) => i > 1 /\ f[i - 1] = First(q)
        /\ \A q \in Receipt : f[i] = First(q) => i = 1 \/ f[i - 1] = End
    BY <1>1 DEF WellFormed, n
  <2>2. g[i] = f[i] /\ (i > 1 => g[i - 1] = f[i - 1]) /\ (i > 2 => g[i - 2] = f[i - 2]) /\ (i = 1 \/ i > 1)
    BY <1>1, <1>2
  <2> QED
    BY <2>1, <2>2
<1>4. /\ x = End => n + 1 > 2 /\ \E q \in w : g[(n + 1) - 1] = Second(q) /\ g[(n + 1) - 2] = First(q)
      /\ \A q \in Receipt : x = Second(q) => n + 1 > 1 /\ g[(n + 1) - 1] = First(q)
      /\ \A q \in Receipt : x = First(q) => n + 1 = 1 \/ g[(n + 1) - 1] = End
  <2>1. (n + 1) - 1 = n /\ (n > 0 => n \in 1..n)
    BY <1>1
  <2>2. n > 0 => g[(n + 1) - 1] = f[n]
    BY <1>2, <2>1
  <2>3. CASE x = First(r)
    <3>1. n = 0 \/ (n > 0 /\ f[n] = End)
      BY <1>1, <2>3, SymbolsDiffer DEF n
    <3> QED
      BY <2>2, <2>3, <3>1, SymbolsDiffer
  <2>4. CASE x = Second(r)
    <3>1. n > 0 /\ f[n] = First(r)
      BY <2>4, SymbolsDiffer DEF n
    <3> QED
      BY <1>1, <2>2, <2>4, <3>1, SymbolsDiffer
  <2>5. CASE x = End
    <3>1. n > 0 /\ f[n] = Second(r) /\ r \in w
      BY <2>5, SymbolsDiffer DEF n
    <3>2. n > 1 /\ f[n - 1] = First(r)
      BY <2>1, <3>1 DEF WellFormed, n
    <3>3. n - 1 \in 1..n /\ (n + 1) - 2 = n - 1 /\ n + 1 > 2
      BY <1>1, <3>2
    <3>4. g[(n + 1) - 1] = Second(r) /\ g[(n + 1) - 2] = First(r)
      BY <1>2, <2>2, <3>1, <3>2, <3>3
    <3> QED
      BY <2>5, <3>1, <3>3, <3>4, SymbolsDiffer
  <2> QED
    BY <2>3, <2>4, <2>5
<1>5. ASSUME NEW i \in 1..Len(g)
      PROVE  /\ g[i] = End => i > 2 /\ \E q \in w : g[i - 1] = Second(q) /\ g[i - 2] = First(q)
             /\ \A q \in Receipt : g[i] = Second(q) => i > 1 /\ g[i - 1] = First(q)
             /\ \A q \in Receipt : g[i] = First(q) => i = 1 \/ g[i - 1] = End
  <2>1. i \in 1..n \/ i = n + 1
    BY <1>1, <1>2
  <2> QED
    BY <1>2, <1>3, <1>4, <2>1
<1> QED
  BY <1>2, <1>5 DEF WellFormed, g

\* The line before an end of what starts at a line.
LEMMA LineIsWhole ==
    ASSUME NEW f, NEW w \in SUBSET Receipt, WellFormed(f, w),
           NEW k \in 0..Len(f), k = 0 \/ f[k] = End,
           NEW i \in Ends(SubSeq(f, k + 1, Len(f)))
    PROVE  Whole(LineBefore(SubSeq(f, k + 1, Len(f)), i), w)
<1> DEFINE b == SubSeq(f, k + 1, Len(f))
           n == Len(f)
<1>1. f \in Seq(Symbol) /\ n \in Nat /\ k \in Nat /\ k <= n
  BY DEF WellFormed
<1>2. b \in Seq(Symbol) /\ Len(b) = n - k /\ \A j \in 1..n - k : b[j] = f[k + j]
  <2>1. k + 1 \in 1..Len(f) + 1 /\ n \in (k + 1) - 1..Len(f)
    BY <1>1
  <2>2. /\ b \in Seq(Symbol) /\ Len(b) = n - (k + 1) + 1
        /\ \A j \in 1..n - (k + 1) + 1 : b[j] = f[(k + 1) + j - 1]
    BY <1>1, <2>1, Piece
  <2>3. n - (k + 1) + 1 = n - k
    BY <1>1
  <2>4. ASSUME NEW j \in 1..n - k PROVE b[j] = f[k + j]
    <3>1. j \in 1..n - (k + 1) + 1 /\ (k + 1) + j - 1 = k + j
      BY <1>1
    <3> QED
      BY <2>2, <3>1
  <2> QED
    BY <2>2, <2>3, <2>4
<1> HIDE DEF b
<1>3. i \in 1..n - k /\ b[i] = End
  BY <1>2 DEF Ends, b
<1> HIDE DEF n
<1>4. k + i \in 1..n /\ f[k + i] = End
  BY <1>1, <1>2, <1>3
<1>5. PICK r \in w : k + i > 2 /\ f[(k + i) - 1] = Second(r) /\ f[(k + i) - 2] = First(r)
  BY <1>4 DEF WellFormed, n
<1>6. i > 2
  <2>1. CASE i = 1
    <3>1. (k + i) - 1 = k /\ k # 0
      BY <1>1, <1>5, <2>1
    <3> QED
      BY <1>5, <3>1, SymbolsDiffer
  <2>2. CASE i = 2
    <3>1. (k + i) - 2 = k /\ k # 0
      BY <1>1, <1>5, <2>2
    <3> QED
      BY <1>5, <3>1, SymbolsDiffer
  <2> QED
    BY <1>3, <2>1, <2>2
<1>7. b[i - 1] = Second(r) /\ b[i - 2] = First(r) /\ i - 1 \in 1..n - k /\ i - 2 \in 1..n - k
  <2>1. i - 1 \in 1..n - k /\ i - 2 \in 1..n - k /\ k + (i - 1) = (k + i) - 1 /\ k + (i - 2) = (k + i) - 2
    BY <1>1, <1>3, <1>6
  <2> QED
    BY <1>2, <1>5, <2>1
<1>8. i > 3 => i - 3 \in 1..n - k /\ b[i - 3] = End
  <2> SUFFICES ASSUME i > 3 PROVE i - 3 \in 1..n - k /\ b[i - 3] = End
    OBVIOUS
  <2>1. i - 3 \in 1..n - k /\ k + (i - 3) = ((k + i) - 2) - 1 /\ (k + i) - 2 \in 1..n /\ (k + i) - 2 # 1
    BY <1>1, <1>3
  <2>2. f[((k + i) - 2) - 1] = End
    BY <1>5, <2>1 DEF WellFormed, n
  <2> QED
    BY <1>2, <2>1, <2>2
<1> DEFINE before == {j \in Ends(b) : j < i}
           from == IF before = {} THEN 1 ELSE Max(before) + 1
<1>9. before \subseteq 1..n - k /\ n - k \in Nat
  BY <1>1, <1>2 DEF Ends
<1>10. \A j \in before : j <= i - 3
  <2> SUFFICES ASSUME NEW j \in before PROVE j <= i - 3
    OBVIOUS
  <2>1. j \in 1..n - k /\ j < i /\ b[j] = End
    BY <1>2 DEF Ends
  <2>2. j # i - 1 /\ j # i - 2
    BY <1>7, <2>1, SymbolsDiffer
  <2> QED
    BY <1>3, <2>1, <2>2
<1>11. i > 3 => i - 3 \in before
  BY <1>1, <1>2, <1>3, <1>8 DEF Ends
<1> HIDE DEF before
<1>12. from = i - 2
  <2>1. CASE before = {}
    <3>1. i = 3
      BY <1>3, <1>6, <1>11, <2>1
    <3> QED
      BY <2>1, <3>1
  <2>2. CASE before # {}
    <3>1. Max(before) \in before /\ \A x \in before : x <= Max(before)
      BY <1>9, <2>2, GreatestOf
    <3>2. Max(before) \in 1..n - k /\ Max(before) <= i - 3
      BY <1>9, <1>10, <3>1
    <3>3. i > 3
      BY <1>1, <1>3, <3>2
    <3>4. i - 3 <= Max(before)
      BY <1>11, <3>1, <3>3
    <3>5. Max(before) = i - 3
      BY <1>1, <1>3, <3>2, <3>4
    <3> QED
      BY <1>3, <2>2, <3>5
  <2> QED
    BY <2>1, <2>2
<1>13. LineBefore(b, i) = SubSeq(b, i - 2, i - 1)
  <2>1. LineBefore(b, i) = SubSeq(b, from, i - 1)
    BY DEF LineBefore, before
  <2> HIDE DEF from
  <2> QED
    BY <1>12, <2>1
<1>14. SubSeq(b, i - 2, i - 1) = <<First(r), Second(r)>>
  <2> DEFINE l == SubSeq(b, i - 2, i - 1)
             t == <<First(r), Second(r)>>
  <2>1. i - 2 \in 1..Len(b) + 1 /\ i - 1 \in (i - 2) - 1..Len(b)
    <3>1. Len(b) = n - k /\ n - k \in Nat /\ i \in Int /\ i > 2 /\ i <= n - k
      BY <1>1, <1>2, <1>3, <1>6
    <3> QED
      BY <3>1
  <2>2. /\ l \in Seq(Symbol) /\ Len(l) = (i - 1) - (i - 2) + 1
        /\ \A j \in 1..(i - 1) - (i - 2) + 1 : l[j] = b[(i - 2) + j - 1]
    BY <1>2, <2>1, Piece
  <2>3. /\ (i - 1) - (i - 2) + 1 = 2 /\ (i - 2) + 1 - 1 = i - 2 /\ (i - 2) + 2 - 1 = i - 1
    BY <1>3
  <2>4. Len(l) = 2 /\ l[1] = First(r) /\ l[2] = Second(r)
    <3>1. 1 \in 1..(i - 1) - (i - 2) + 1 /\ 2 \in 1..(i - 1) - (i - 2) + 1
      BY <2>3
    <3>2. l[1] = b[(i - 2) + 1 - 1] /\ l[2] = b[(i - 2) + 2 - 1]
      BY <2>2, <3>1
    <3> QED
      BY <1>7, <2>2, <2>3, <3>2
  <2>5. t \in Seq(Symbol) /\ Len(t) = 2 /\ t[1] = First(r) /\ t[2] = Second(r)
    BY SymbolsAre
  <2> HIDE DEF l, t
  <2>6. Len(l) = Len(t) /\ \A j \in 1..Len(l) : l[j] = t[j]
    BY <2>4, <2>5
  <2>7. l = t
    BY <2>2, <2>5, <2>6, SeqEqual
  <2> QED
    BY <2>7 DEF l, t
<1> QED
  BY <1>13, <1>14 DEF Whole, b

\* All the lines of a file from the start of one (tailFile).
LEMMA LinesAreWhole ==
    ASSUME NEW f, NEW w \in SUBSET Receipt, WellFormed(f, w),
           NEW k \in 0..Len(f), k = 0 \/ f[k] = End
    PROVE  LET all == Lines(SubSeq(f, k + 1, Len(f)))
           IN all \in Seq(Seq(Symbol)) /\ \A j \in 1..Len(all) : Whole(all[j], w)
<1> DEFINE b == SubSeq(f, k + 1, Len(f))
           at == Ascending(Ends(b))
           c == Cardinality(Ends(b))
           all == Lines(b)
<1>1. f \in Seq(Symbol) /\ Len(f) \in Nat
  BY DEF WellFormed
<1>2. b \in Seq(Symbol)
  <2>1. k + 1 \in 1..Len(f) + 1 /\ Len(f) \in (k + 1) - 1..Len(f)
    BY <1>1
  <2> QED
    BY <1>1, <2>1, Piece
<1>3. \A i \in Ends(b) : Whole(LineBefore(b, i), w)
  BY LineIsWhole
<1> HIDE DEF b
<1>4. Len(b) \in Nat /\ Ends(b) \in SUBSET (1..Len(b))
  BY <1>2 DEF Ends
<1>5. at \in [1..c -> Ends(b)] /\ c \in Nat
  BY <1>4, AscendingIs
<1>6. all = [j \in 1..c |-> LineBefore(b, at[j])]
  BY <1>5 DEF Lines
<1> HIDE DEF at, c
<1>7. \A j \in 1..c : Whole(all[j], w)
  BY <1>3, <1>5, <1>6
<1>8. \A l : Whole(l, w) => l \in Seq(Symbol)
  BY SymbolsAre DEF Whole
<1>9. all \in [1..c -> Seq(Symbol)]
  BY <1>6, <1>7, <1>8
<1> HIDE DEF all
<1>10. all \in Seq(Seq(Symbol)) /\ Len(all) = c
  BY <1>5, <1>9
<1> QED
  BY <1>7, <1>10 DEF all, b

\* Nothing is held of nothing.
LEMMA RestOfNone == ASSUME NEW s PROVE Rest(SubSeq(s, 1, 0)) = <<>>
<1>1. SubSeq(s, 1, 0) = <<>>
  BY SubSeqEmpty
<1>2. LastEnd(<<>>) = 0
  BY DEF LastEnd, Ends
<1>3. SubSeq(<<>>, 1, 0) = <<>>
  BY SubSeqEmpty
<1> QED
  BY <1>1, <1>2, <1>3 DEF Rest

-----------------------------------------------------------------------------
(* The steps.                                                              *)

\* A longer file has the same start.
LEMMA StartKept ==
    ASSUME NEW S, NEW f \in Seq(S), NEW x \in S, NEW o \in 0..Len(f)
    PROVE  SubSeq(Append(f, x), 1, o) = SubSeq(f, 1, o)
<1> DEFINE g == Append(f, x)
<1>1. Len(f) \in Nat /\ o \in Nat /\ o <= Len(f)
  OBVIOUS
<1>2. g \in Seq(S) /\ Len(g) = Len(f) + 1 /\ \A i \in 1..Len(f) : g[i] = f[i]
  BY AppendProperties
<1> HIDE DEF g
<1>3. 1 \in 1..Len(g) + 1 /\ o \in 1 - 1..Len(g) /\ 1 \in 1..Len(f) + 1 /\ o \in 1 - 1..Len(f)
  BY <1>1, <1>2
<1>4. /\ SubSeq(g, 1, o) \in Seq(S) /\ Len(SubSeq(g, 1, o)) = o - 1 + 1
      /\ \A i \in 1..o - 1 + 1 : SubSeq(g, 1, o)[i] = g[1 + i - 1]
  BY <1>2, <1>3, Piece
<1>5. /\ SubSeq(f, 1, o) \in Seq(S) /\ Len(SubSeq(f, 1, o)) = o - 1 + 1
      /\ \A i \in 1..o - 1 + 1 : SubSeq(f, 1, o)[i] = f[1 + i - 1]
  BY <1>3, Piece
<1>6. \A i \in 1..o - 1 + 1 : 1 + i - 1 \in 1..Len(f)
  BY <1>1
<1> DEFINE a == SubSeq(g, 1, o)
           b == SubSeq(f, 1, o)
<1>7. a \in Seq(S) /\ b \in Seq(S) /\ Len(a) = Len(b) /\ \A i \in 1..Len(a) : a[i] = b[i]
  BY <1>2, <1>4, <1>5, <1>6
<1> HIDE DEF a, b
<1>8. a = b
  BY <1>7, SeqEqual
<1> QED
  BY <1>8 DEF a, b, g

LEMMA InitKeeps == ASSUME Init PROVE VInv
<1>1. VaultTyped /\ WellWritten /\ NothingHeldAtStart /\ WholeLines
  BY WellFormedEmpty DEF Init, VaultTyped, WellWritten, NothingHeldAtStart, WholeLines
<1>2. OffsetMatchesPartial
  BY RestOfNone DEF Init, OffsetMatchesPartial
<1> QED
  BY <1>1, <1>2 DEF VInv

\* What the emitter does to a file keeps the invariant.
LEMMA AppendKeeps ==
    ASSUME VInv, ~Rewrites, NEW p \in Path, NEW x, Append1(p, x),
           written \subseteq written', written' \subseteq Receipt,
           NEW r \in Receipt,
           \/ x = First(r) /\ Latest(p) = End
           \/ x = Second(r) /\ Latest(p) = First(r)
           \/ x = End /\ Latest(p) = Second(r) /\ r \in written'
    PROVE  VInv'
<1> DEFINE f == file[p]
<1>1. /\ VaultTyped /\ WellWritten /\ NothingHeldAtStart /\ OffsetMatchesPartial /\ WholeLines
      /\ f \in Seq(Symbol) /\ Len(f) \in Nat /\ off[p] \in Nat
  BY DEF VInv, VaultTyped
<1>2. x \in Symbol
  BY SymbolsAre
<1>3. /\ file' = [file EXCEPT ![p] = Append(f, x)]
      /\ off[p] <= Len(f) \/ Len(f) + 1 < off[p]
      /\ UNCHANGED <<off, partial, lines>>
  <2>1. off[p] <= Len(f) \/ Len(f) + 1 < off[p]
    BY <1>1 DEF Append1
  <2> QED
    BY <2>1 DEF Append1, bridge
<1>4. VaultTyped'
  <2>1. Append(f, x) \in Seq(Symbol)
    BY <1>1, <1>2, Extended
  <2> QED
    BY <1>1, <1>3, <2>1 DEF VaultTyped
<1>5. WellWritten'
  <2>1. WellFormed(f, written')
    BY <1>1, WellFormedMore DEF WellWritten
  <2>2. \/ x = First(r) /\ (Len(f) = 0 \/ f[Len(f)] = End)
        \/ x = Second(r) /\ Len(f) > 0 /\ f[Len(f)] = First(r)
        \/ x = End /\ Len(f) > 0 /\ f[Len(f)] = Second(r) /\ r \in written'
    <3>1. Latest(p) = IF Len(f) = 0 THEN End ELSE f[Len(f)]
      BY <1>1, LatestIs
    <3>2. First(r) # End /\ Second(r) # End
      BY SymbolsDiffer
    <3>3. Len(f) = 0 \/ Len(f) > 0
      BY <1>1
    <3> HIDE DEF f
    <3> QED
      BY <3>1, <3>2, <3>3
  <2>3. WellFormed(Append(f, x), written')
    <3> HIDE DEF f
    <3> QED
      BY <2>1, <2>2, WellFormedLonger
  <2>4. ASSUME NEW q \in Path PROVE WellFormed(file'[q], written')
    <3>1. CASE q = p
      BY <1>1, <1>3, <2>3, <3>1 DEF VaultTyped
    <3>2. CASE q # p
      <4>1. file'[q] = file[q] /\ WellFormed(file[q], written)
        BY <1>1, <1>3, <3>2 DEF WellWritten, VaultTyped
      <4> QED
        BY <4>1, WellFormedMore
    <3> QED
      BY <3>1, <3>2
  <2> QED
    BY <2>4 DEF WellWritten
<1>6. NothingHeldAtStart'
  BY <1>1, <1>3 DEF NothingHeldAtStart
<1>7. OffsetMatchesPartial'
  <2>1. /\ off[p] <= Len(f) => off[p] \in 0..Len(f)
        /\ Len(Append(f, x)) = Len(f) + 1
    BY <1>1, <1>2
  <2>2. off[p] <= Len(f) => SubSeq(Append(f, x), 1, off[p]) = SubSeq(f, 1, off[p])
    BY <1>1, <1>2, <2>1, StartKept
  <2>3. ASSUME NEW q \in Path, off'[q] <= Len(file'[q])
        PROVE  partial'[q] = Rest(SubSeq(file'[q], 1, off'[q]))
    <3>1. CASE q = p
      <4>1. file'[p] = Append(f, x) /\ off[p] <= Len(f)
        BY <1>1, <1>3, <2>1, <2>3, <3>1 DEF VaultTyped
      <4>2. partial[p] = Rest(SubSeq(f, 1, off[p]))
        BY <1>1, <4>1 DEF OffsetMatchesPartial
      <4> QED
        BY <1>3, <2>2, <3>1, <4>1, <4>2
    <3>2. CASE q # p
      <4>1. file'[q] = file[q]
        BY <1>1, <1>3, <3>2 DEF VaultTyped
      <4> QED
        BY <1>1, <1>3, <2>3, <4>1 DEF OffsetMatchesPartial
    <3> QED
      BY <3>1, <3>2
  <2> QED
    BY <2>3 DEF OffsetMatchesPartial
<1>8. WholeLines'
  BY <1>1, <1>3 DEF WholeLines, Whole
<1> QED
  BY <1>4, <1>5, <1>6, <1>7, <1>8 DEF VInv

\* A rotation: an offset of 0 holds nothing, any other is past the end.
LEMMA TruncateKeeps == ASSUME VInv, NEW p \in Path, Truncate(p) PROVE VInv'
<1>1. /\ VaultTyped /\ WellWritten /\ NothingHeldAtStart /\ OffsetMatchesPartial /\ WholeLines
      /\ off[p] \in Nat
  BY DEF VInv, VaultTyped
<1>2. file' = [file EXCEPT ![p] = <<>>] /\ UNCHANGED <<written, off, partial, lines>>
  BY DEF Truncate, bridge
<1>3. VaultTyped' /\ NothingHeldAtStart' /\ WholeLines'
  BY <1>1, <1>2 DEF VaultTyped, NothingHeldAtStart, WholeLines
<1>4. WellWritten'
  BY <1>1, <1>2, WellFormedEmpty DEF WellWritten, VaultTyped
<1>5. OffsetMatchesPartial'
  <2>1. ASSUME NEW q \in Path, off'[q] <= Len(file'[q])
        PROVE  partial'[q] = Rest(SubSeq(file'[q], 1, off'[q]))
    <3>1. CASE q = p
      <4>1. file'[p] = <<>> /\ off'[p] = 0
        BY <1>1, <1>2, <2>1, <3>1 DEF VaultTyped
      <4>2. partial'[p] = <<>>
        BY <1>1, <1>2, <4>1 DEF NothingHeldAtStart
      <4> QED
        BY <3>1, <4>1, <4>2, RestOfNone
    <3>2. CASE q # p
      <4>1. file'[q] = file[q]
        BY <1>1, <1>2, <3>2 DEF VaultTyped
      <4> QED
        BY <1>1, <1>2, <2>1, <4>1 DEF OffsetMatchesPartial
    <3> QED
      BY <3>1, <3>2
  <2> QED
    BY <2>1 DEF OffsetMatchesPartial
<1> QED
  BY <1>3, <1>4, <1>5 DEF VInv

\* The bridge sees a file shorter than its offset and starts it again.
LEMMA StatKeeps == ASSUME VInv, NEW p \in Path, Stat(p) PROVE VInv'
<1> DEFINE shrunk == Len(file[p]) < off[p]
<1>1. /\ VaultTyped /\ WellWritten /\ NothingHeldAtStart /\ OffsetMatchesPartial /\ WholeLines
      /\ off[p] \in Nat /\ Len(file[p]) \in Nat
  BY DEF VInv, VaultTyped
<1>2. /\ off' = [off EXCEPT ![p] = IF shrunk THEN 0 ELSE @]
      /\ partial' = [partial EXCEPT ![p] = IF shrunk THEN <<>> ELSE @]
      /\ UNCHANGED <<written, file, lines>>
  BY DEF Stat, files
<1>3. VaultTyped' /\ WellWritten' /\ WholeLines'
  BY <1>1, <1>2 DEF VaultTyped, WholeLines, WellWritten
<1>4. NothingHeldAtStart'
  BY <1>1, <1>2 DEF NothingHeldAtStart, VaultTyped
<1>5. OffsetMatchesPartial'
  <2>1. ASSUME NEW q \in Path, off'[q] <= Len(file'[q])
        PROVE  partial'[q] = Rest(SubSeq(file'[q], 1, off'[q]))
    <3>1. CASE q = p /\ shrunk
      <4>1. off'[p] = 0 /\ partial'[p] = <<>>
        BY <1>1, <1>2, <3>1 DEF VaultTyped
      <4> QED
        BY <3>1, <4>1, RestOfNone
    <3>2. CASE ~(q = p /\ shrunk)
      <4>1. off'[q] = off[q] /\ partial'[q] = partial[q] /\ file'[q] = file[q]
        BY <1>1, <1>2, <3>2 DEF VaultTyped
      <4> QED
        BY <1>1, <2>1, <4>1 DEF OffsetMatchesPartial
    <3> QED
      BY <3>1, <3>2
  <2> QED
    BY <2>1 DEF OffsetMatchesPartial
<1> QED
  BY <1>3, <1>4, <1>5 DEF VInv

\* What is held with what is read on is the file from the start of a line: its
\* lines are whole and its rest is the rest of the file.
LEMMA ReadKeeps == ASSUME VInv, NEW p \in Path, Read(p) PROVE VInv'
<1> DEFINE f == file[p]
           o == off[p]
           chunk == SubSeq(f, o + 1, Len(f))
           buf == partial[p] \o chunk
<1>1. /\ VaultTyped /\ WellWritten /\ NothingHeldAtStart /\ OffsetMatchesPartial /\ WholeLines
      /\ o \in Nat /\ f \in Seq(Symbol) /\ Len(f) \in Nat /\ WellFormed(f, written)
      /\ written \in SUBSET Receipt
  BY DEF VInv, VaultTyped, WellWritten
<1>2. UNCHANGED <<file, written>>
  BY DEF Read, files
<1>3. WellWritten'
  BY <1>1, <1>2 DEF WellWritten
<1>4. CASE chunk = <<>>
  <2>1. UNCHANGED <<off, partial, lines>>
    BY <1>4 DEF Read
  <2> QED
    BY <1>1, <1>2, <2>1
       DEF VInv, VaultTyped, WellWritten, NothingHeldAtStart, OffsetMatchesPartial, WholeLines
<1>5. CASE chunk # <<>>
  <2>1. /\ off' = [off EXCEPT ![p] = o + Len(chunk)]
        /\ lines' = Lines(buf)
        /\ partial' = [partial EXCEPT ![p] = Rest(buf)]
    BY <1>5 DEF Read
  <2>2. o < Len(f)
    <3> SUFFICES ASSUME ~(o < Len(f)) PROVE FALSE
      OBVIOUS
    <3>1. o + 1 \in Int /\ Len(f) \in Int /\ Len(f) < o + 1
      BY <1>1
    <3>2. chunk = <<>>
      BY <3>1, SubSeqEmpty
    <3> QED
      BY <1>5, <3>2
  <2>3. o \in 0..Len(f) /\ partial[p] = Rest(SubSeq(f, 1, o))
    BY <1>1, <2>2 DEF OffsetMatchesPartial
  <2>4. PICK k \in 0..o : (k = 0 \/ f[k] = End) /\ buf = SubSeq(f, k + 1, Len(f))
    <3> DEFINE at == LastEnd(SubSeq(f, 1, o))
    <3>1. /\ at \in 0..o /\ (at = 0 \/ f[at] = End)
          /\ Rest(SubSeq(f, 1, o)) \o chunk = SubSeq(f, at + 1, Len(f))
      BY <1>1, <2>3, HeldAndRead
    <3> HIDE DEF at, chunk, f, o
    <3> QED
      BY <2>3, <3>1
  <2>5. k \in 0..Len(f)
    BY <1>1, <2>3, <2>4
  <2>6. o + Len(chunk) = Len(f)
    <3>1. o + 1 \in 1..Len(f) + 1 /\ Len(f) \in (o + 1) - 1..Len(f)
      BY <1>1, <2>2
    <3>2. Len(chunk) = Len(f) - (o + 1) + 1
      BY <1>1, <3>1, Piece
    <3> QED
      BY <1>1, <3>2
  <2>7. Rest(buf) = Rest(f)
    <3> HIDE DEF f, o, buf
    <3> QED
      BY <1>1, <2>4, <2>5, RestFromLine
  <2>8. SubSeq(f, 1, Len(f)) = f
    BY <1>1, SubSeqFull
  <2>9. Rest(f) \in Seq(Symbol)
    <3>1. LastEnd(f) \in 0..Len(f)
      BY <1>1, LastEndIs
    <3>2. LastEnd(f) + 1 \in 1..Len(f) + 1 /\ Len(f) \in (LastEnd(f) + 1) - 1..Len(f)
      BY <1>1, <3>1
    <3> QED
      BY <1>1, <3>2, Piece DEF Rest
  <2>10. Lines(buf) \in Seq(Seq(Symbol)) /\ \A j \in 1..Len(Lines(buf)) : Whole(Lines(buf)[j], written)
    <3> DEFINE all == Lines(SubSeq(f, k + 1, Len(f)))
    <3>1. all \in Seq(Seq(Symbol)) /\ \A j \in 1..Len(all) : Whole(all[j], written)
      BY <1>1, <2>4, <2>5, LinesAreWhole
    <3>2. Lines(buf) = all
      BY <2>4
    <3> HIDE DEF all, buf
    <3> QED
      BY <3>1, <3>2
  <2> HIDE DEF buf, chunk
  <2>11. off' = [off EXCEPT ![p] = Len(f)] /\ partial' = [partial EXCEPT ![p] = Rest(f)]
    BY <2>1, <2>6, <2>7
  <2>12. VaultTyped' /\ WholeLines'
    <3>1. VaultTyped'
      BY <1>1, <1>2, <2>9, <2>11 DEF VaultTyped
    <3>2. WholeLines'
      BY <1>2, <2>1, <2>10 DEF WholeLines, Whole
    <3> QED
      BY <3>1, <3>2
  <2>13. off'[p] = Len(f) /\ partial'[p] = Rest(f) /\ file'[p] = f
         /\ \A q \in Path : q # p => off'[q] = off[q] /\ partial'[q] = partial[q]
    BY <1>1, <1>2, <2>11 DEF VaultTyped
  <2>14. file' = file
    BY <1>2
  <2>15. NothingHeldAtStart'
    <3>1. Len(f) # 0
      BY <1>1, <2>2
    <3> QED
      BY <1>1, <2>13, <3>1 DEF NothingHeldAtStart
  <2>16. OffsetMatchesPartial'
    BY <1>1, <2>8, <2>13, <2>14 DEF OffsetMatchesPartial
  <2> QED
    BY <1>3, <2>12, <2>15, <2>16 DEF VInv
<1> QED
  BY <1>4, <1>5

LEMMA SaveLineKeeps == ASSUME VInv, SaveLine PROVE VInv'
<1>1. /\ lines # <<>> /\ lines' = Tail(lines)
      /\ UNCHANGED <<file, off, partial, written>>
  BY DEF SaveLine, files
<1>2. WholeLines'
  <2>1. lines \in Seq(Seq(Symbol)) /\ \A k \in 1..Len(lines) : Whole(lines[k], written)
    BY DEF VInv, WholeLines
  <2>2. /\ Tail(lines) \in Seq(Seq(Symbol)) /\ Len(Tail(lines)) = Len(lines) - 1
        /\ \A i \in 1..Len(Tail(lines)) : Tail(lines)[i] = lines[i + 1]
    BY <1>1, <2>1, HeadTailProperties
  <2>3. \A i \in 1..Len(Tail(lines)) : i + 1 \in 1..Len(lines)
    BY <2>1, <2>2
  <2> QED
    BY <1>1, <2>1, <2>2, <2>3 DEF WholeLines, Whole
<1> QED
  BY <1>1, <1>2 DEF VInv, VaultTyped, WellWritten, NothingHeldAtStart, OffsetMatchesPartial

LEMMA RestartKeeps == ASSUME VInv, Restart PROVE VInv'
<1>1. /\ off' = [p \in Path |-> 0] /\ partial' = [p \in Path |-> <<>>] /\ lines' = <<>>
      /\ UNCHANGED <<file, written>>
  BY DEF Restart, files
<1>2. VaultTyped' /\ WellWritten' /\ NothingHeldAtStart' /\ WholeLines'
  BY <1>1 DEF VInv, VaultTyped, WellWritten, NothingHeldAtStart, WholeLines
<1>3. OffsetMatchesPartial'
  BY <1>1, RestOfNone DEF OffsetMatchesPartial
<1> QED
  BY <1>2, <1>3 DEF VInv

LEMMA StepKeeps == ASSUME VInv, ~Rewrites, [Next]_vars PROVE VInv'
<1>1. CASE UNCHANGED vars
  BY <1>1 DEF vars, files, bridge, VInv, VaultTyped, WellWritten, NothingHeldAtStart,
              OffsetMatchesPartial, WholeLines
<1>2. ASSUME NEW p \in Path, NEW r \in Receipt, Begin(p, r) \/ Finish(p, r) \/ EndLine(p, r)
      PROVE  VInv'
  <2>1. written \subseteq Receipt
    BY DEF VInv, VaultTyped
  <2>2. CASE Begin(p, r)
    BY <2>1, <2>2, AppendKeeps DEF Begin
  <2>3. CASE Finish(p, r)
    BY <2>1, <2>3, AppendKeeps DEF Finish
  <2>4. CASE EndLine(p, r)
    <3>1. written \subseteq written' /\ written' \subseteq Receipt /\ r \in written'
      BY <2>1, <2>4 DEF EndLine
    <3> QED
      BY <2>4, <3>1, AppendKeeps DEF EndLine
  <2> QED
    BY <1>2, <2>2, <2>3, <2>4
<1> QED
  BY <1>1, <1>2, TruncateKeeps, StatKeeps, ReadKeeps, SaveLineKeeps, RestartKeeps DEF Next

\* OffsetMatchesPartial: as long as a file is not shorter than the offset, the
\* held piece is what follows the last line end before the offset, however
\* writes, rotations, polls and restarts interleave (tailFile).
THEOREM OffsetsMatch == ASSUME ~Rewrites PROVE Spec => []OffsetMatchesPartial
<1>1. Init => VInv
  BY InitKeeps
<1>2. VInv /\ [Next]_vars => VInv'
  BY StepKeeps
<1>3. VInv => OffsetMatchesPartial
  BY DEF VInv
<1> QED
  BY <1>1, <1>2, <1>3, PTL DEF Spec

-----------------------------------------------------------------------------
(* The refinement.                                                         *)

LEMMA InitTable == Init => Table!Init
BY DEF Init, Table!Init

\* A line that is saved is one receipt, which was written.
LEMMA SaveLineStores ==
    ASSUME VInv, SaveLine
    PROVE  UNCHANGED written /\ (UNCHANGED rows \/ \E r \in Receipt \X Receipt : Table!Store(r))
<1>1. UNCHANGED written
  BY DEF SaveLine, files
<1>2. CASE UNCHANGED rows
  BY <1>1, <1>2
<1>3. CASE ~UNCHANGED rows
  <2> DEFINE l == Head(lines)
             row == RowOf(l)
  <2>1. SaveReceipt(row) /\ lines # <<>>
    BY <1>3 DEF SaveLine
  <2>2. Whole(l, written)
    <3>1. lines \in Seq(Seq(Symbol)) /\ \A k \in 1..Len(lines) : Whole(lines[k], written)
      BY DEF VInv, WholeLines
    <3>2. 1 \in 1..Len(lines) /\ l = lines[1]
      BY <2>1, <3>1
    <3> QED
      BY <3>1, <3>2
  <2>3. PICK r \in written : l = <<First(r), Second(r)>>
    BY <2>2 DEF Whole
  <2>4. row = <<r, r>>
    BY <2>3, SymbolsDiffer DEF RowOf
  <2>5. r \in Receipt
    BY DEF VInv, VaultTyped
  <2> HIDE DEF l, row
  <2>6. /\ rows' = rows \cup {row}
        /\ \A s \in rows : s[1] # row[1] /\ ~SameSwap(s[2], row[2])
    BY <1>3, <2>1 DEF SaveReceipt
  <2>7. Table!Store(<<r, r>>)
    BY <1>1, <2>4, <2>6 DEF Table!Store, Table!Clash, SameSwap
  <2> QED
    BY <1>1, <2>5, <2>7
<1> QED
  BY <1>2, <1>3

\* Only the end of a line emits, and only a saved line stores.
LEMMA StepTable ==
    ASSUME VInv, [Next]_vars
    PROVE  [Table!Next]_<<{<<r, r>> : r \in written}, rows>>
<1>1. CASE UNCHANGED <<written, rows>>
  BY <1>1
<1>2. ASSUME NEW p \in Path, NEW r \in Receipt, EndLine(p, r)
      PROVE  Table!Next
  <2>1. written' = written \cup {r} /\ UNCHANGED rows
    BY <1>2 DEF EndLine, Append1
  <2>2. {<<q, q>> : q \in written'} = {<<q, q>> : q \in written} \cup {<<r, r>>}
    BY <2>1
  <2>3. Table!Emit(<<r, r>>)
    BY <2>1, <2>2 DEF Table!Emit
  <2> QED
    BY <2>3 DEF Table!Next
<1>3. CASE SaveLine
  BY <1>1, <1>3, SaveLineStores DEF Table!Next
<1>4. CASE UNCHANGED vars
  BY <1>1, <1>4 DEF vars, files
<1>5. ASSUME NEW p \in Path, NEW r \in Receipt, Begin(p, r) \/ Finish(p, r)
      PROVE  UNCHANGED <<written, rows>>
  BY <1>5 DEF Begin, Finish, Append1
<1>6. ASSUME NEW p \in Path, Truncate(p) \/ Stat(p) \/ Read(p)
      PROVE  UNCHANGED <<written, rows>>
  BY <1>6 DEF Truncate, Stat, Read, files
<1>7. Restart => UNCHANGED <<written, rows>>
  BY DEF Restart, files
<1> QED
  BY <1>1, <1>2, <1>3, <1>4, <1>5, <1>6, <1>7 DEF Next

\* ImplementsTable: the bridge and SaveReceipt keep the promise of ReceiptTable:
\* no row is made of two receipts, none is stored twice for its evidence or its
\* swap, none is lost (tailFile, SaveReceipt).
THEOREM TableImplemented == ASSUME ~Rewrites PROVE Spec => ImplementsTable
<1>1. Init => VInv
  BY InitKeeps
<1>2. VInv /\ [Next]_vars => VInv'
  BY StepKeeps
<1>3. VInv /\ [Next]_vars => [Table!Next]_<<{<<r, r>> : r \in written}, rows>>
  BY StepTable
<1> QED
  BY <1>1, <1>2, <1>3, InitTable, PTL DEF Spec, ImplementsTable, Table!Spec

-----------------------------------------------------------------------------
(* What holds also if files are rewritten unseen.                          *)

\* Two rows with one evidence or one swap are one row.
RowsDiffer == \A s, t \in rows : s[1] = t[1] \/ SameSwap(s[2], t[2]) => s = t

\* Rows only come, one at a time.
RowsStay == [][rows \subseteq rows']_vars

LEMMA RowsKept ==
    ASSUME RowsDiffer, [Next]_vars
    PROVE  RowsDiffer' /\ rows \subseteq rows'
<1>1. CASE UNCHANGED rows
  BY <1>1 DEF RowsDiffer
<1>2. CASE SaveLine
  <2>1. UNCHANGED rows \/ SaveReceipt(RowOf(Head(lines)))
    BY <1>2 DEF SaveLine
  <2> DEFINE row == RowOf(Head(lines))
  <2> HIDE DEF row
  <2>2. CASE SaveReceipt(row)
    <3>1. \/ UNCHANGED rows
          \/ /\ rows' = rows \cup {row}
             /\ \A s \in rows : s[1] # row[1] /\ ~SameSwap(s[2], row[2])
      BY <2>2 DEF SaveReceipt
    <3> QED
      BY <1>1, <3>1 DEF RowsDiffer, SameSwap
  <2> QED
    BY <1>1, <2>1, <2>2 DEF row
<1>3. ~SaveLine => UNCHANGED rows
  BY DEF Next, vars, files, Begin, Finish, EndLine, Append1, Truncate, Stat, Read, Restart
<1> QED
  BY <1>1, <1>2, <1>3

\* The table itself keeps its two unique keys and loses no row whatever happens
\* to the files, since SaveReceipt never replaces one (ON CONFLICT DO NOTHING
\* and the unique index on swap_id).
THEOREM RowsAreKept == Spec => []RowsDiffer /\ RowsStay
<1>1. Init => RowsDiffer
  BY DEF Init, RowsDiffer
<1>2. RowsDiffer /\ [Next]_vars => RowsDiffer' /\ [rows \subseteq rows']_vars
  BY RowsKept
<1> QED
  BY <1>1, <1>2, PTL DEF Spec, RowsStay

\* What lines are made of.
Half == Symbol \ {End}

\* A half says what it is, and whose.
LEMMA Halves ==
    ASSUME NEW x \in Half
    PROVE  \E r \in Receipt : x = First(r) \/ x = Second(r)
BY DEF Half, Symbol

\* What is held has no line end.
LEMMA RestIsHalves == ASSUME NEW s \in Seq(Symbol) PROVE Rest(s) \in Seq(Half)
<1> DEFINE k == LastEnd(s)
<1>1. k \in 0..Len(s) /\ \A i \in k + 1..Len(s) : s[i] # End
  BY LastEndIs
<1>2. k + 1 \in Int /\ Len(s) \in Int
  BY <1>1
<1>3. ASSUME NEW i \in k + 1..Len(s) PROVE s[i] \in Half
  <2>1. i \in 1..Len(s)
    BY <1>1, <1>2
  <2> QED
    BY <1>1, <2>1, ElementOfSeq DEF Half
<1> HIDE DEF k
<1>4. SubSeq(s, k + 1, Len(s)) \in Seq(Half)
  BY <1>2, <1>3, SubSeqProperties
<1> QED
  BY <1>4 DEF Rest, k

\* No line has one either.
LEMMA LineIsHalves ==
    ASSUME NEW s \in Seq(Symbol), NEW i \in Ends(s)
    PROVE  LineBefore(s, i) \in Seq(Half)
<1> DEFINE before == {j \in Ends(s) : j < i}
           from == IF before = {} THEN 1 ELSE Max(before) + 1
<1>1. i \in 1..Len(s) /\ Len(s) \in Nat /\ before \subseteq 1..Len(s)
  BY DEF Ends
<1>2. from \in 1..Len(s) + 1 /\ \A j \in before : j < from
  <2>1. CASE before = {}
    BY <1>1, <2>1
  <2>2. CASE before # {}
    <3> HIDE DEF before
    <3>1. Max(before) \in 1..Len(s) /\ \A x \in before : x <= Max(before)
      BY <1>1, <2>2, GreatestOf
    <3> QED
      BY <1>1, <2>2, <3>1
  <2> QED
    BY <2>1, <2>2
<1> HIDE DEF from
<1>3. ASSUME NEW j \in from..i - 1 PROVE s[j] \in Half
  <2>1. j \in 1..Len(s) /\ j < i /\ ~(j < from)
    BY <1>1, <1>2
  <2>2. s[j] # End
    BY <1>2, <2>1 DEF Ends
  <2> QED
    BY <2>1, <2>2, ElementOfSeq DEF Half
<1>4. from \in Int /\ i - 1 \in Int
  BY <1>1, <1>2
<1>5. SubSeq(s, from, i - 1) \in Seq(Half)
  BY <1>3, <1>4, SubSeqProperties
<1> QED
  BY <1>5 DEF LineBefore, from

\* Nor do the lines that are split off, all together.
LEMMA LinesAreHalves == ASSUME NEW s \in Seq(Symbol) PROVE Lines(s) \in Seq(Seq(Half))
<1> DEFINE at == Ascending(Ends(s))
           c == Cardinality(Ends(s))
<1>1. Len(s) \in Nat /\ Ends(s) \in SUBSET (1..Len(s))
  BY DEF Ends
<1>2. at \in [1..c -> Ends(s)] /\ c \in Nat
  BY <1>1, AscendingIs
<1>3. Lines(s) = [k \in 1..c |-> LineBefore(s, at[k])]
  BY <1>2 DEF Lines
<1> HIDE DEF at, c
<1>4. Lines(s) \in [1..c -> Seq(Half)]
  BY <1>2, <1>3, LineIsHalves
<1> QED
  BY <1>2, <1>4

\* A line that parses is a first half of one receipt and a second half of one.
LEMMA RowsAreHalves ==
    ASSUME NEW l \in Seq(Half), Parses(l)
    PROVE  RowOf(l) \in Receipt \X Receipt
<1>1. l[1] \in Half /\ l[2] \in Half
  BY DEF Parses
<1>2. \A x \in Half : x[2] \in Receipt
  BY Halves DEF First, Second
<1> QED
  BY <1>1, <1>2 DEF RowOf

\* The types do not need the hypothesis: a row is made of halves that some
\* emitter wrote, if not of one receipt, and nothing held or split off has a
\* line end (tailFile, ParseReceiptNDJSON).
THEOREM VaultTypeCorrect == Spec => []TypeOK
<1> USE DEF Half
<1>1. Init => TypeOK
  BY VaultAssumption DEF Init, TypeOK
<1>2. ASSUME TypeOK, [Next]_vars PROVE TypeOK'
  <2> USE <1>2
  <2>1. CASE UNCHANGED vars
    BY <2>1 DEF TypeOK, vars, files, bridge
  <2>2. ASSUME NEW p \in Path, NEW r \in Receipt, Begin(p, r) \/ Finish(p, r) \/ EndLine(p, r)
        PROVE  TypeOK'
    <3>1. ASSUME NEW x \in Symbol, Append1(p, x), written' \subseteq Receipt PROVE TypeOK'
      <4>1. Append(file[p], x) \in Seq(Symbol)
        BY <3>1 DEF TypeOK
      <4>2. file' \in [Path -> Seq(Symbol)]
        BY <3>1, <4>1 DEF Append1, TypeOK
      <4> QED
        BY <3>1, <4>2 DEF Append1, TypeOK, bridge
    <3>2. First(r) \in Symbol /\ Second(r) \in Symbol /\ End \in Symbol
      BY SymbolsAre
    <3>3. written \subseteq Receipt
      BY DEF TypeOK
    <3> QED
      BY <2>2, <3>1, <3>2, <3>3 DEF Begin, Finish, EndLine
  <2>3. ASSUME NEW p \in Path, Truncate(p) PROVE TypeOK'
    <3>1. truncates' \in 0..MaxTruncates
      BY <2>3, VaultAssumption DEF Truncate, TypeOK
    <3>2. file' \in [Path -> Seq(Symbol)]
      BY <2>3 DEF Truncate, TypeOK
    <3> QED
      BY <2>3, <3>1, <3>2 DEF Truncate, TypeOK, bridge
  <2>4. ASSUME NEW p \in Path, Stat(p) PROVE TypeOK'
    <3>1. off' \in [Path -> Nat]
      BY <2>4 DEF Stat, TypeOK
    <3>2. partial' \in [Path -> Seq(Half)]
      BY <2>4 DEF Stat, TypeOK
    <3> QED
      BY <2>4, <3>1, <3>2 DEF Stat, TypeOK, files
  <2>5. ASSUME NEW p \in Path, Read(p) PROVE TypeOK'
    <3> DEFINE chunk == SubSeq(file[p], off[p] + 1, Len(file[p]))
               buf == partial[p] \o chunk
    <3>1. /\ file[p] \in Seq(Symbol) /\ off[p] \in Nat /\ Len(file[p]) \in Nat
          /\ partial[p] \in Seq(Half)
      BY DEF TypeOK
    <3>2. chunk \in Seq(Symbol) /\ Len(chunk) \in Nat
      <4>1. \A i \in off[p] + 1..Len(file[p]) : file[p][i] \in Symbol
        BY <3>1, ElementOfSeq
      <4>2. off[p] + 1 \in Int /\ Len(file[p]) \in Int
        BY <3>1
      <4> QED
        BY <4>1, <4>2, SubSeqProperties
    <3>3. partial[p] \in Seq(Symbol)
      BY <3>1
    <3>4. buf \in Seq(Symbol)
      BY <3>2, <3>3, ConcatProperties
    <3>5. Lines(buf) \in Seq(Seq(Half)) /\ Rest(buf) \in Seq(Half)
      BY <3>4, LinesAreHalves, RestIsHalves
    <3>6. /\ reading' = NoPath /\ UNCHANGED <<files, rows, failed, restarts, faults>>
          /\ \/ UNCHANGED <<off, partial, lines>>
             \/ /\ off' = [off EXCEPT ![p] = off[p] + Len(chunk)]
                /\ lines' = Lines(buf) /\ partial' = [partial EXCEPT ![p] = Rest(buf)]
      BY <2>5 DEF Read
    <3> HIDE DEF chunk, buf
    <3>7. off' \in [Path -> Nat]
      <4>1. off[p] + Len(chunk) \in Nat /\ off \in [Path -> Nat]
        BY <3>1, <3>2 DEF TypeOK
      <4>2. [off EXCEPT ![p] = off[p] + Len(chunk)] \in [Path -> Nat]
        BY <4>1
      <4>3. off' = off \/ off' = [off EXCEPT ![p] = off[p] + Len(chunk)]
        BY <3>6
      <4> QED
        BY <4>1, <4>2, <4>3
    <3>8. partial' \in [Path -> Seq(Half)] /\ lines' \in Seq(Seq(Half))
      BY <3>5, <3>6 DEF TypeOK
    <3> QED
      BY <3>6, <3>7, <3>8 DEF TypeOK, files
  <2>6. CASE SaveLine
    <3>1. /\ lines # <<>> /\ lines \in Seq(Seq(Half)) /\ rows \subseteq Receipt \X Receipt
          /\ failed \subseteq Receipt \X Receipt
      BY <2>6 DEF SaveLine, TypeOK
    <3>2. Head(lines) \in Seq(Half) /\ Tail(lines) \in Seq(Seq(Half))
      BY <3>1, HeadTailProperties
    <3>3. Parses(Head(lines)) => RowOf(Head(lines)) \in Receipt \X Receipt
      BY <3>2, RowsAreHalves
    <3>4. rows' \subseteq Receipt \X Receipt /\ failed' \subseteq Receipt \X Receipt
      BY <2>6, <3>1, <3>3 DEF SaveLine, SaveReceipt
    <3>5. faults' \in 0..MaxFaults
      BY <2>6, VaultAssumption DEF SaveLine, TypeOK
    <3> QED
      BY <2>6, <3>2, <3>4, <3>5 DEF SaveLine, TypeOK, files
  <2>7. CASE Restart
    <3>1. restarts' \in 0..MaxRestarts
      BY <2>7, VaultAssumption DEF Restart, TypeOK
    <3> QED
      BY <2>7, <3>1 DEF Restart, TypeOK, files
  <2> QED
    BY <1>2, <2>1, <2>2, <2>3, <2>4, <2>5, <2>6, <2>7 DEF Next
<1> QED
  BY <1>1, <1>2, PTL DEF Spec
=============================================================================
