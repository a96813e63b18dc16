--------------------------- MODULE EvidenceProofs ---------------------------
(***************************************************************************)
(* What holds of an excerpt for every text, budget and marker, and what    *)
(* the evidence of one staged file takes of its budget.                    *)
(***************************************************************************)
EXTENDS MCInputs, RecursionProofs

-----------------------------------------------------------------------------
\* Offset 0 is a cut, so there is a last cut before every offset.
LEMMA PrefixLenExists ==
    ASSUME NEW text \in Texts, NEW m \in Nat
    PROVE  LET c == Utf8PrefixLen(text, m) IN
           /\ c \in text.cuts
           /\ c <= m
           /\ \A d \in text.cuts : d <= m => d <= c
<1> DEFINE T == {c \in text.cuts : c <= m}
<1>1. text.len \in Nat /\ text.cuts \in SUBSET Nat /\ 0 \in text.cuts
  BY DEF Texts
<1>2. 0 \in T
  BY <1>1
<1>3. T \in SUBSET Nat /\ T # {} /\ \A x \in T : x <= m
  BY <1>1, <1>2
<1>4. \E c \in T : \A d \in T : d <= c
  <2> HIDE DEF T
  <2> QED
    BY <1>3, GreatestNumber
<1>5. \E c \in text.cuts :
        c <= m /\ \A d \in text.cuts : d <= m => d <= c
  BY <1>4
<1> QED
  BY <1>5 DEF Utf8PrefixLen

\* The end of the text is a cut, so there is a first cut after every offset.
LEMMA TailStartExists ==
    ASSUME NEW text \in Texts, NEW m \in Nat, m <= text.len
    PROVE  LET c == TailStart(text, m) IN
           /\ c \in text.cuts
           /\ c >= m
           /\ \A d \in text.cuts : d >= m => d >= c
<1> DEFINE T == {c \in text.cuts : c >= m}
<1>1. text.len \in Nat /\ text.cuts \in SUBSET Nat /\ text.len \in text.cuts
  BY DEF Texts
<1>2. T \in SUBSET Nat /\ T # {}
  BY <1>1
<1>3. \E c \in T : \A d \in T : c <= d
  <2> HIDE DEF T
  <2> QED
    BY <1>2, LeastNumber
<1>4. \E c \in text.cuts :
        c >= m /\ \A d \in text.cuts : d >= m => d >= c
  BY <1>1, <1>3
<1> QED
  BY <1>4 DEF TailStart

\* An excerpt that has both ends, with the numbers that bound them.
LEMMA EndsFit ==
    ASSUME NEW text \in Texts, NEW maxBytes \in Nat, NEW marker \in Nat,
           text.len > maxBytes, maxBytes > marker
    PROVE  LET kept == Ends(text, maxBytes, marker) IN
           /\ Size(text, kept, marker) <= maxBytes
           /\ {kept.head, kept.tail} \subseteq text.cuts
           /\ kept.head <= kept.tail
<1> DEFINE content == maxBytes - marker
           headLimit == (content * 2) \div 3
           head == Utf8PrefixLen(text, headLimit)
           from == text.len - (content - headLimit)
           tail == TailStart(text, from)
<1>1. /\ text.len \in Nat
      /\ text.cuts \subseteq 0..text.len
  BY DEF Texts
<1>2. headLimit \in Nat /\ headLimit <= content
  OBVIOUS
<1>3. /\ from \in Nat
      /\ from <= text.len
      /\ headLimit <= from
  BY <1>1, <1>2
<1>4. head \in text.cuts /\ head <= headLimit
  BY <1>2, PrefixLenExists
<1>5. tail \in text.cuts /\ tail >= from
  BY <1>3, TailStartExists
<1>6. head \in Nat /\ tail \in Nat /\ tail <= text.len
  BY <1>1, <1>4, <1>5
<1>7. Ends(text, maxBytes, marker) =
        [head |-> head, tail |-> tail, marked |-> TRUE]
  BY DEF Ends
<1>8. /\ head <= tail
      /\ head + marker + (text.len - tail) <= maxBytes
  <2> HIDE DEF head, tail, headLimit
  <2> QED
    BY <1>1, <1>2, <1>3, <1>4, <1>5, <1>6
<1> QED
  BY <1>4, <1>5, <1>7, <1>8 DEF Size

LEMMA PrefixFits ==
    ASSUME NEW text \in Texts, NEW maxBytes \in Nat, NEW marker \in Nat
    PROVE  LET kept == Beginning(text, maxBytes) IN
           /\ Size(text, kept, marker) <= maxBytes
           /\ {kept.head, kept.tail} \subseteq text.cuts
           /\ kept.head <= kept.tail
           /\ text.len <= maxBytes => kept.head = text.len
<1> DEFINE head == Utf8PrefixLen(text, maxBytes)
<1>1. /\ text.len \in Nat
      /\ text.len \in text.cuts
      /\ text.cuts \subseteq 0..text.len
  BY DEF Texts
<1>2. /\ head \in text.cuts
      /\ head <= maxBytes
      /\ \A d \in text.cuts : d <= maxBytes => d <= head
  BY PrefixLenExists
<1>3. Beginning(text, maxBytes) =
        [head |-> head, tail |-> text.len, marked |-> FALSE]
  BY DEF Beginning
<1> HIDE DEF head
<1>4. head \in Nat /\ head <= text.len
  BY <1>1, <1>2
<1>5. head + 0 + (text.len - text.len) <= maxBytes
  BY <1>1, <1>2, <1>4
<1>6. text.len <= maxBytes => head = text.len
  BY <1>1, <1>2, <1>4
<1> QED
  BY <1>1, <1>2, <1>3, <1>4, <1>5, <1>6 DEF Size

\* excerpt returns at most max_bytes bytes, cuts no character in two, shows
\* none twice and leaves alone what fits, whatever its arguments.
THEOREM ExcerptAlwaysFits ==
    \A text \in Texts, maxBytes \in Nat, marker \in Nat :
        Fits(text, maxBytes, marker)
<1> SUFFICES ASSUME NEW text \in Texts, NEW maxBytes \in Nat,
                    NEW marker \in Nat
             PROVE  Fits(text, maxBytes, marker)
  OBVIOUS
<1>1. text.len \in Nat
  BY DEF Texts
<1>2. CASE text.len <= maxBytes \/ maxBytes <= marker + 8
  <2>1. Keep(text, maxBytes, marker) = Beginning(text, maxBytes)
    BY <1>2 DEF Keep
  <2> QED
    BY <1>1, <2>1, PrefixFits DEF Fits, Truncated
<1>3. CASE text.len > maxBytes /\ maxBytes > marker + 8
  <2>1. Keep(text, maxBytes, marker) = Ends(text, maxBytes, marker)
    BY <1>1, <1>3 DEF Keep
  <2> QED
    BY <1>1, <1>3, <2>1, EndsFit DEF Fits, Truncated
<1> QED
  BY <1>1, <1>2, <1>3

\* Where there is room for the marker, something of both ends is kept of a
\* text of characters of at most four bytes whose last has at most three.
THEOREM BothEndsAlwaysKept ==
    \A text \in Texts, maxBytes \in Nat, marker \in Nat :
        KeepsBothEnds(text, maxBytes, marker)
<1> SUFFICES ASSUME NEW text \in Texts, NEW maxBytes \in Nat,
                    NEW marker \in Nat,
                    Keep(text, maxBytes, marker).marked,
                    IsUtf8(text), ShortLastChar(text)
             PROVE  /\ Keep(text, maxBytes, marker).head > 0
                    /\ Keep(text, maxBytes, marker).tail < text.len
  BY DEF KeepsBothEnds
<1> DEFINE content == maxBytes - marker
           headLimit == (content * 2) \div 3
           head == Utf8PrefixLen(text, headLimit)
           from == text.len - (content - headLimit)
           tail == TailStart(text, from)
<1>1. /\ text.len \in Nat
      /\ 0 \in text.cuts
      /\ text.cuts \subseteq 0..text.len
  BY DEF Texts
<1>2. text.len > maxBytes /\ maxBytes > marker + 8
  BY <1>1 DEF Keep, Beginning
<1>3. Keep(text, maxBytes, marker) =
        [head |-> head, tail |-> tail, marked |-> TRUE]
  BY <1>1, <1>2 DEF Keep, Ends
<1>4. headLimit \in Nat /\ headLimit >= 6 /\ content - headLimit >= 3
      /\ headLimit <= content
  BY <1>2
<1>5. head > 0
  <2>1. PICK d \in text.cuts : d \in (0 + 1)..(0 + 4)
    BY <1>1, <1>2 DEF IsUtf8
  <2>2. \A e \in text.cuts : e <= headLimit => e <= head
    BY <1>4, PrefixLenExists
  <2>3. head \in text.cuts
    BY <1>4, PrefixLenExists
  <2> HIDE DEF head, headLimit
  <2>4. d <= head /\ d >= 1
    BY <1>4, <2>1, <2>2
  <2> QED
    BY <1>1, <2>1, <2>3, <2>4
<1>6. tail < text.len
  <2>1. PICK c \in text.cuts : c \in (text.len - 3)..(text.len - 1)
    BY DEF ShortLastChar
  <2>2. from \in Nat /\ from <= text.len - 3
    <3> HIDE DEF headLimit
    <3> QED
      BY <1>1, <1>2, <1>4
  <2>3. /\ tail \in text.cuts
        /\ \A d \in text.cuts : d >= from => d >= tail
    <3> HIDE DEF headLimit
    <3> QED
      BY <1>1, <2>2, TailStartExists
  <2> HIDE DEF tail, from
  <2>4. c >= from
    BY <1>1, <2>1, <2>2
  <2> QED
    BY <1>1, <2>1, <2>3, <2>4
<1> HIDE DEF head, tail
<1> QED
  BY <1>3, <1>5, <1>6
-----------------------------------------------------------------------------
(* The two excerpts of a file. *)

LEMMA SplitType ==
    ASSUME NEW file \in File, NEW budget \in Nat, NEW settings \in Settings
    PROVE  /\ FileBudget(file, budget, settings) \in Nat
           /\ DiffBudget(file, budget, settings) \in Nat
           /\ FileBudget(file, budget, settings)
                  + DiffBudget(file, budget, settings) = budget
<1> DEFINE context == settings.staged_file_context_bytes
           most == Least(budget, context)
<1>1. context \in Nat
  BY DEF Settings
<1>2. most \in Nat /\ most <= budget
  BY <1>1 DEF Least
<1>3. most \div 2 \in Nat /\ most \div 2 <= budget
  <2> HIDE DEF most
  <2> QED
    BY <1>2
<1>4. FileBudget(file, budget, settings) \in {most \div 2, 0}
  BY DEF FileBudget
<1> HIDE DEF most
<1>5. /\ FileBudget(file, budget, settings) \in Nat
      /\ FileBudget(file, budget, settings) <= budget
  BY <1>3, <1>4
<1> QED
  BY <1>5 DEF DiffBudget

\* An excerpt's size is a number within its budget.
LEMMA SizeBounded ==
    ASSUME NEW text \in Texts, NEW most \in Nat, NEW marker \in Nat
    PROVE  Size(text, Keep(text, most, marker), marker) <= most
BY ExcerptAlwaysFits DEF Fits

LEMMA SizeType ==
    ASSUME NEW text \in Texts, NEW most \in Nat, NEW marker \in Nat
    PROVE  Size(text, Keep(text, most, marker), marker) \in Nat
<1> DEFINE kept == Keep(text, most, marker)
<1>1. text.len \in Nat /\ text.cuts \subseteq 0..text.len
  BY DEF Texts
<1>2. kept.head \in 0..text.len /\ kept.tail \in 0..text.len
  <2>1. {kept.head, kept.tail} \subseteq text.cuts
    BY ExcerptAlwaysFits DEF Fits
  <2> QED
    BY <1>1, <2>1
<1> HIDE DEF kept
<1> QED
  BY <1>1, <1>2 DEF Size, kept

LEMMA EvidenceType ==
    ASSUME NEW file \in File, NEW budget \in Nat, NEW settings \in Settings
    PROVE  /\ DiffBytes(file, budget, settings) \in Nat
           /\ StagedFileBytes(file, budget, settings) \in Nat
<1> DEFINE most == FileBudget(file, budget, settings)
<1>1. /\ most \in Nat /\ DiffBudget(file, budget, settings) \in Nat
      /\ settings.marker \in Nat
  BY SplitType DEF Settings
<1>2. file.diff \in Texts /\ (file.staged # Unshown => file.staged \in Texts)
  BY DEF File
<1> HIDE DEF most
<1>3. DiffBytes(file, budget, settings) \in Nat
  BY <1>1, <1>2, SizeType DEF DiffBytes
<1>4. CASE most = 0 \/ file.low \/ file.staged = Unshown
  BY <1>3, <1>4 DEF StagedFileBytes, most
<1>5. CASE ~(most = 0 \/ file.low \/ file.staged = Unshown)
  <2>1. StagedFileBytes(file, budget, settings) =
          Size(file.staged, Keep(file.staged, most, settings.marker),
               settings.marker)
    BY <1>5 DEF StagedFileBytes, most
  <2> QED
    BY <1>1, <1>2, <1>3, <1>5, <2>1, SizeType
<1> QED
  BY <1>4, <1>5

\* The excerpts of the diff and of the staged content of a file are together
\* never longer than the bytes allocate_diff_budgets gave the file, for every
\* file, budget and setting.
THEOREM FileEvidenceAlwaysFits ==
    \A file \in File, budget \in Nat, settings \in Settings :
        FileEvidenceFits(file, budget, settings)
<1> SUFFICES ASSUME NEW file \in File, NEW budget \in Nat,
                    NEW settings \in Settings
             PROVE  FileEvidenceFits(file, budget, settings)
  OBVIOUS
<1> DEFINE fileBudget == FileBudget(file, budget, settings)
           diffBudget == DiffBudget(file, budget, settings)
           diffBytes == DiffBytes(file, budget, settings)
           fileBytes == StagedFileBytes(file, budget, settings)
<1>1. fileBudget \in Nat /\ diffBudget \in Nat /\ fileBudget + diffBudget = budget
  BY SplitType
<1>2. settings.marker \in Nat
  BY DEF Settings
<1>3. diffBytes \in Nat /\ diffBytes <= diffBudget
  <2>1. file.diff \in Texts
    BY DEF File
  <2> QED
    BY <1>1, <1>2, <2>1, SizeBounded, SizeType DEF DiffBytes
<1>4. fileBytes \in Nat /\ fileBytes <= fileBudget
  <2>1. CASE fileBytes = 0
    BY <1>1, <2>1
  <2>2. CASE fileBytes # 0
    <3>1. file.staged # Unshown
      BY <2>2 DEF StagedFileBytes
    <3>2. file.staged \in Texts
      BY <3>1 DEF File
    <3>3. fileBytes = Size(file.staged,
                           Keep(file.staged, fileBudget, settings.marker),
                           settings.marker)
      BY <2>2 DEF StagedFileBytes
    <3> QED
      BY <1>1, <1>2, <3>2, <3>3, SizeBounded, SizeType
  <2> QED
    BY <2>1, <2>2
<1>5. diffBytes + fileBytes <= budget
  <2> HIDE DEF diffBytes, fileBytes, diffBudget, fileBudget
  <2> QED
    BY <1>1, <1>3, <1>4
<1> QED
  BY <1>5 DEF FileEvidenceFits
-----------------------------------------------------------------------------
(* What allocate_diff_budgets gives the files. *)

\* Integer division, and how it compares.
LEMMA Quotient ==
    ASSUME NEW a \in Nat, NEW t \in Nat \ {0}
    PROVE  /\ a \div t \in Nat
           /\ (a \div t) * t <= a
           /\ a + 1 <= (a \div t + 1) * t
<1> DEFINE q == a \div t
           r == a % t
<1>1. q \in Nat /\ r \in 0..(t - 1) /\ a = q * t + r
  <2>1. q \in Int /\ r \in 0..(t - 1) /\ a = t * q + r
    OBVIOUS
  <2>2. q >= 0
    OBVIOUS
  <2> QED
    BY <2>1, <2>2
<1> HIDE DEF q, r
<1>2. (q + 1) * t = q * t + t /\ q * t \in Nat
  BY <1>1
<1>3. q * t <= a /\ a + 1 <= (q + 1) * t
  BY <1>1, <1>2
<1> QED
  BY <1>1, <1>3 DEF q

LEMMA ProductsCompare ==
    ASSUME NEW x \in Nat, NEW y \in Nat, NEW t \in Nat \ {0}
    PROVE  /\ x * t <= y * t => x <= y
           /\ x <= y => x * t <= y * t
<1>1. CASE x <= y
  <2>1. PICK d \in Nat : y = x + d
    <3>1. y - x \in Nat /\ y = x + (y - x)
      BY <1>1
    <3> QED
      BY <3>1
  <2>2. y * t = x * t + d * t /\ d * t \in Nat /\ x * t \in Nat
    BY <2>1
  <2>3. x * t <= y * t
    BY <2>2
  <2> QED
    BY <1>1, <2>3
<1>2. CASE y + 1 <= x
  <2>1. PICK d \in Nat : x = y + d + 1
    <3>1. x - y - 1 \in Nat /\ x = y + (x - y - 1) + 1
      BY <1>2
    <3> QED
      BY <3>1
  <2>2. x * t = y * t + d * t + t /\ d * t \in Nat /\ y * t \in Nat
    BY <2>1
  <2>3. ~(x * t <= y * t)
    BY <2>2
  <2> QED
    BY <1>2, <2>3
<1> QED
  BY <1>1, <1>2

\* How many of the first k files have a weight.
Weighty(weights, k) == Cardinality({j \in 1..k : weights[j] > 0})

LEMMA WeightyGrows ==
    ASSUME NEW n \in Nat, NEW weights \in [1..n -> Nat]
    PROVE  /\ Weighty(weights, 0) = 0
           /\ \A k \in 0..n : Weighty(weights, k) \in Nat
           /\ \A k \in 0..(n - 1) :
                 Weighty(weights, k + 1) =
                     Weighty(weights, k)
                         + (IF weights[k + 1] > 0 THEN 1 ELSE 0)
           /\ \A k \in 0..n : \A l \in k..n :
                 Weighty(weights, k) <= Weighty(weights, l)
<1> DEFINE W(k) == {j \in 1..k : weights[j] > 0}
<1>1. ASSUME NEW k \in 0..n
      PROVE  IsFiniteSet(W(k)) /\ Cardinality(W(k)) \in Nat
  <2>1. IsFiniteSet(1..k)
    BY FS_Interval
  <2>2. IsFiniteSet(W(k))
    <3>1. W(k) \subseteq 1..k
      OBVIOUS
    <3> QED
      BY <2>1, <3>1, FS_Subset
  <2> QED
    BY <2>2, FS_CardinalityType
<1>2. W(0) = {} /\ Cardinality({}) = 0
  BY FS_EmptySet
<1>3. ASSUME NEW k \in 0..(n - 1)
      PROVE  Cardinality(W(k + 1)) =
                 Cardinality(W(k)) + (IF weights[k + 1] > 0 THEN 1 ELSE 0)
  <2>1. k \in 0..n /\ k + 1 \in 1..n
    OBVIOUS
  <2>2. CASE weights[k + 1] > 0
    <3>1. W(k + 1) = W(k) \cup {k + 1} /\ k + 1 \notin W(k)
      BY <2>1, <2>2
    <3>2. IsFiniteSet(W(k))
      BY <1>1, <2>1
    <3> HIDE DEF W
    <3>3. Cardinality(W(k) \cup {k + 1}) = Cardinality(W(k)) + 1
      BY <3>1, <3>2, FS_AddElement
    <3> QED
      BY <2>2, <3>1, <3>3
  <2>3. CASE ~(weights[k + 1] > 0)
    <3>1. W(k + 1) = W(k)
      BY <2>1, <2>3
    <3> HIDE DEF W
    <3> QED
      BY <1>1, <2>1, <2>3, <3>1
  <2> QED
    BY <2>2, <2>3
<1>4. ASSUME NEW k \in 0..n, NEW l \in k..n
      PROVE  Cardinality(W(k)) <= Cardinality(W(l))
  <2>1. W(k) \subseteq W(l) /\ l \in 0..n
    OBVIOUS
  <2> QED
    BY <1>1, <2>1, FS_Subset
<1> QED
  BY <1>1, <1>2, <1>3, <1>4 DEF Weighty

\* Sums over the first k files.
LEMMA SumUpto ==
    ASSUME NEW n \in Nat, NEW f \in [1..n -> Nat]
    PROVE  /\ SumFunctionOnSet(f, 1..0) = 0
           /\ \A k \in 0..(n - 1) :
                 SumFunctionOnSet(f, 1..(k + 1)) =
                     f[k + 1] + SumFunctionOnSet(f, 1..k)
           /\ SumFunctionOnSet(f, 1..n) = SumFunction(f)
<1>1. IsFiniteSet(1..n)
  BY FS_Interval
<1>2. 1..0 = {} /\ DOMAIN f = 1..n
  OBVIOUS
<1>3. ASSUME NEW k \in 0..(n - 1)
      PROVE  /\ 1..(k + 1) \in SUBSET (1..n)
             /\ k + 1 \in 1..(k + 1)
             /\ (1..(k + 1)) \ {k + 1} = 1..k
  OBVIOUS
<1>4. ASSUME NEW k \in 0..(n - 1)
      PROVE  SumFunctionOnSet(f, 1..(k + 1)) =
                 f[k + 1] + SumFunctionOnSet(f, 1..k)
  <2> DEFINE T == 1..(k + 1)
  <2>1. T \in SUBSET (1..n) /\ k + 1 \in T /\ T \ {k + 1} = 1..k
    BY <1>3
  <2>2. \A x \in T : SumFunctionOnSet(f, T) = f[x] + SumFunctionOnSet(f, T \ {x})
    <3> HIDE DEF T
    <3> QED
      BY <1>1, <2>1, SumOfOneMore
  <2> HIDE DEF T
  <2> QED
    BY <2>1, <2>2 DEF T
<1> QED
  BY <1>1, <1>2, <1>4, SumStep DEF SumFunction

\* Of any number of bytes left over, as many are handed out as there are
\* files with a weight to take them.
LEMMA RemainderIsHandedOut ==
    ASSUME NEW n \in Nat, NEW weights \in [1..n -> Nat], NEW r \in Nat
    PROVE  LET extra == [i \in 1..n |->
                            IF GetsRemainder(weights, i, r) THEN 1 ELSE 0]
           IN /\ extra \in [1..n -> Nat]
              /\ SumFunction(extra) = Least(Weighty(weights, n), r)
<1> DEFINE extra == [i \in 1..n |-> IF GetsRemainder(weights, i, r) THEN 1 ELSE 0]
           S(k) == SumFunctionOnSet(extra, 1..k)
           C(k) == Weighty(weights, k)
           Holds == {k \in Nat : k <= n => S(k) = Least(C(k), r)}
<1>1. /\ extra \in [1..n -> Nat]
      /\ \A i \in 1..n :
            extra[i] = IF weights[i] > 0 /\ C(i) <= r THEN 1 ELSE 0
  BY DEF GetsRemainder, Weighty
<1> HIDE DEF extra
<1>2. /\ S(0) = 0 /\ S(n) = SumFunction(extra)
      /\ \A k \in 0..(n - 1) : S(k + 1) = extra[k + 1] + S(k)
  BY <1>1, SumUpto
<1>3. /\ C(0) = 0
      /\ \A k \in 0..n : C(k) \in Nat
      /\ \A k \in 0..(n - 1) :
            C(k + 1) = C(k) + (IF weights[k + 1] > 0 THEN 1 ELSE 0)
  BY WeightyGrows
<1> HIDE DEF S, C
<1>4. 0 \in Holds
  BY <1>2, <1>3 DEF Least
<1>5. ASSUME NEW k \in Holds
      PROVE  k + 1 \in Holds
  <2> SUFFICES ASSUME k + 1 <= n PROVE S(k + 1) = Least(C(k + 1), r)
    OBVIOUS
  <2>1. k \in 0..(n - 1) /\ k \in 0..n /\ k + 1 \in 0..n /\ k + 1 \in 1..n
    OBVIOUS
  <2>2. S(k) = Least(C(k), r)
    BY <1>5, <2>1
  <2>3. /\ C(k) \in Nat /\ S(k + 1) = extra[k + 1] + S(k)
        /\ C(k + 1) = C(k) + (IF weights[k + 1] > 0 THEN 1 ELSE 0)
        /\ extra[k + 1] = IF weights[k + 1] > 0 /\ C(k + 1) <= r THEN 1 ELSE 0
    BY <1>1, <1>2, <1>3, <2>1
  <2> QED
    BY <2>2, <2>3 DEF Least
<1>6. Holds = Nat
  <2>1. Holds \in SUBSET Nat
    OBVIOUS
  <2> HIDE DEF Holds
  <2> QED
    BY <1>4, <1>5, <2>1, EveryNumber
<1>7. S(n) = Least(C(n), r)
  BY <1>6
<1> QED
  BY <1>1, <1>2, <1>7 DEF extra, C

\* The shares, rounded down, and one byte more for some.
Shares(weights, maxBytes) ==
    [i \in DOMAIN weights |->
        Share(weights[i], SumFunction(weights), maxBytes)]

Extras(weights, remainder) ==
    [i \in DOMAIN weights |->
        IF GetsRemainder(weights, i, remainder) THEN 1 ELSE 0]

\* A share, in whole bytes, of what maxBytes comes to per unit of weight.
LEMMA ShareBounds ==
    ASSUME NEW weight \in Nat, NEW total \in Nat \ {0}, NEW maxBytes \in Nat
    PROVE  /\ Share(weight, total, maxBytes) \in Nat
           /\ Share(weight, total, maxBytes) * total <= maxBytes * weight
           /\ maxBytes * weight <= MaxUsize =>
                 maxBytes * weight + 1
                     <= (Share(weight, total, maxBytes) + 1) * total
<1> DEFINE a == maxBytes * weight
           b == Least(a, MaxUsize)
<1>1. a \in Nat
  OBVIOUS
<1> HIDE DEF a
<1>2. /\ b \in Nat /\ b <= a /\ (a <= MaxUsize => b = a)
  BY <1>1, UsizeAssumption DEF Least
<1>3. Share(weight, total, maxBytes) = b \div total
  BY DEF Share, a
<1> HIDE DEF b
<1> DEFINE q == b \div total
<1>4. q \in Nat /\ q * total <= b /\ b + 1 <= (q + 1) * total
  <2>1. b \in Nat
    BY <1>2
  <2> QED
    BY <2>1, Quotient
<1> HIDE DEF q
<1> DEFINE x == q * total
           y == (q + 1) * total
<1>5. x \in Nat /\ y \in Nat /\ x <= b /\ b + 1 <= y
  BY <1>4
<1> HIDE DEF x, y
<1>7. x <= a /\ (a <= MaxUsize => a + 1 <= y)
  BY <1>1, <1>2, <1>5
<1>6. q * total <= a /\ (a <= MaxUsize => a + 1 <= (q + 1) * total)
  BY <1>7 DEF x, y
<1> QED
  BY <1>3, <1>4, <1>6 DEF a, q

\* The shares together are within the bytes that are divided, and short of
\* them by fewer bytes than there are files with a weight.
LEMMA SharesBound ==
    ASSUME NEW n \in Nat, NEW weights \in [1..n -> Nat], NEW maxBytes \in Nat,
           SumFunction(weights) > 0
    PROVE  /\ Shares(weights, maxBytes) \in [1..n -> Nat]
           /\ SumFunction(Shares(weights, maxBytes)) \in 0..maxBytes
           /\ (\A i \in 1..n : maxBytes * weights[i] <= MaxUsize) =>
                 maxBytes
                     < SumFunction(Shares(weights, maxBytes)) + Weighty(weights, n)
<1> DEFINE t == SumFunction(weights)
           s == Shares(weights, maxBytes)
           u == SumFunction(s)
<1>0. IsFiniteSet(1..n) /\ DOMAIN weights = 1..n
  BY FS_Interval
<1>1. t \in Nat \ {0}
  BY <1>0, SumType
<1>2. \A i \in 1..n : s[i] = Share(weights[i], t, maxBytes)
  BY DEF Shares
<1>3. s \in [1..n -> Nat]
  <2>1. \A i \in 1..n : Share(weights[i], t, maxBytes) \in Nat
    BY <1>1, ShareBounds
  <2> HIDE DEF t
  <2> QED
    BY <2>1 DEF Shares, t
<1> HIDE DEF s
<1>4. u \in Nat
  BY <1>0, <1>3, SumType
<1> DEFINE st == [i \in 1..n |-> s[i] * t]
           wa == [i \in 1..n |-> weights[i] * maxBytes]
<1>5. SumFunction(st) = u * t /\ SumFunction(wa) = t * maxBytes
  <2>1. SumFunction(st) = u * t
    BY <1>0, <1>1, <1>3, SumOfMultiples
  <2>2. SumFunction(wa) = t * maxBytes
    BY <1>0, SumOfMultiples
  <2> QED
    BY <2>1, <2>2
<1>6. u <= maxBytes
  <2>1. st \in [1..n -> Nat] /\ wa \in [1..n -> Nat]
    BY <1>1, <1>3
  <2>2. \A i \in 1..n : st[i] <= wa[i]
    <3>1. ASSUME NEW i \in 1..n
          PROVE  s[i] * t <= weights[i] * maxBytes
      <4>1. Share(weights[i], t, maxBytes) * t <= maxBytes * weights[i]
        BY <1>1, ShareBounds
      <4>2. maxBytes * weights[i] = weights[i] * maxBytes
        OBVIOUS
      <4> HIDE DEF t
      <4> QED
        BY <1>2, <4>1, <4>2
    <3> QED
      BY <3>1
  <2>3. SumFunction(st) <= SumFunction(wa)
    <3> HIDE DEF st, wa
    <3> QED
      BY <1>0, <2>1, <2>2, SumMonotone
  <2> HIDE DEF st, wa, u, t
  <2>4. u * t <= maxBytes * t
    BY <1>1, <1>5, <2>3
  <2> QED
    BY <1>1, <1>4, <2>4, ProductsCompare
<1>7. ASSUME \A i \in 1..n : maxBytes * weights[i] <= MaxUsize
      PROVE  maxBytes < u + Weighty(weights, n)
  <2> DEFINE ones == [i \in 1..n |-> IF weights[i] > 0 THEN 1 ELSE 0]
             up == [i \in 1..n |-> s[i] + ones[i]]
             upt == [i \in 1..n |-> up[i] * t]
             wa1 == [i \in 1..n |-> wa[i] + ones[i]]
             c == Weighty(weights, n)
  <2>1. SumFunction(ones) = c /\ c \in Nat
    <3>1. /\ c \in Nat
          /\ \A i \in 1..n : Weighty(weights, i) <= c
          /\ \A i \in 1..n : Weighty(weights, i) \in Nat
      BY WeightyGrows
    <3>2. \A i \in 1..n : GetsRemainder(weights, i, c) <=> weights[i] > 0
      BY <3>1 DEF GetsRemainder, Weighty
    <3>3. ones = [i \in 1..n |-> IF GetsRemainder(weights, i, c) THEN 1 ELSE 0]
      <4> HIDE DEF c
      <4> QED
        BY <3>2
    <3>4. SumFunction(ones) = Least(c, c)
      <4> HIDE DEF ones
      <4> QED
        BY <3>1, <3>3, RemainderIsHandedOut
    <3> HIDE DEF ones, c
    <3> QED
      BY <3>1, <3>4 DEF Least
  <2>2. ones \in [1..n -> Nat] /\ wa \in [1..n -> Nat]
    OBVIOUS
  <2>3. up \in [1..n -> Nat]
    BY <1>3
  <2>4. SumFunction(up) = u + c
    <3> HIDE DEF ones, c
    <3> QED
      BY <1>0, <1>3, <2>1, <2>2, SumOfSums
  <2>5. SumFunction(wa1) = t * maxBytes + c
    <3> HIDE DEF ones, c, wa
    <3>1. SumFunction(wa1) = SumFunction(wa) + SumFunction(ones)
      BY <1>0, <2>2, SumOfSums
    <3> HIDE DEF wa1
    <3> QED
      BY <1>5, <2>1, <3>1
  <2>6. SumFunction(upt) = (u + c) * t
    <3> HIDE DEF up, c, u
    <3> QED
      BY <1>0, <1>1, <2>3, <2>4, SumOfMultiples
  <2>7. upt \in [1..n -> Nat] /\ wa1 \in [1..n -> Nat]
    <3>1. wa1 \in [1..n -> Nat]
      <4> HIDE DEF ones, wa
      <4> QED
        BY <2>2
    <3>2. upt \in [1..n -> Nat]
      <4> HIDE DEF up, t
      <4> QED
        BY <1>1, <2>3
    <3> QED
      BY <3>1, <3>2
  <2>8. ASSUME NEW i \in 1..n
        PROVE  wa1[i] <= upt[i]
    <3>1. wa1[i] = weights[i] * maxBytes + ones[i] /\ upt[i] = (s[i] + ones[i]) * t
      OBVIOUS
    <3>2. /\ s[i] * t <= maxBytes * weights[i]
          /\ maxBytes * weights[i] + 1 <= (s[i] + 1) * t
      <4>1. s[i] = Share(weights[i], t, maxBytes)
        BY <1>2
      <4>2. maxBytes * weights[i] <= MaxUsize
        BY <1>7
      <4> HIDE DEF t
      <4> QED
        BY <1>1, <4>1, <4>2, ShareBounds
    <3>3. CASE weights[i] > 0
      <4>1. ones[i] = 1 /\ weights[i] * maxBytes = maxBytes * weights[i]
        BY <3>3
      <4> HIDE DEF ones, upt, wa1, t, wa, up
      <4> QED
        BY <3>1, <3>2, <4>1
    <3>4. CASE weights[i] = 0
      <4>1. ones[i] = 0 /\ weights[i] * maxBytes = 0
        BY <3>4
      <4>2. s[i] * t \in Nat
        <5> HIDE DEF t
        <5> QED
          BY <1>1, <1>3
      <4>3. wa1[i] = 0 /\ upt[i] = s[i] * t
        BY <1>3, <3>1, <4>1
      <4> HIDE DEF ones, upt, wa1, t, wa, up
      <4> QED
        BY <4>2, <4>3
    <3> QED
      BY <3>3, <3>4
  <2>9. SumFunction(wa1) <= SumFunction(upt)
    <3> HIDE DEF wa1, upt
    <3> QED
      BY <1>0, <2>7, <2>8, SumMonotone
  <2>10. c > 0
    <3> SUFFICES ASSUME c = 0 PROVE FALSE
      BY <2>1
    <3>1. \A i \in 1..n : ones[i] = 0
      <4>1. ASSUME NEW i \in 1..n, weights[i] > 0
            PROVE  FALSE
        <5>1. /\ Weighty(weights, i) <= 0 /\ Weighty(weights, i - 1) \in Nat
              /\ Weighty(weights, i) = Weighty(weights, i - 1) + 1
          <6>1. i - 1 \in 0..(n - 1) /\ i \in 0..n /\ n \in i..n /\ i - 1 \in 0..n
                /\ (i - 1) + 1 = i
            OBVIOUS
          <6>2. Weighty(weights, i) <= c
            BY <6>1, WeightyGrows
          <6>3. Weighty(weights, (i - 1) + 1) = Weighty(weights, i - 1)
                   + (IF weights[(i - 1) + 1] > 0 THEN 1 ELSE 0)
            BY <6>1, WeightyGrows
          <6>4. Weighty(weights, i - 1) \in Nat
            BY <6>1, WeightyGrows
          <6> HIDE DEF c
          <6> QED
            BY <4>1, <6>1, <6>2, <6>3, <6>4
        <5> QED
          BY <5>1
      <4> QED
        BY <4>1
    <3>2. \A i \in 1..n : weights[i] <= ones[i]
      BY <3>1
    <3>3. t <= SumFunction(ones)
      <4> HIDE DEF ones
      <4> QED
        BY <1>0, <2>2, <3>2, SumMonotone
    <3> HIDE DEF c, ones, t
    <3> QED
      BY <1>1, <2>1, <3>3
  <2> HIDE DEF wa1, upt, up, ones, c, u, t, wa, st
  <2>11. t * maxBytes + c <= (u + c) * t
    BY <2>5, <2>6, <2>9
  <2>12. maxBytes * t < (u + c) * t
    <3>1. t * maxBytes = maxBytes * t /\ maxBytes * t \in Nat /\ (u + c) * t \in Nat
      BY <1>1, <1>4, <2>1
    <3> QED
      BY <2>1, <2>10, <2>11, <3>1
  <2>13. ~(u + c <= maxBytes)
    <3>1. u + c <= maxBytes => (u + c) * t <= maxBytes * t
      BY <1>1, <1>4, <2>1, ProductsCompare
    <3>2. maxBytes * t \in Nat /\ (u + c) * t \in Nat
      BY <1>1, <1>4, <2>1
    <3> QED
      BY <2>12, <3>1, <3>2
  <2> QED
    BY <1>4, <2>1, <2>13 DEF c
<1> HIDE DEF u
<1>8. u \in 0..maxBytes
  BY <1>4, <1>6
<1> QED
  BY <1>3, <1>7, <1>8 DEF u, s

LEMMA ProductType ==
    ASSUME NEW x \in Nat, NEW y \in Nat
    PROVE  x * y \in Nat
OBVIOUS

\* Without wrapping, a budget is a share and perhaps one byte of the remainder.
LEMMA Allocation ==
    ASSUME NEW n \in Nat, NEW weights \in [1..n -> Nat],
           NEW maxBytes \in 0..MaxUsize,
           SumFunction(weights) \in 1..MaxUsize
    PROVE  LET shares == Shares(weights, maxBytes)
               remainder == maxBytes - SumFunction(shares)
               extras == Extras(weights, remainder)
               budgets == AllocateDiffBudgets(weights, maxBytes)
           IN /\ remainder \in Nat
              /\ shares \in [1..n -> Nat] /\ extras \in [1..n -> Nat]
              /\ budgets = [i \in 1..n |-> shares[i] + extras[i]]
              /\ SumFunction(budgets) =
                    SumFunction(shares) + Least(Weighty(weights, n), remainder)
<1> DEFINE t == SumFunction(weights)
           s == Shares(weights, maxBytes)
           u == SumFunction(s)
           r == maxBytes - u
           e == Extras(weights, r)
           budgets == AllocateDiffBudgets(weights, maxBytes)
<1>0. /\ MaxUsize \in Nat /\ maxBytes \in Nat /\ maxBytes <= MaxUsize
      /\ t \in Nat /\ 0 < t /\ t <= MaxUsize
  BY UsizeAssumption
<1>1. s \in [1..n -> Nat] /\ u \in 0..maxBytes
  BY <1>0, SharesBound
<1>2. Wrapped(t) = t /\ Wrapped(u) = u
  <2>1. \A x \in Nat : x <= MaxUsize => Wrapped(x) = x
    BY <1>0 DEF Wrapped
  <2> HIDE DEF t, u
  <2> QED
    BY <1>0, <1>1, <2>1
<1>3. r \in Nat /\ maxBytes - Least(u, maxBytes) = r
  <2> HIDE DEF u
  <2> QED
    BY <1>0, <1>1 DEF Least
<1>4. e = [i \in 1..n |-> IF GetsRemainder(weights, i, r) THEN 1 ELSE 0]
  BY DEF Extras
<1>5. e \in [1..n -> Nat]
  BY <1>4
<1>6. SumFunction(e) = Least(Weighty(weights, n), r)
  <2> HIDE DEF e, r
  <2> QED
    BY <1>3, <1>4, RemainderIsHandedOut
<1>7. s = [i \in DOMAIN weights |-> Share(weights[i], t, maxBytes)]
  BY DEF Shares
<1>8. budgets = [i \in 1..n |-> IF GetsRemainder(weights, i, r)
                                THEN s[i] + 1 ELSE s[i]]
  <2> DEFINE remainder == maxBytes - Least(Wrapped(u), maxBytes)
  <2>1. budgets = IF Wrapped(t) = 0
                  THEN [i \in DOMAIN weights |-> 0]
                  ELSE [i \in DOMAIN weights |->
                           IF GetsRemainder(weights, i, remainder)
                           THEN s[i] + 1 ELSE s[i]]
    BY <1>2, <1>7 DEF AllocateDiffBudgets
  <2>2. remainder = r /\ Wrapped(t) # 0
    <3> HIDE DEF t, u
    <3> QED
      BY <1>0, <1>2, <1>3
  <2> HIDE DEF remainder, budgets, s, t, r
  <2> QED
    BY <2>1, <2>2
<1>9. budgets = [i \in 1..n |-> s[i] + e[i]]
  <2>1. \A i \in 1..n : (IF GetsRemainder(weights, i, r) THEN s[i] + 1 ELSE s[i])
                            = s[i] + e[i]
    <3> HIDE DEF s, r, e
    <3> QED
      BY <1>1, <1>4
  <2> HIDE DEF s, r, e, budgets
  <2> QED
    BY <1>8, <2>1
<1>10. SumFunction(budgets) = u + SumFunction(e)
  <2>1. IsFiniteSet(1..n)
    BY FS_Interval
  <2> HIDE DEF s, e, r, budgets
  <2> QED
    BY <1>1, <1>5, <1>9, <2>1, SumOfSums
<1> HIDE DEF s, e, budgets, u, r
<1>11. SumFunction(budgets) = u + Least(Weighty(weights, n), r)
  BY <1>6, <1>10
<1> QED
  BY <1>1, <1>3, <1>5, <1>9, <1>11 DEF s, e, budgets, u, r

\* The budgets of the files are together within max_diff_bytes, whatever their
\* number and weights, if only the sum of the weights is a usize.
THEOREM BudgetsFit ==
    ASSUME NEW n \in Nat, NEW weights \in [1..n -> Nat],
           NEW maxBytes \in 0..MaxUsize,
           SumFunction(weights) <= MaxUsize
    PROVE  /\ AllocateDiffBudgets(weights, maxBytes) \in [1..n -> Nat]
           /\ SumFunction(AllocateDiffBudgets(weights, maxBytes)) <= maxBytes
<1> DEFINE t == SumFunction(weights)
           budgets == AllocateDiffBudgets(weights, maxBytes)
<1>1. IsFiniteSet(1..n) /\ t \in Nat /\ MaxUsize \in Nat
  <2>1. IsFiniteSet(1..n)
    BY FS_Interval
  <2> QED
    BY <2>1, SumType, UsizeAssumption
<1>2. CASE t = 0
  <2>1. Wrapped(t) = 0
    BY <1>1, <1>2 DEF Wrapped
  <2>2. budgets = [i \in 1..n |-> 0]
    BY <2>1 DEF AllocateDiffBudgets
  <2>3. budgets \in [1..n -> Nat]
    BY <2>2
  <2>4. \A i \in 1..n : budgets[i] <= weights[i]
    BY <2>2
  <2>5. SumFunction(budgets) <= t
    <3> HIDE DEF budgets
    <3> QED
      BY <1>1, <2>3, <2>4, SumMonotone
  <2>6. SumFunction(budgets) \in Nat
    <3> HIDE DEF budgets
    <3> QED
      BY <1>1, <2>3, SumType
  <2> HIDE DEF budgets, t
  <2> QED
    BY <1>1, <1>2, <2>3, <2>5, <2>6 DEF budgets
<1>3. CASE t # 0
  <2> DEFINE s == Shares(weights, maxBytes)
             u == SumFunction(s)
             r == maxBytes - u
             e == Extras(weights, r)
             c == Weighty(weights, n)
  <2>1. t \in 1..MaxUsize
    <3> HIDE DEF t
    <3> QED
      BY <1>1, <1>3 DEF t
  <2>2. /\ r \in Nat
        /\ s \in [1..n -> Nat] /\ e \in [1..n -> Nat]
        /\ budgets = [i \in 1..n |-> s[i] + e[i]]
        /\ SumFunction(budgets) = u + Least(c, r)
    BY <2>1, Allocation
  <2>3. u \in Nat
    <3> HIDE DEF s
    <3> QED
      BY <1>1, <2>2, SumType
  <2>4. c \in Nat
    BY WeightyGrows
  <2> HIDE DEF s, e, c, u, budgets
  <2>5. budgets \in [1..n -> Nat]
    BY <2>2
  <2>6. SumFunction(budgets) <= maxBytes
    BY <2>2, <2>3, <2>4 DEF Least
  <2> QED
    BY <2>5, <2>6 DEF budgets
<1> QED
  BY <1>2, <1>3

\* A file whose share is no smaller keeps its order if it gets one of the
\* left-over bytes whenever the other does.
LEMMA ExtraByteKeepsOrder ==
    ASSUME NEW x \in Nat, NEW y \in Nat, x >= y,
           NEW d \in {0, 1}, NEW e \in {0, 1}, e = 1 => d = 1
    PROVE  x + d >= y + e
<1>1. CASE d = 1
  BY <1>1
<1>2. CASE d = 0 /\ e = 0
  BY <1>2
<1> QED
  BY <1>1, <1>2

\* If no product overflows either, they are all of it, and every file's
\* budget is its fair part.
THEOREM BudgetsAreProportional ==
    ASSUME NEW n \in Nat, NEW weights \in [1..n -> Nat],
           NEW maxBytes \in 0..MaxUsize,
           SumFunction(weights) <= MaxUsize,
           \A i \in 1..n : maxBytes * weights[i] <= MaxUsize
    PROVE  BudgetsAreFair(weights, maxBytes)
<1> DEFINE t == SumFunction(weights)
           s == Shares(weights, maxBytes)
           u == SumFunction(s)
           r == maxBytes - u
           e == Extras(weights, r)
           c == Weighty(weights, n)
           b == AllocateDiffBudgets(weights, maxBytes)
<1> SUFFICES ASSUME t > 0
             PROVE  /\ SumFunction(b) = maxBytes
                    /\ \A i \in 1..n :
                          b[i] * t - maxBytes * weights[i] \in (1 - t)..t
                    /\ \A i, j \in 1..n :
                          i < j /\ weights[i] >= weights[j] => b[i] >= b[j]
                    /\ maxBytes >= t =>
                          \A i \in 1..n : weights[i] > 0 => b[i] >= weights[i]
  BY DEF BudgetsAreFair
<1>1. IsFiniteSet(1..n) /\ t \in Nat /\ MaxUsize \in Nat /\ maxBytes \in Nat
  <2>1. IsFiniteSet(1..n)
    BY FS_Interval
  <2> QED
    BY <2>1, SumType, UsizeAssumption
<1>2. t \in 1..MaxUsize
  <2> HIDE DEF t
  <2> QED
    BY <1>1 DEF t
<1>3. /\ r \in Nat
      /\ s \in [1..n -> Nat] /\ e \in [1..n -> Nat]
      /\ b = [i \in 1..n |-> s[i] + e[i]]
      /\ SumFunction(b) = u + Least(c, r)
  BY <1>2, Allocation
<1>4. u \in Nat
  <2> HIDE DEF s
  <2> QED
    BY <1>1, <1>3, SumType
<1>5. c \in Nat
  BY WeightyGrows
<1>6. maxBytes < u + c
  BY <1>1, SharesBound
<1>7. ASSUME NEW i \in 1..n
      PROVE  /\ s[i] \in Nat /\ s[i] = Share(weights[i], t, maxBytes)
             /\ s[i] * t <= maxBytes * weights[i]
             /\ maxBytes * weights[i] + 1 <= (s[i] + 1) * t
             /\ e[i] = IF GetsRemainder(weights, i, r) THEN 1 ELSE 0
  <2>1. s[i] = Share(weights[i], t, maxBytes)
    BY DEF Shares
  <2>2. e[i] = IF GetsRemainder(weights, i, r) THEN 1 ELSE 0
    BY DEF Extras
  <2>3. maxBytes * weights[i] <= MaxUsize /\ weights[i] \in Nat
    OBVIOUS
  <2>4. t \in Nat \ {0}
    BY <1>1, <1>2
  <2> HIDE DEF t, s, e, r
  <2>5. /\ s[i] \in Nat
        /\ s[i] * t <= maxBytes * weights[i]
        /\ maxBytes * weights[i] + 1 <= (s[i] + 1) * t
    BY <1>1, <2>1, <2>3, <2>4, ShareBounds
  <2> QED
    BY <2>1, <2>2, <2>5
<1> HIDE DEF t, s, u, e, c, b
<1>8. SumFunction(b) = maxBytes
  BY <1>1, <1>3, <1>4, <1>5, <1>6 DEF Least
<1> HIDE DEF r
<1>12. t \in Nat \ {0}
  BY <1>1, <1>2
<1>9. ASSUME NEW i \in 1..n
      PROVE  b[i] * t - maxBytes * weights[i] \in (1 - t)..t
  <2> DEFINE x == s[i] * t
             a == maxBytes * weights[i]
  <2>1. /\ x \in Nat /\ a \in Nat /\ x <= a /\ (s[i] + 1) * t = x + t
        /\ a + 1 <= x + t
    <3>1. (s[i] + 1) * t = x + t
      BY <1>1, <1>7
    <3> QED
      BY <1>1, <1>7, <3>1, ProductType
  <2>2. b[i] * t \in {x, x + t}
    <3>1. b[i] = s[i] + e[i] /\ e[i] \in {0, 1}
      BY <1>3, <1>7
    <3>2. CASE e[i] = 0
      BY <1>7, <3>1, <3>2
    <3>3. CASE e[i] = 1
      BY <2>1, <3>1, <3>3
    <3> QED
      BY <3>1, <3>2, <3>3
  <2> DEFINE y == b[i] * t
  <2>3. y \in {x, x + t}
    BY <2>2
  <2> HIDE DEF x, a, y
  <2>4. y - a \in (1 - t)..t
    BY <1>1, <2>1, <2>3
  <2> QED
    BY <2>4 DEF y, a
<1>10. ASSUME NEW i \in 1..n, NEW j \in 1..n, i < j, weights[i] >= weights[j]
       PROVE  b[i] >= b[j]
  <2>0. s[i] \in Nat /\ s[j] \in Nat
    BY <1>3
  <2>1. s[i] >= s[j]
    <3>1. s[j] * t <= maxBytes * weights[i]
      <4> DEFINE ai == maxBytes * weights[i]
                 aj == maxBytes * weights[j]
                 x == s[j] * t
      <4>1. aj <= ai
        <5>1. weights[j] <= weights[i] /\ weights[i] \in Nat /\ weights[j] \in Nat
          BY <1>10
        <5>2. CASE maxBytes = 0
          BY <5>1, <5>2
        <5>3. CASE maxBytes # 0
          <6>1. weights[j] * maxBytes <= weights[i] * maxBytes
            BY <1>1, <5>1, <5>3, ProductsCompare
          <6>2. weights[j] * maxBytes = aj /\ weights[i] * maxBytes = ai
            BY <1>1, <5>1
          <6> HIDE DEF ai, aj
          <6> QED
            BY <6>1, <6>2
        <5> QED
          BY <5>2, <5>3
      <4>2. x <= aj /\ x \in Nat /\ ai \in Nat /\ aj \in Nat
        <5>1. s[j] \in Nat /\ weights[i] \in Nat /\ weights[j] \in Nat
          BY <1>7
        <5> QED
          BY <1>1, <1>7, <5>1, ProductType
      <4> HIDE DEF ai, aj, x
      <4>3. x <= ai
        BY <4>1, <4>2
      <4> QED
        BY <4>3 DEF x, ai
    <3>2. ~((s[i] + 1) * t <= s[j] * t)
      <4> DEFINE ai == maxBytes * weights[i]
                 x == s[j] * t
                 y == (s[i] + 1) * t
      <4>1. x <= ai /\ ai + 1 <= y /\ x \in Nat /\ y \in Nat /\ ai \in Nat
        <5>1. s[j] \in Nat /\ s[i] + 1 \in Nat /\ weights[i] \in Nat
          BY <1>7
        <5> QED
          BY <1>1, <1>7, <3>1, <5>1, ProductType
      <4> HIDE DEF ai, x, y
      <4>2. ~(y <= x)
        BY <4>1
      <4> QED
        BY <4>2 DEF x, y
    <3>3. ~(s[i] + 1 <= s[j])
      <4>1. s[i] + 1 \in Nat /\ s[j] \in Nat
        BY <2>0
      <4> QED
        BY <1>12, <3>2, <4>1, ProductsCompare
    <3> QED
      BY <2>0, <3>3
  <2>2. e[j] = 1 => e[i] = 1
    <3> SUFFICES ASSUME e[j] = 1 PROVE e[i] = 1
      OBVIOUS
    <3>1. weights[j] > 0 /\ Weighty(weights, j) <= r
      <4>1. e[j] = IF GetsRemainder(weights, j, r) THEN 1 ELSE 0
        BY <1>7
      <4>2. GetsRemainder(weights, j, r)
        BY <4>1
      <4> QED
        BY <4>2 DEF GetsRemainder, Weighty
    <3>2. Weighty(weights, i) <= Weighty(weights, j)
          /\ Weighty(weights, i) \in Nat /\ Weighty(weights, j) \in Nat
      <4>1. i \in 0..n /\ j \in i..n /\ j \in 0..n
        BY <1>10
      <4> QED
        BY <4>1, WeightyGrows
    <3>3. weights[i] > 0 /\ Weighty(weights, i) <= r
      <4>1. weights[i] \in Nat /\ weights[j] \in Nat /\ weights[i] >= weights[j]
        BY <1>10
      <4>2. r \in Nat
        BY <1>3
      <4> DEFINE wi == weights[i]
                 wj == weights[j]
                 ci == Weighty(weights, i)
                 cj == Weighty(weights, j)
      <4>3. /\ wi \in Nat /\ wj \in Nat /\ wi >= wj /\ wj > 0
            /\ ci \in Nat /\ cj \in Nat /\ ci <= cj /\ cj <= r
        BY <3>1, <3>2, <4>1
      <4> HIDE DEF wi, wj, ci, cj
      <4>4. wi > 0 /\ ci <= r
        BY <4>2, <4>3
      <4> QED
        BY <4>4 DEF wi, ci
    <3>4. GetsRemainder(weights, i, r)
      BY <3>3 DEF GetsRemainder, Weighty
    <3>5. e[i] = IF GetsRemainder(weights, i, r) THEN 1 ELSE 0
      BY <1>7
    <3> QED
      BY <3>4, <3>5
  <2>3. b[i] = s[i] + e[i] /\ b[j] = s[j] + e[j]
    BY <1>3
  <2>4. e[i] \in {0, 1} /\ e[j] \in {0, 1}
    BY <1>7
  <2>5. s[i] + e[i] >= s[j] + e[j]
    BY <2>0, <2>1, <2>2, <2>4, ExtraByteKeepsOrder
  <2> QED
    BY <2>3, <2>5
<1>11. ASSUME maxBytes >= t, NEW i \in 1..n, weights[i] > 0
       PROVE  b[i] >= weights[i]
  <2> DEFINE w == weights[i]
             x == (s[i] + 1) * t
             a == maxBytes * w
             y == w * t
  <2>1. w \in Nat \ {0} /\ t \in Nat \ {0} /\ maxBytes \in Nat
    BY <1>1, <1>2, <1>11
  <2>2. y <= a
    <3>1. t * w <= maxBytes * w
      <4> HIDE DEF w
      <4> QED
        BY <1>11, <2>1, ProductsCompare
    <3>2. t * w = w * t
      BY <2>1
    <3> QED
      BY <3>1, <3>2
  <2>3. a + 1 <= x /\ a \in Nat /\ x \in Nat /\ y \in Nat
    <3>1. s[i] + 1 \in Nat
      BY <1>7
    <3>2. a + 1 <= x
      BY <1>7
    <3> HIDE DEF w
    <3> QED
      BY <2>1, <3>1, <3>2, ProductType
  <2>4. ~(x <= y)
    <3> HIDE DEF x, a, y
    <3> QED
      BY <2>2, <2>3
  <2>5. ~(s[i] + 1 <= w)
    <3>1. s[i] + 1 \in Nat
      BY <1>7
    <3> HIDE DEF w
    <3> QED
      BY <2>1, <2>4, <3>1, ProductsCompare
  <2>6. b[i] = s[i] + e[i] /\ e[i] \in {0, 1} /\ s[i] \in Nat
    BY <1>3, <1>7
  <2> QED
    BY <2>1, <2>5, <2>6
<1> QED
  BY <1>8, <1>9, <1>10, <1>11

\* The evidence shown of any number of files, of any kind and size, is within
\* max_diff_bytes, if only the sum of their weights is a usize.
THEOREM EvidenceAlwaysFits ==
    ASSUME NEW chosen \in Settings, chosen.max_diff_bytes <= MaxUsize,
           NEW shown \in Seq(File),
           SumFunction(Weights(shown, chosen)) <= MaxUsize
    PROVE  EvidenceFits(shown, chosen)
<1> DEFINE n == Len(shown)
           maxBytes == chosen.max_diff_bytes
           w == Weights(shown, chosen)
           b == AllocateDiffBudgets(w, maxBytes)
           bytes == StagedContext(shown, chosen)
<1>1. n \in Nat /\ DOMAIN shown = 1..n
  BY LenProperties
<1>2. maxBytes \in 0..MaxUsize
  BY EvidenceAssumption DEF Settings
<1>3. w \in [1..n -> Nat]
  <2>1. w = [i \in 1..n |-> IF shown[i].binary THEN 0
                            ELSE DiffWeight(shown[i], chosen)]
    BY <1>1 DEF Weights
  <2>2. \A i \in 1..n : DiffWeight(shown[i], chosen) \in Nat
    BY DEF DiffWeight, Settings
  <2> HIDE DEF w, n
  <2> QED
    BY <2>1, <2>2
<1>4. b \in [1..n -> Nat] /\ SumFunction(b) <= maxBytes
  <2>1. SumFunction(w) <= MaxUsize
    OBVIOUS
  <2> HIDE DEF w, n, maxBytes
  <2> QED
    BY <1>1, <1>2, <1>3, <2>1, BudgetsFit
<1>5. bytes = [i \in 1..n |->
                 IF shown[i].binary THEN 0
                 ELSE DiffBytes(shown[i], b[i], chosen)
                          + StagedFileBytes(shown[i], b[i], chosen)]
  BY <1>1 DEF StagedContext
<1>6. ASSUME NEW i \in 1..n
      PROVE  bytes[i] \in Nat /\ bytes[i] <= b[i]
  <2>1. shown[i] \in File /\ b[i] \in Nat
    BY <1>1, <1>4, ElementOfSeq
  <2>2. CASE shown[i].binary
    <3>1. bytes[i] = 0
      BY <1>5, <2>2
    <3> HIDE DEF bytes, b
    <3> QED
      BY <2>1, <3>1
  <2>3. CASE ~ shown[i].binary
    <3>1. bytes[i] = DiffBytes(shown[i], b[i], chosen)
                         + StagedFileBytes(shown[i], b[i], chosen)
      BY <1>5, <2>3
    <3>2. DiffBytes(shown[i], b[i], chosen) \in Nat
          /\ StagedFileBytes(shown[i], b[i], chosen) \in Nat
      <4> HIDE DEF b
      <4> QED
        BY <2>1, EvidenceType
    <3>3. DiffBytes(shown[i], b[i], chosen)
              + StagedFileBytes(shown[i], b[i], chosen) <= b[i]
      <4> HIDE DEF b
      <4> QED
        BY <2>1, FileEvidenceAlwaysFits DEF FileEvidenceFits
    <3> HIDE DEF bytes, b
    <3> QED
      BY <3>1, <3>2, <3>3
  <2> QED
    BY <2>2, <2>3
<1>7. bytes \in [1..n -> Nat]
  <2>1. DOMAIN bytes = 1..n /\ bytes = [i \in 1..n |-> bytes[i]]
    BY <1>5
  <2> HIDE DEF bytes, n
  <2> QED
    BY <1>6, <2>1
<1>8. SumFunction(bytes) <= SumFunction(b)
  <2>1. IsFiniteSet(1..n)
    BY <1>1, FS_Interval
  <2>2. \A i \in 1..n : bytes[i] <= b[i]
    BY <1>6
  <2> HIDE DEF bytes, b, n
  <2> QED
    BY <1>4, <1>7, <2>1, <2>2, SumMonotone
<1>9. SumFunction(bytes) \in Nat /\ SumFunction(b) \in Nat
  <2>1. IsFiniteSet(1..n)
    BY <1>1, FS_Interval
  <2> HIDE DEF bytes, b, n
  <2> QED
    BY <1>4, <1>7, <2>1, SumType
<1>10. SumFunction(bytes) <= maxBytes
  <2> HIDE DEF bytes, b, maxBytes, n
  <2> QED
    BY <1>2, <1>4, <1>8, <1>9, UsizeAssumption
<1> QED
  BY <1>10 DEF EvidenceFits
-----------------------------------------------------------------------------
(* The invariants of the runs, for every bound on what is enumerated. *)

LEMMA SumAtMost ==
    ASSUME NEW n \in Nat, NEW f \in [1..n -> Nat], NEW most \in Nat,
           \A i \in 1..n : f[i] <= most
    PROVE  SumFunction(f) <= n * most
<1> DEFINE S(k) == SumFunctionOnSet(f, 1..k)
           Holds == {k \in Nat : k <= n => S(k) \in Nat /\ S(k) <= k * most}
<1>1. /\ S(0) = 0 /\ S(n) = SumFunction(f)
      /\ \A k \in 0..(n - 1) : S(k + 1) = f[k + 1] + S(k)
  BY SumUpto
<1> HIDE DEF S
<1>2. 0 \in Holds
  BY <1>1
<1>3. ASSUME NEW k \in Holds
      PROVE  k + 1 \in Holds
  <2> SUFFICES ASSUME k + 1 <= n
               PROVE  S(k + 1) \in Nat /\ S(k + 1) <= (k + 1) * most
    OBVIOUS
  <2> DEFINE a == k * most
             x == f[k + 1]
  <2>1. S(k) \in Nat /\ S(k) <= a /\ S(k + 1) = x + S(k)
    BY <1>1, <1>3
  <2>2. x \in Nat /\ x <= most /\ a \in Nat /\ (k + 1) * most = a + most
    OBVIOUS
  <2> HIDE DEF a, x
  <2>3. S(k + 1) \in Nat /\ S(k + 1) <= a + most
    BY <2>1, <2>2
  <2> QED
    BY <2>2, <2>3
<1>4. Holds = Nat
  <2>1. Holds \in SUBSET Nat
    OBVIOUS
  <2> HIDE DEF Holds
  <2> QED
    BY <1>2, <1>3, <2>1, EveryNumber
<1> QED
  BY <1>1, <1>4

\* What a run is given: a text and what it may take, or a few files and the
\* settings they are shown by.
GivenText == input \in [text : Texts, budget : Nat, marker : Nat]

GivenFiles ==
    /\ input \in [files : Seq(File), settings : SmallSettings]
    /\ Len(input.files) <= MaxStaged

Given ==
    /\ subject = "text" => GivenText
    /\ subject = "files" => GivenFiles

LEMMA AsciiType == \A n \in Nat : Ascii(n) \in Texts
BY DEF Ascii, Texts

LEMMA GivenInit == Init => Given
<1> SUFFICES ASSUME Init PROVE Given
  OBVIOUS
<1>1. CASE subject = "text"
  <2>1. input \in [text : {Ascii(0)}, budget : 0..MaxBudget, marker : Markers]
    BY <1>1 DEF Init, EvidenceInit
  <2>2. GivenText
    BY <2>1, AsciiType, BoundsAssumption DEF GivenText
  <2> QED
    BY <1>1, <2>2 DEF Given
<1>2. CASE subject = "files"
  <2>1. input \in [files : {<< >>}, settings : SmallSettings]
    BY <1>2 DEF Init, EvidenceInit
  <2>2. << >> \in Seq(File) /\ Len(<< >>) = 0
    OBVIOUS
  <2>3. GivenFiles
    <3> DEFINE F == Seq(File)
    <3>1. input \in [files : F, settings : SmallSettings] /\ Len(input.files) = 0
      <4>1. << >> \in F
        BY <2>2
      <4> HIDE DEF F
      <4> QED
        BY <2>1, <2>2, <4>1
    <3>2. MaxStaged >= 0
      BY BoundsAssumption
    <3> QED
      BY <3>1, <3>2 DEF GivenFiles
  <2> QED
    BY <1>2, <2>3 DEF Given
<1> QED
  BY <1>1, <1>2 DEF Given

LEMMA GivenStep == Given /\ [Next]_vars => Given'
<1> SUFFICES ASSUME Given, [Next]_vars PROVE Given'
  OBVIOUS
<1>1. CASE AddChar
  <2>1. GivenText /\ subject = "text" /\ subject' = "text"
    BY <1>1 DEF AddChar, Given
  <2>2. PICK width \in 1..4 :
           input' = [input EXCEPT
              !.text = [len |-> @.len + width,
                        cuts |-> @.cuts \cup {@.len + width}]]
    BY <1>1 DEF AddChar
  <2> DEFINE t == input.text
             u == [len |-> t.len + width, cuts |-> t.cuts \cup {t.len + width}]
  <2>3. /\ t.len \in Nat /\ {0, t.len} \subseteq t.cuts
        /\ t.cuts \subseteq 0..t.len
    BY <2>1 DEF GivenText, Texts
  <2>4. u \in Texts
    <3>1. u.len \in Nat /\ u.cuts \subseteq 0..u.len /\ {0, u.len} \subseteq u.cuts
      BY <2>3
    <3>2. u \in [len : Nat, cuts : SUBSET Nat]
      BY <2>3
    <3> HIDE DEF u
    <3> QED
      BY <3>1, <3>2 DEF Texts
  <2>5. input' = [input EXCEPT !.text = u]
    BY <2>2
  <2> HIDE DEF u
  <2>6. GivenText'
    BY <2>1, <2>4, <2>5 DEF GivenText
  <2> QED
    BY <2>1, <2>6 DEF Given
<1>2. CASE StageFile
  <2>1. GivenFiles /\ subject = "files" /\ subject' = "files"
    BY <1>2 DEF StageFile, Given
  <2>2. PICK binary \in BOOLEAN, low \in BOOLEAN, n \in DiffLengths,
             staged \in {Unshown} \cup {Ascii(m) : m \in StagedLengths} :
           input' = [input EXCEPT
              !.files = Append(@, [binary |-> binary, low |-> low,
                                   diff |-> Ascii(n), staged |-> staged])]
    BY <1>2 DEF StageFile
  <2> DEFINE file == [binary |-> binary, low |-> low,
                      diff |-> Ascii(n), staged |-> staged]
  <2>3. file \in File
    <3>1. Ascii(n) \in Texts /\ staged \in Texts \cup {Unshown}
      BY AsciiType, BoundsAssumption
    <3> QED
      BY <3>1 DEF File
  <2>4. Len(input.files) < MaxStaged
    BY <1>2 DEF StageFile
  <2>5. input' = [input EXCEPT !.files = Append(@, file)]
    BY <2>2
  <2> HIDE DEF file
  <2>6. /\ Append(input.files, file) \in Seq(File)
        /\ Len(Append(input.files, file)) = Len(input.files) + 1
        /\ Len(input.files) \in Nat
    BY <2>1, <2>3, AppendProperties, LenProperties DEF GivenFiles
  <2>7. GivenFiles'
    <3> DEFINE F == Seq(File)
               more == Append(input.files, file)
    <3>1. input \in [files : F, settings : SmallSettings] /\ more \in F
      BY <2>1, <2>6 DEF GivenFiles
    <3>2. Len(more) <= MaxStaged
      BY <2>4, <2>6, BoundsAssumption
    <3> HIDE DEF F, more
    <3>3. input' = [input EXCEPT !.files = more]
      BY <2>5 DEF more
    <3>4. input' \in [files : F, settings : SmallSettings] /\ input'.files = more
      BY <3>1, <3>3
    <3> QED
      BY <3>2, <3>4 DEF GivenFiles, F
  <2> QED
    BY <2>1, <2>7 DEF Given
<1>3. CASE UNCHANGED vars
  BY <1>3 DEF vars, Given, GivenText, GivenFiles
<1>4. CASE subject' = subject /\ subject \notin {"text", "files"}
  BY <1>4 DEF Given
<1> QED
  BY <1>1, <1>2, <1>3, <1>4
     DEF Next, EvidenceNext, AddCharacter, AddLine, AddByte, AddPiece

LEMMA AlwaysGiven == Spec => []Given
<1>1. Init => Given
  BY GivenInit
<1>2. Given /\ [Next]_vars => Given'
  BY GivenStep
<1> QED
  BY <1>1, <1>2, PTL DEF Spec

\* An excerpt fits its budget whatever text grows and whatever it may take.
THEOREM ExcerptsFit == Spec => []ExcerptFits
<1>1. Given => ExcerptFits
  BY ExcerptAlwaysFits DEF Given, GivenText, ExcerptFits
<1> QED
  BY <1>1, AlwaysGiven, PTL

\* An excerpt that is cut shows both ends of the text, where they can be shown.
THEOREM ExcerptsKeepBothEnds == Spec => []ExcerptKeepsBothEnds
<1>1. Given => ExcerptKeepsBothEnds
  BY BothEndsAlwaysKept DEF Given, GivenText, ExcerptKeepsBothEnds
<1> QED
  BY <1>1, AlwaysGiven, PTL

\* No file weighs so much that the weights of all wrap.
WeightsFit == \A w \in SourceWeights \cup LowWeights : MaxStaged * w <= MaxUsize

\* No share is computed from a product that is cut off at the largest usize.
ProductsFit ==
    \A w \in SourceWeights \cup LowWeights, bytes \in Budgets :
        bytes * w <= MaxUsize

LEMMA GivenWeights ==
    ASSUME Given, subject = "files"
    PROVE  LET w == Weights(input.files, input.settings)
               n == Len(input.files)
           IN /\ n \in Nat /\ n <= MaxStaged
              /\ input.files \in Seq(File)
              /\ input.settings \in Settings
              /\ input.settings.max_diff_bytes \in Budgets
              /\ input.settings.max_diff_bytes \in 0..MaxUsize
              /\ w \in [1..n -> Nat]
              /\ \A i \in 1..n : w[i] \in {0} \cup SourceWeights \cup LowWeights
<1> DEFINE files == input.files
           s == input.settings
           w == Weights(files, s)
           n == Len(files)
<1>1. files \in Seq(File) /\ n <= MaxStaged /\ s \in SmallSettings
  BY DEF Given, GivenFiles
<1>2. n \in Nat /\ DOMAIN files = 1..n
  BY <1>1, LenProperties
<1>3. /\ s \in Settings
      /\ s.max_diff_bytes \in Budgets /\ s.max_diff_bytes \in 0..MaxUsize
      /\ s.source_diff_weight \in SourceWeights
      /\ s.low_value_diff_weight \in LowWeights
  <2>1. Budgets \subseteq Nat
    BY BoundsAssumption, UsizeAssumption
  <2> HIDE DEF s
  <2> QED
    BY <1>1, <2>1, BoundsAssumption DEF SmallSettings, Settings
<1> HIDE DEF s
<1>4. w = [i \in 1..n |-> IF files[i].binary THEN 0
                          ELSE DiffWeight(files[i], s)]
  BY <1>2 DEF Weights
<1>5. \A i \in 1..n : DiffWeight(files[i], s) \in SourceWeights \cup LowWeights
  BY <1>3 DEF DiffWeight
<1> HIDE DEF w, n, files
<1>6. \A i \in 1..n : w[i] \in {0} \cup SourceWeights \cup LowWeights
  BY <1>4, <1>5
<1>7. w \in [1..n -> Nat]
  BY <1>4, <1>6, BoundsAssumption
<1> QED
  BY <1>1, <1>2, <1>3, <1>6, <1>7 DEF w, n, files, s

LEMMA GivenWeightsFit ==
    ASSUME Given, subject = "files", WeightsFit
    PROVE  SumFunction(Weights(input.files, input.settings)) <= MaxUsize
<1> DEFINE w == Weights(input.files, input.settings)
           n == Len(input.files)
<1>1. /\ n \in Nat /\ n <= MaxStaged /\ w \in [1..n -> Nat]
      /\ \A i \in 1..n : w[i] \in {0} \cup SourceWeights \cup LowWeights
  BY GivenWeights
<1> HIDE DEF w, n
<1>2. MaxUsize \in Nat /\ MaxStaged \in Nat
  BY UsizeAssumption, BoundsAssumption
<1> DEFINE WeightValues == {w[i] : i \in 1..n}
<1>3. SumFunction(w) \in Nat
  BY <1>1, SumType, FS_Interval
<1>4. CASE n = 0
  <2>1. \A i \in 1..n : w[i] <= 0
    BY <1>4
  <2>2. SumFunction(w) <= n * 0
    BY <1>1, <2>1, SumAtMost
  <2> QED
    BY <1>2, <1>3, <1>4, <2>2 DEF w
<1>5. CASE n # 0
  <2>1. PICK m \in Nat : /\ \A i \in 1..n : w[i] <= m
                         /\ m \in {0} \cup SourceWeights \cup LowWeights
    <3>1. WeightValues \in SUBSET Nat /\ IsFiniteSet(WeightValues) /\ w[1] \in WeightValues
      <4>1. IsFiniteSet(1..n)
        BY <1>1, FS_Interval
      <4>2. IsFiniteSet(WeightValues)
        <5>1. w \in Surjection(1..n, WeightValues)
          BY <1>1 DEF Surjection
        <5> HIDE DEF WeightValues
        <5> QED
          BY <4>1, <5>1, FS_Surjection
      <4> QED
        BY <1>1, <1>5, <4>2
    <3>2. PICK m \in WeightValues : \A x \in WeightValues : x <= m
      <4> HIDE DEF WeightValues
      <4> QED
        BY <3>1, GreatestOfFinite
    <3> QED
      BY <1>1, <3>1, <3>2
  <2>2. SumFunction(w) <= n * m
    BY <1>1, <2>1, SumAtMost
  <2>3. n * m <= MaxUsize
    <3>1. CASE m = 0
      BY <1>1, <1>2, <3>1
    <3>2. CASE m # 0
      <4>1. MaxStaged * m <= MaxUsize
        BY <2>1, <3>2 DEF WeightsFit
      <4>2. n * m <= MaxStaged * m
        BY <1>1, <1>2, <2>1, <3>2, ProductsCompare
      <4>3. n * m \in Nat /\ MaxStaged * m \in Nat
        BY <1>1, <1>2, <2>1, ProductType
      <4> QED
        BY <1>2, <4>1, <4>2, <4>3
    <3> QED
      BY <3>1, <3>2
  <2>4. n * m \in Nat
    BY <1>1, <2>1, ProductType
  <2>5. SumFunction(w) <= MaxUsize
    BY <1>2, <1>3, <2>2, <2>3, <2>4
  <2> QED
    BY <2>5 DEF w
<1> QED
  BY <1>4, <1>5

\* However many files of whatever kind are staged, the evidence shown of them
\* is together within max_diff_bytes, if the weights do not wrap.
THEOREM EvidenceStaysWithinBudget ==
    ASSUME WeightsFit
    PROVE  Spec => []EvidenceWithinBudget
<1>1. Given => EvidenceWithinBudget
  <2> SUFFICES ASSUME Given, subject = "files"
               PROVE  EvidenceFits(input.files, input.settings)
    BY DEF EvidenceWithinBudget
  <2>1. /\ input.files \in Seq(File) /\ input.settings \in Settings
        /\ input.settings.max_diff_bytes <= MaxUsize
    BY GivenWeights, UsizeAssumption
  <2>2. SumFunction(Weights(input.files, input.settings)) <= MaxUsize
    BY GivenWeightsFit
  <2> QED
    BY <2>1, <2>2, EvidenceAlwaysFits
<1> QED
  BY <1>1, AlwaysGiven, PTL

\* All of max_diff_bytes is handed out, each file getting its fair part, if
\* neither the weights nor the products are too large.
THEOREM AllocationStaysFair ==
    ASSUME WeightsFit, ProductsFit
    PROVE  Spec => []AllocationIsFair
<1>1. Given => AllocationIsFair
  <2> SUFFICES ASSUME Given, subject = "files"
               PROVE  BudgetsAreFair(Weights(input.files, input.settings),
                                     input.settings.max_diff_bytes)
    BY DEF AllocationIsFair
  <2> DEFINE w == Weights(input.files, input.settings)
             n == Len(input.files)
             bytes == input.settings.max_diff_bytes
  <2>1. /\ n \in Nat /\ w \in [1..n -> Nat] /\ bytes \in 0..MaxUsize
        /\ bytes \in Budgets
        /\ \A i \in 1..n : w[i] \in {0} \cup SourceWeights \cup LowWeights
    BY GivenWeights
  <2>2. SumFunction(w) <= MaxUsize
    BY GivenWeightsFit
  <2> HIDE DEF w, n, bytes
  <2>3. \A i \in 1..n : bytes * w[i] <= MaxUsize
    <3> SUFFICES ASSUME NEW i \in 1..n PROVE bytes * w[i] <= MaxUsize
      OBVIOUS
    <3>1. CASE w[i] = 0
      BY <2>1, <3>1, UsizeAssumption
    <3>2. CASE w[i] # 0
      BY <2>1, <3>2 DEF ProductsFit
    <3> QED
      BY <3>1, <3>2
  <2>4. BudgetsAreFair(w, bytes)
    BY <2>1, <2>2, <2>3, BudgetsAreProportional
  <2> QED
    BY <2>4 DEF w, bytes
<1> QED
  BY <1>1, AlwaysGiven, PTL
=============================================================================
