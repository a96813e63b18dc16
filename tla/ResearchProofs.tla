---------------------------- MODULE ResearchProofs ---------------------------
(***************************************************************************)
(* What holds of the research tools, whatever they are given: an           *)
(* extraction, for every history, set of paths and bounds and whatever     *)
(* others do meanwhile; the grouping of any commits; and the scores of any *)
(* data set.                                                               *)
(***************************************************************************)
EXTENDS MCResearch, RecursionProofs

-----------------------------------------------------------------------------
(* What does not change. *)

\* The history does not change, and what there is to read in it is a matter
\* of it alone.
LEMMA HistoryStays ==
    ASSUME history' = history
    PROVE  /\ \A c : Parents(c)' = Parents(c) /\ Tree(c)' = Tree(c)
           /\ \A from : Reachable(from)' = Reachable(from)
           /\ \A from, to : RevList(from, to)' = RevList(from, to)
           /\ \A from, to : Changed(from, to)' = Changed(from, to)
<1>1. \A c : Parents(c)' = Parents(c) /\ Tree(c)' = Tree(c)
  BY DEF Parents, Tree
<1>2. ASSUME NEW from
      PROVE  Reachable(from)' = Reachable(from)
  BY Zenon, <1>1 DEF Reachable
<1>3. ASSUME NEW from, NEW to
      PROVE  RevList(from, to)' = RevList(from, to)
  BY Zenon, <1>1, <1>2 DEF RevList
<1>4. ASSUME NEW from, NEW to
      PROVE  Changed(from, to)' = Changed(from, to)
  BY <1>1 DEF Changed
<1> QED
  BY <1>1, <1>2, <1>3, <1>4

-----------------------------------------------------------------------------
(* The output file. *)

\* While the record is written, the file is the one this run created.
OutputIInv == pc = "write" => output = "partial"

\* write_record: a file that is there, of others or of this run, stays as it
\* is.
THEOREM OutputIsNeverOverwritten == Spec => NeverOverwrites
<1> USE DEF repository, locals, Ends, End, Require, OutputIInv
<1>1. Init => OutputIInv
  BY DEF Init, Fresh
<1>2. OutputIInv /\ [Next]_vars => OutputIInv'
  BY DEF Next, Extractor, vars, ResolveBase, ResolveTip,
         ValidateAttributeIsolation, Observe, CreateOutput, WriteOutput, Fail,
         User, UserMovesRef, UserChangesAttributes, UserCreatesOutput
<1>3. OutputIInv /\ [Next]_vars
        => [output' = output \/ output \notin {"foreign", "complete"}]_vars
  BY DEF Next, Extractor, vars, ResolveBase, ResolveTip,
         ValidateAttributeIsolation, Observe, CreateOutput, WriteOutput, Fail,
         User, UserMovesRef, UserChangesAttributes, UserCreatesOutput
<1> QED
  BY <1>1, <1>2, <1>3, PTL DEF Spec, NeverOverwrites
-----------------------------------------------------------------------------
(* Histories. *)

\* Every commit has its parents among those before it.
WellFormed(h) ==
    /\ h \in Seq([parents : Seq(Nat),
                 tree : [Paths -> UNION {Contents[p] \cup {Absent} : p \in Paths}]])
    /\ \A c \in DOMAIN h : h[c].parents \in Seq(1..(c - 1))

LEMMA HistoriesAreWellFormed ==
    ASSUME NEW h \in Histories
    PROVE  WellFormed(h) /\ Len(h) = Commits
<1> DEFINE holds(path) == Contents[path] \cup {Absent}
           Trees == {t \in [Paths -> UNION {holds(p) : p \in Paths}] :
                     \A path \in Paths : t[path] \in holds(path)}
           Pars(n) == {IF first = second THEN <<first>> ELSE <<first, second>> :
                          first, second \in 1..(n - 1)}
           Commit == [parents : Seq(Nat), tree : [Paths -> UNION {holds(p) : p \in Paths}]]
           Value == SUBSET Seq(Commit)
           Grown(hs, n) == {Append(g, commit) : g \in hs,
                     commit \in [parents : Pars(n), tree : Trees]}
           First == {<<[parents |-> << >>, tree |-> t]>> : t \in Trees}
           D == 1..Commits
           step == [df \in D \X [D -> Value] |->
                      IF df[1] = 1 THEN First ELSE Grown(df[2][df[1] - 1], df[1])]
           Made == CHOOSE made : made = [n \in D |->
                 IF n = 1 THEN First ELSE Grown(made[n - 1], n)]
<1>1. Histories = Made[Commits]
  BY DEF Histories
<1>2. ASSUME NEW n \in Nat, NEW p \in Pars(n)
      PROVE  p \in Seq(1..(n - 1)) /\ p \in Seq(Nat)
  <2>1. PICK first \in 1..(n - 1), second \in 1..(n - 1) :
            p = IF first = second THEN <<first>> ELSE <<first, second>>
    OBVIOUS
  <2>2. CASE first = second
    BY <2>1, <2>2
  <2>3. CASE first # second
    BY <2>1, <2>3
  <2> QED
    BY <2>2, <2>3
<1>3. \A t \in Trees : t \in [Paths -> UNION {holds(p) : p \in Paths}]
  OBVIOUS
<1> HIDE DEF Pars, Trees
<1>4. First \in Value
  <2>1. ASSUME NEW t \in Trees
        PROVE  <<[parents |-> << >>, tree |-> t]>> \in Seq(Commit)
    BY <1>3
  <2> HIDE DEF Commit
  <2> QED
    BY <2>1
<1>5. ASSUME NEW n \in Nat, NEW hs \in Value
      PROVE  Grown(hs, n) \in Value
  <2>1. ASSUME NEW g \in hs, NEW commit \in [parents : Pars(n), tree : Trees]
        PROVE  Append(g, commit) \in Seq(Commit)
    <3>1. commit \in Commit
      BY <1>2, <1>3
    <3> HIDE DEF Commit
    <3> QED
      BY <3>1
  <2> HIDE DEF Commit
  <2>2. ASSUME NEW h2 \in Grown(hs, n)
        PROVE  h2 \in Seq(Commit)
    <3>1. PICK g \in hs, commit \in [parents : Pars(n), tree : Trees] :
              h2 = Append(g, commit)
      OBVIOUS
    <3> QED
      BY <2>1, <3>1
  <2> HIDE DEF Grown
  <2> QED
    BY <2>2
<1> HIDE DEF First, Grown, Value
<1>6. \E made : made = [n \in D |-> IF n = 1 THEN First ELSE Grown(made[n - 1], n)]
  <2> DEFINE rank == [n \in D |-> n]
  <2>1. Commits \in Nat /\ rank \in [D -> 0..Commits]
    BY ExtractAssumption
  <2>2. \A n \in D, f \in [D -> Value] : n # 1 => Grown(f[n - 1], n) \in Value
    BY <1>5, ExtractAssumption
  <2>3. step \in [D \X [D -> Value] -> Value]
    BY <1>4, <2>2
  <2>4. \A n \in D : \A f, g \in [D -> Value] :
            (\A e \in D : rank[e] < rank[n] => f[e] = g[e])
            => step[<<n, f>>] = step[<<n, g>>]
    <3>1. \A n \in D : n # 1 => n - 1 \in D /\ n - 1 < n
      BY ExtractAssumption
    <3> QED
      BY <3>1
  <2>5. Value # {}
    BY <1>4
  <2> HIDE DEF rank, step, D
  <2>6. IsRecursion(D, Value, Commits, rank, step)
    BY Zenon, <2>1, <2>3, <2>4, <2>5 DEF IsRecursion
  <2>7. PICK f \in [D -> Value] : \A n \in D : f[n] = step[<<n, f>>]
    BY <2>6, RecursionExists
  <2>8. f = [n \in D |-> IF n = 1 THEN First ELSE Grown(f[n - 1], n)]
    BY <2>7 DEF step
  <2> QED
    BY <2>8
<1>7. Made = [n \in D |-> IF n = 1 THEN First ELSE Grown(Made[n - 1], n)]
  BY <1>6
<1> HIDE DEF Made
<1> DEFINE Good == {n \in Nat : n \in D => \A g \in Made[n] : WellFormed(g) /\ Len(g) = n}
<1>8. 0 \in Good
  OBVIOUS
<1>9. ASSUME NEW n \in Good
      PROVE  n + 1 \in Good
  <2>0. n \in Nat /\ Commits \in Nat
    BY ExtractAssumption
  <2> SUFFICES ASSUME n + 1 \in D, NEW g \in Made[n + 1]
               PROVE  WellFormed(g) /\ Len(g) = n + 1
    BY <2>0
  <2>1. CASE n = 0
    <3>1. Made[1] = First
      BY <1>7, <2>0, <2>1
    <3>2. PICK t \in Trees : g = <<[parents |-> << >>, tree |-> t]>>
      BY <2>1, <3>1 DEF First
    <3>3. [parents |-> << >>, tree |-> t] \in Commit
      BY <1>3, <3>2
    <3>4. g \in Seq(Commit) /\ Len(g) = 1 /\ g[1].parents = << >>
      <4> HIDE DEF Commit
      <4> QED
        BY <3>2, <3>3
    <3>5. \A c \in DOMAIN g : c = 1 /\ g[c].parents = << >>
      BY <3>4
    <3>6. << >> \in Seq(1..(1 - 1))
      OBVIOUS
    <3>7. \A c \in DOMAIN g : g[c].parents \in Seq(1..(c - 1))
      BY Zenon, <3>5, <3>6
    <3> QED
      BY <2>1, <3>4, <3>7 DEF WellFormed
  <2>2. CASE n # 0
    <3>1. n \in D /\ n + 1 - 1 = n /\ n \in Nat
      BY <2>0, <2>2
    <3>2. Made[n + 1] = Grown(Made[n], n + 1)
      BY <1>7, <2>2, <3>1
    <3>3. PICK f \in Made[n], commit \in [parents : Pars(n + 1), tree : Trees] :
              g = Append(f, commit)
      <4>1. g \in Grown(Made[n], n + 1)
        BY <3>2
      <4> QED
        BY <4>1 DEF Grown
    <3>4. WellFormed(f) /\ Len(f) = n
      BY <3>1
    <3>5. commit.parents \in Seq(1..n) /\ commit.parents \in Seq(Nat)
      BY <1>2, <3>1
    <3>6. commit \in Commit
      BY <1>3, <3>5
    <3>7. \A c \in 1..n : g[c] = f[c]
      BY <3>3, <3>4 DEF WellFormed
    <3>8. g[n + 1] = commit /\ Len(g) = n + 1
      BY <3>1, <3>3, <3>4 DEF WellFormed
    <3>9. g \in Seq(Commit)
      <4>1. f \in Seq(Commit)
        BY <3>4 DEF WellFormed
      <4> HIDE DEF Commit
      <4> QED
        BY <3>3, <3>6, <4>1
    <3>10. ASSUME NEW c \in DOMAIN g
           PROVE  g[c].parents \in Seq(1..(c - 1))
      <4>1. CASE c = n + 1
        <5>1. g[c].parents = commit.parents /\ c - 1 = n
          BY <3>1, <3>8, <4>1
        <5> QED
          BY <3>5, <5>1
      <4>2. CASE c # n + 1
        <5>1. c \in 1..n
          BY <3>1, <3>8, <3>9, <4>2
        <5>2. c \in DOMAIN f /\ g[c] = f[c]
          BY <3>4, <3>7, <5>1 DEF WellFormed
        <5> QED
          BY <3>4, <5>2 DEF WellFormed
      <4> QED
        BY <4>1, <4>2
    <3> QED
      BY <3>8, <3>9, <3>10 DEF WellFormed
  <2> QED
    BY <2>1, <2>2
<1>10. Commits \in Good
  <2> HIDE DEF Good
  <2>1. Good \in SUBSET Nat
    BY DEF Good
  <2>2. Commits \in Nat
    BY ExtractAssumption
  <2> QED
    BY <1>8, <1>9, <2>1, <2>2, EveryNumber
<1> QED
  BY <1>1, <1>10, ExtractAssumption

\* The parents of a commit come before it.
LEMMA ParentsBefore ==
    ASSUME WellFormed(history), NEW c \in DOMAIN history
    PROVE  /\ DOMAIN history = 1..Len(history) /\ Len(history) \in Nat
           /\ c \in Nat
           /\ Parents(c) \in Seq(Nat)
           /\ Range(Parents(c)) \subseteq DOMAIN history
           /\ \A parent \in Range(Parents(c)) : parent < c
<1>1. DOMAIN history = 1..Len(history) /\ Len(history) \in Nat /\ c \in 1..Len(history)
  BY DEF WellFormed
<1>2. Parents(c) \in Seq(1..(c - 1))
  BY DEF WellFormed, Parents
<1>3. Parents(c) \in Seq(Nat) /\ Range(Parents(c)) \subseteq 1..(c - 1)
  BY <1>1, <1>2 DEF Range
<1> QED
  BY <1>1, <1>3

\* Reachable satisfies its equation.
LEMMA ReachableStep ==
    ASSUME WellFormed(history), NEW c \in DOMAIN history
    PROVE  /\ Reachable(c) = {c} \cup UNION {Reachable(p) : p \in Range(Parents(c))}
           /\ Reachable(c) \subseteq DOMAIN history
<1> DEFINE D == DOMAIN history
           V == SUBSET D
           Pars(d) == Range(Parents(d))
           Value(d, f) == {d} \cup UNION {f[p] : p \in Pars(d)}
           step == [df \in D \X [D -> V] |-> Value(df[1], df[2])]
           rank == [d \in D |-> d]
           from == CHOOSE from : from =
                       [d \in D |-> {d} \cup UNION {from[p] : p \in Pars(d)}]
<1>1. \A d \in D : Reachable(d) = from[d]
  BY Zenon DEF Reachable
<1>2. \A d \in D : Pars(d) \subseteq D /\ (\A p \in Pars(d) : p < d)
  BY ParentsBefore
<1> HIDE DEF Pars
<1>3. IsRecursion(D, V, Len(history), rank, step)
  <2>1. Len(history) \in Nat /\ rank \in [D -> 0..Len(history)]
    BY ParentsBefore
  <2>2. step \in [D \X [D -> V] -> V]
    <3>1. \A d \in D, f \in [D -> V] : Value(d, f) \in V
      BY <1>2
    <3> HIDE DEF Value, V
    <3> QED
      BY <3>1
  <2>3. ASSUME NEW d \in D, NEW f \in [D -> V], NEW g \in [D -> V],
               \A e \in D : rank[e] < rank[d] => f[e] = g[e]
        PROVE  step[<<d, f>>] = step[<<d, g>>]
    <3>1. \A p \in Pars(d) : f[p] = g[p]
      BY <1>2, <2>3
    <3>2. {f[p] : p \in Pars(d)} = {g[p] : p \in Pars(d)}
      BY <3>1
    <3>3. Value(d, f) = Value(d, g)
      BY <3>2
    <3> HIDE DEF Value
    <3> QED
      BY <3>3
  <2> HIDE DEF rank, step, D
  <2> QED
    BY <2>1, <2>2, <2>3 DEF IsRecursion
<1>4. PICK f \in [D -> V] : \A d \in D : f[d] = step[<<d, f>>]
  <2> HIDE DEF rank, step, D, V
  <2> QED
    BY <1>3, RecursionExists
<1>5. f = [d \in D |-> {d} \cup UNION {f[p] : p \in Pars(d)}]
  <2>1. \A d \in D : step[<<d, f>>] = Value(d, f)
    <3> HIDE DEF Value
    <3> QED
      BY <1>4
  <2> QED
    BY <1>4, <2>1
<1>6. from = [d \in D |-> {d} \cup UNION {from[p] : p \in Pars(d)}]
  BY <1>5
<1> HIDE DEF from
<1>7. \A d \in D : from[d] = {d} \cup UNION {from[p] : p \in Pars(d)}
  BY <1>6
<1>8. {from[p] : p \in Pars(c)} = {Reachable(p) : p \in Pars(c)}
  BY <1>1, <1>2
<1>9. Reachable(c) = {c} \cup UNION {Reachable(p) : p \in Pars(c)}
  BY <1>1, <1>7, <1>8
<1> DEFINE Within == {n \in Nat : \A d \in D : d <= n => from[d] \subseteq D}
<1>10. 0 \in Within
  BY ParentsBefore
<1>11. ASSUME NEW n \in Within
       PROVE  n + 1 \in Within
  <2> SUFFICES ASSUME NEW d \in D, d <= n + 1
               PROVE  from[d] \subseteq D
    OBVIOUS
  <2>1. \A p \in Pars(d) : p \in D /\ p <= n
    BY <1>2, ParentsBefore
  <2> QED
    BY <1>7, <2>1
<1>12. Within = Nat
  <2>1. Within \in SUBSET Nat
    OBVIOUS
  <2> HIDE DEF Within
  <2> QED
    BY <1>10, <1>11, <2>1, EveryNumber
<1>13. from[c] \subseteq D
  BY <1>12, ParentsBefore
<1> QED
  BY <1>1, <1>9, <1>13 DEF Pars

\* RevList satisfies its equation.
LEMMA RevListStep ==
    ASSUME WellFormed(history), NEW from, NEW c \in DOMAIN history
    PROVE  /\ RevList(from, c) \in Seq(DOMAIN history)
           /\ RevList(from, c) =
                 IF c \in Reachable(from) THEN << >>
                 ELSE IF Parents(c) = << >> THEN <<c>>
                 ELSE Append(RevList(from, Parents(c)[1]), c)
<1> DEFINE D == DOMAIN history
           V == Seq(D)
           Value(d, f) == IF d \in Reachable(from) THEN << >>
                          ELSE IF Parents(d) = << >> THEN <<d>>
                          ELSE Append(f[Parents(d)[1]], d)
           step == [df \in D \X [D -> V] |-> Value(df[1], df[2])]
           rank == [d \in D |-> d]
           back == CHOOSE back : back = [d \in D |-> Value(d, back)]
<1>1. \A d \in D : RevList(from, d) = back[d]
  BY Zenon DEF RevList
<1>2. ASSUME NEW d \in D, Parents(d) # << >>
      PROVE  Parents(d)[1] \in D /\ Parents(d)[1] < d
  <2>1. Parents(d)[1] \in Range(Parents(d))
    BY <1>2, ParentsBefore DEF Range
  <2> QED
    BY <2>1, ParentsBefore
<1>3. IsRecursion(D, V, Len(history), rank, step)
  <2>1. Len(history) \in Nat /\ rank \in [D -> 0..Len(history)]
    BY ParentsBefore
  <2>2. step \in [D \X [D -> V] -> V]
    <3>1. ASSUME NEW d \in D, NEW f \in [D -> V] 
          PROVE  Value(d, f) \in V
      <4>1. Parents(d) # << >> => f[Parents(d)[1]] \in V
        BY <1>2
      <4> HIDE DEF D
      <4> QED
        BY <4>1
    <3> HIDE DEF Value, V
    <3> QED
      BY <3>1
  <2>3. ASSUME NEW d \in D, NEW f \in [D -> V], NEW g \in [D -> V],
               \A e \in D : rank[e] < rank[d] => f[e] = g[e]
        PROVE  step[<<d, f>>] = step[<<d, g>>]
    <3>1. Parents(d) # << >> => f[Parents(d)[1]] = g[Parents(d)[1]]
      BY <1>2, <2>3
    <3>2. Value(d, f) = Value(d, g)
      BY <3>1
    <3> HIDE DEF Value
    <3> QED
      BY <3>2
  <2>4. << >> \in V
    OBVIOUS
  <2> HIDE DEF rank, step, D, V
  <2> QED
    BY <2>1, <2>2, <2>3, <2>4 DEF IsRecursion
<1>4. PICK f \in [D -> V] : \A d \in D : f[d] = step[<<d, f>>]
  <2> HIDE DEF rank, step, D, V
  <2> QED
    BY <1>3, RecursionExists
<1>5. f = [d \in D |-> Value(d, f)]
  <2>1. \A d \in D : step[<<d, f>>] = Value(d, f)
    <3> HIDE DEF Value
    <3> QED
      BY <1>4
  <2> HIDE DEF Value, step
  <2> QED
    BY <1>4, <2>1
<1>6. back = [d \in D |-> Value(d, back)]
  <2> HIDE DEF Value
  <2> QED
    BY <1>5
<1>7. \A d \in D : back[d] = Value(d, back)
  <2> HIDE DEF Value, back
  <2> QED
    BY <1>6
<1> HIDE DEF back
<1> DEFINE Within == {n \in Nat : \A d \in D : d <= n => back[d] \in V}
<1>10. 0 \in Within
  BY ParentsBefore
<1>11. ASSUME NEW n \in Within
       PROVE  n + 1 \in Within
  <2> SUFFICES ASSUME NEW d \in D, d <= n + 1
               PROVE  back[d] \in V
    OBVIOUS
  <2>1. Parents(d) # << >> => back[Parents(d)[1]] \in V
    <3> HAVE Parents(d) # << >>
    <3>1. Parents(d)[1] \in D /\ Parents(d)[1] < d /\ d \in Nat
      BY <1>2, ParentsBefore
    <3>2. Parents(d)[1] \in Nat /\ n \in Nat
      BY <3>1, ParentsBefore
    <3>3. Parents(d)[1] <= n
      BY <3>1, <3>2
    <3> QED
      BY <3>1, <3>3
  <2>2. back[d] = Value(d, back)
    BY <1>7
  <2> HIDE DEF D
  <2> QED
    BY <2>1, <2>2
<1>12. Within = Nat
  <2>1. Within \in SUBSET Nat
    OBVIOUS
  <2> HIDE DEF Within
  <2> QED
    BY <1>10, <1>11, <2>1, EveryNumber
<1>13. back[c] \in V
  <2>1. c \in Within /\ c <= c
    BY <1>12, ParentsBefore
  <2> HIDE DEF V
  <2> QED
    BY <2>1
<1>14. Parents(c) # << >> => RevList(from, Parents(c)[1]) = back[Parents(c)[1]]
  BY <1>1, <1>2
<1>15. RevList(from, c) = back[c]
  BY <1>1
<1> QED
  BY <1>7, <1>13, <1>14, <1>15
-----------------------------------------------------------------------------
\* A commit reaches whatever those it reaches do.
LEMMA ReachableTransitive ==
    ASSUME WellFormed(history), NEW d \in DOMAIN history, NEW c \in Reachable(d)
    PROVE  Reachable(c) \subseteq Reachable(d)
<1> DEFINE Holds(e) == \A b \in Reachable(e) : Reachable(b) \subseteq Reachable(e)
           Within == {n \in Nat : \A e \in DOMAIN history : e <= n => Holds(e)}
<1>1. 0 \in Within
  BY ParentsBefore
<1>2. ASSUME NEW n \in Within
      PROVE  n + 1 \in Within
  <2> SUFFICES ASSUME NEW e \in DOMAIN history, e <= n + 1,
                      NEW b \in Reachable(e)
               PROVE  Reachable(b) \subseteq Reachable(e)
    OBVIOUS
  <2>1. CASE b = e
    BY <2>1
  <2>2. CASE b # e
    <3>1. PICK p \in Range(Parents(e)) : b \in Reachable(p)
      BY <2>2, ReachableStep
    <3>2. p \in DOMAIN history /\ p <= n
      BY ParentsBefore
    <3>3. Reachable(b) \subseteq Reachable(p)
      BY <3>1, <3>2
    <3>4. Reachable(p) \subseteq Reachable(e)
      BY ReachableStep
    <3> QED
      BY <3>3, <3>4
  <2> QED
    BY <2>1, <2>2
<1>3. Within = Nat
  <2>1. Within \in SUBSET Nat
    OBVIOUS
  <2> HIDE DEF Within
  <2> QED
    BY <1>1, <1>2, <2>1, EveryNumber
<1> QED
  BY <1>3, ParentsBefore

\* Along first parents alone, rev-list gives all that `to` reaches and `from`
\* does not, and comes from there.
LEMMA WindowIsDifference ==
    ASSUME WellFormed(history), NEW from \in DOMAIN history,
           NEW to \in DOMAIN history,
           FirstParentWindow(from, RevList(from, to), to)
    PROVE  /\ from \in Reachable(to)
           /\ Range(RevList(from, to)) = Reachable(to) \ Reachable(from)
<1> DEFINE Linear(w) == \A k \in DOMAIN w :
               Parents(w[k]) = <<IF k = 1 THEN from ELSE w[k - 1]>>
           Holds(e) == LET w == RevList(from, e) IN
               Linear(w) => /\ w # << >> => from \in Reachable(e)
                            /\ Range(w) = Reachable(e) \ Reachable(from)
           Within == {n \in Nat : \A e \in DOMAIN history : e <= n => Holds(e)}
<1>1. 0 \in Within
  BY ParentsBefore
<1>2. ASSUME NEW n \in Within
      PROVE  n + 1 \in Within
  <2> SUFFICES ASSUME NEW e \in DOMAIN history, e <= n + 1,
                      Linear(RevList(from, e))
               PROVE  /\ RevList(from, e) # << >> => from \in Reachable(e)
                      /\ Range(RevList(from, e)) = Reachable(e) \ Reachable(from)
    OBVIOUS
  <2>1. CASE e \in Reachable(from)
    <3>1. RevList(from, e) = << >>
      BY <2>1, RevListStep
    <3>2. Reachable(e) \subseteq Reachable(from)
      BY <2>1, ReachableTransitive
    <3> QED
      BY <3>1, <3>2 DEF Range
  <2>2. CASE e \notin Reachable(from) /\ Parents(e) = << >>
    <3>1. RevList(from, e) = <<e>>
      BY <2>2, RevListStep
    <3>2. Parents(e) = <<from>>
      BY <3>1
    <3> QED
      BY <2>2, <3>2
  <2>3. CASE e \notin Reachable(from) /\ Parents(e) # << >>
    <3> DEFINE p == Parents(e)[1]
               v == RevList(from, p)
               w == RevList(from, e)
    <3>1. p \in DOMAIN history /\ p \in Range(Parents(e)) /\ p <= n
      <4>1. p \in Range(Parents(e))
        BY <2>3, ParentsBefore DEF Range
      <4> QED
        BY <4>1, ParentsBefore
    <3>2. v \in Seq(DOMAIN history) /\ w = Append(v, e)
      BY <2>3, <3>1, RevListStep
    <3>3. /\ Len(w) = Len(v) + 1 /\ w[Len(w)] = e
          /\ DOMAIN v = 1..Len(v) /\ DOMAIN w = 1..Len(w)
          /\ \A k \in DOMAIN v : w[k] = v[k]
      BY <3>2
    <3>4. Range(w) = Range(v) \cup {e}
      BY <3>2, RangeOfAppend
    <3>5. Parents(e) = <<IF Len(w) = 1 THEN from ELSE w[Len(w) - 1]>>
      <4>1. Len(w) \in DOMAIN w
        BY <3>2, <3>3
      <4>2. Linear(w)
        OBVIOUS
      <4> HIDE DEF w
      <4> QED
        BY <3>3, <4>1, <4>2
    <3>6. Range(Parents(e)) = {p}
      BY <3>5 DEF Range
    <3>7. Reachable(e) = {e} \cup Reachable(p)
      BY <3>6, ReachableStep
    <3>8. Linear(v)
      BY <3>3
    <3>9. /\ v # << >> => from \in Reachable(p)
          /\ Range(v) = Reachable(p) \ Reachable(from)
      BY <3>1, <3>8
    <3>10. v = << >> => p = from
      BY <3>3, <3>5
    <3>11. from \in Reachable(from)
      BY ReachableStep
    <3> QED
      BY <2>3, <3>4, <3>7, <3>9, <3>10, <3>11
  <2> QED
    BY <2>1, <2>2, <2>3
<1>3. Within = Nat
  <2>1. Within \in SUBSET Nat
    OBVIOUS
  <2> HIDE DEF Within
  <2> QED
    BY <1>1, <1>2, <2>1, EveryNumber
<1>4. Holds(to)
  BY <1>3, ParentsBefore
<1> QED
  BY <1>4 DEF FirstParentWindow
-----------------------------------------------------------------------------
(* The window. *)

\* Once there is a record, what extract checked of the window it was made of.
WindowIInv ==
    /\ WellFormed(history)
    /\ refs.base \in DOMAIN history /\ refs.tip \in DOMAIN history
    /\ pc \notin {"start"} \cup Ends =>
          base \in DOMAIN history /\ config \in Configs
    /\ pc \notin {"start", "resolve_tip"} \cup Ends => tip \in DOMAIN history
    /\ record # None =>
          /\ pc \in {"create", "write"} \cup Ends
          /\ base \in DOMAIN history /\ tip \in DOMAIN history
          /\ config \in Configs
          /\ FirstParentWindow(base, RevList(base, tip), tip)
          /\ record.window = RevList(base, tip)
          /\ record.sample_id = SampleId(base, RevList(base, tip), config)

LEMMA WindowInit == Init => WindowIInv
<1> SUFFICES ASSUME Init PROVE WindowIInv
  OBVIOUS
<1>1. WellFormed(history) /\ Len(history) = Commits
  BY HistoriesAreWellFormed DEF Init
<1>2. DOMAIN history = 1..Commits
  BY <1>1 DEF WellFormed
<1> QED
  BY <1>1, <1>2, ExtractAssumption DEF Init, Fresh, WindowIInv

LEMMA WindowStep ==
    ASSUME WindowIInv, [Next]_vars
    PROVE  WindowIInv'
<1> USE DEF repository, locals, Ends, End, Require
<1>0. ASSUME UNCHANGED <<history, base, tip, config, record>>
      PROVE  /\ WellFormed(history)'
             /\ record' # None =>
                  /\ base' \in DOMAIN history' /\ tip' \in DOMAIN history'
                  /\ config' \in Configs
                  /\ FirstParentWindow(base, RevList(base, tip), tip)'
                  /\ record'.window = RevList(base, tip)'
                  /\ record'.sample_id = SampleId(base, RevList(base, tip), config)'
  BY <1>0, HistoryStays DEF WindowIInv, FirstParentWindow
<1>1. WellFormed(history) /\ (history' = history => WellFormed(history)')
  BY DEF WindowIInv
<1>2. CASE ResolveBase
  BY <1>1, <1>2 DEF ResolveBase, WindowIInv
<1>3. CASE ResolveTip
  BY <1>1, <1>3 DEF ResolveTip, WindowIInv
<1>4. CASE ValidateAttributeIsolation
  BY <1>0, <1>4 DEF ValidateAttributeIsolation, WindowIInv
<1>5. CASE Observe
  <2>1. /\ pc' \in {"ineligible", "internal_error", "create"}
        /\ record' # None =>
              /\ pc' = "create"
              /\ FirstParentWindow(base, RevList(base, tip), tip)
              /\ record' = Record(base, tip, config, attributes)
        /\ UNCHANGED <<history, refs, base, tip, config>>
        /\ pc = "observe"
    BY <1>5 DEF Observe
  <2>2. /\ Record(base, tip, config, attributes).window = RevList(base, tip)
        /\ Record(base, tip, config, attributes).sample_id
             = SampleId(base, RevList(base, tip), config)
    BY DEF Record
  <2>3. RevList(base, tip)' = RevList(base, tip)
    BY <2>1, HistoryStays
  <2>4. FirstParentWindow(base, RevList(base, tip), tip)
          => FirstParentWindow(base, RevList(base, tip), tip)'
    BY <2>1, <2>3, HistoryStays DEF FirstParentWindow
  <2> QED
    BY <1>1, <2>1, <2>2, <2>3, <2>4 DEF WindowIInv
<1>6. CASE CreateOutput
  BY <1>0, <1>6 DEF CreateOutput, WindowIInv
<1>7. CASE WriteOutput
  BY <1>0, <1>7 DEF WriteOutput, WindowIInv
<1>8. CASE Fail
  BY <1>0, <1>8 DEF Fail, WindowIInv
<1>9. CASE User
  <2>1. /\ UNCHANGED <<history, base, tip, config, record, pc>>
        /\ refs'.base \in DOMAIN history' /\ refs'.tip \in DOMAIN history'
    <3>1. CASE UserMovesRef
      BY <1>9, <3>1 DEF User, UserMovesRef, WindowIInv
    <3>2. CASE UserChangesAttributes
      BY <1>9, <3>2 DEF User, UserChangesAttributes, WindowIInv
    <3>3. CASE UserCreatesOutput
      BY <1>9, <3>3 DEF User, UserCreatesOutput, WindowIInv
    <3> QED
      BY <1>9, <3>1, <3>2, <3>3 DEF User
  <2> QED
    BY <1>0, <2>1 DEF WindowIInv
<1>10. CASE UNCHANGED vars
  BY <1>0, <1>10 DEF vars, WindowIInv
<1> QED
  BY <1>2, <1>3, <1>4, <1>5, <1>6, <1>7, <1>8, <1>9, <1>10 DEF Next, Extractor

\* docs/predictive-dataset.md: a record is about everything that happened
\* between base and tip, wherever the revisions have gone meanwhile.
THEOREM RecordIsOfWholeWindow == Spec => []WindowIsWholeHistory
<1>1. WindowIInv => WindowIsWholeHistory
  BY WindowIsDifference DEF WindowIInv, WindowIsWholeHistory
<1> QED
  BY WindowInit, WindowStep, <1>1, PTL DEF Spec
-----------------------------------------------------------------------------
(* Sample ids. *)

\* What the buffer holds after each field.
LEMMA PushedFields ==
    ASSUME NEW s \in Seq(Seq(Nat))
    PROVE  \E f \in [0..Len(s) -> Seq(Nat)] :
              /\ f[0] = << >>
              /\ \A k \in 1..Len(s) : f[k] = PushField(f[k - 1], s[k])
              /\ FoldLeft(PushField, << >>, s) = f[Len(s)]
<1> DEFINE n == Len(s)
           V == Seq(Nat)
           Value(T, f) == IF T = {} THEN << >>
                          ELSE PushField(f[T \ {Max(T)}], s[Max(T)])
           iter == CHOOSE iter : iter = [T \in SUBSET DOMAIN s |-> Value(T, iter)]
           pick == [T \in SUBSET (1..n) |-> Max(T)]
           step == [kv \in (1..n) \X V |-> PushField(kv[2], s[kv[1]])]
<1>1. FoldLeft(PushField, << >>, s) = iter[DOMAIN s]
  BY Zenon DEF FoldLeft, MapThenFoldSet
<1>2. DOMAIN s = 1..n /\ n \in Nat
  OBVIOUS
<1>3. ASSUME NEW buffer \in V, NEW field \in V
      PROVE  PushField(buffer, field) \in V
  BY DEF PushField
<1>4. \A k \in 1..n, v \in V :
          step[<<k, v>>] = PushField(v, s[k]) /\ step[<<k, v>>] \in V
  BY <1>3
<1>5. step \in [(1..n) \X V -> V]
  BY <1>3
<1>6. << >> \in V
  OBVIOUS
<1> HIDE DEF step, V, n
<1>7. PICK g : FoldsBy(1..n, V, << >>, step, pick, g)
  <2>1. IsFiniteSet(1..n) /\ \A T \in SUBSET (1..n) : T # {} => pick[T] \in T
    <3>1. IsFiniteSet(1..n)
      BY <1>2, FS_Interval
    <3>2. \A T \in SUBSET (1..n) : T # {} => Max(T) \in T
      BY <1>2, MaxOfInterval
    <3> QED
      BY <3>1, <3>2
  <2>2. IsFold(1..n, V, << >>, step, pick)
    BY <1>5, <1>6, <2>1 DEF IsFold
  <2> QED
    BY <2>2, FoldExists
<1>8. /\ g \in [SUBSET (1..n) -> V]
      /\ \A T \in SUBSET (1..n) : g[T] = Value(T, g)
  <2>1. /\ g \in [SUBSET (1..n) -> V] /\ g[{}] = << >>
        /\ \A T \in SUBSET (1..n) : T # {} =>
              g[T] = step[<<Max(T), g[T \ {Max(T)}]>>]
    BY <1>7 DEF FoldsBy
  <2> SUFFICES ASSUME NEW T \in SUBSET (1..n), T # {}
               PROVE  g[T] = PushField(g[T \ {Max(T)}], s[Max(T)])
    BY <2>1
  <2>2. Max(T) \in 1..n /\ T \ {Max(T)} \in SUBSET (1..n)
    BY <1>2, MaxOfInterval
  <2> QED
    BY <1>4, <2>1, <2>2
<1>9. iter = [T \in SUBSET DOMAIN s |-> Value(T, iter)]
  <2>1. g = [T \in SUBSET DOMAIN s |-> Value(T, g)]
    <3> HIDE DEF Value
    <3> QED
      BY <1>2, <1>8
  <2> HIDE DEF Value
  <2> QED
    BY <2>1
<1> HIDE DEF iter
<1>10. \A T \in SUBSET (1..n) : iter[T] = Value(T, iter)
  <2> HIDE DEF Value
  <2> QED
    BY <1>2, <1>9
<1>11. iter[{}] = << >>
  BY <1>10
<1>12. \A k \in 1..n : iter[1..k] = PushField(iter[1..(k - 1)], s[k])
  <2> TAKE k \in 1..n
  <2>1. 1..k \in SUBSET (1..n)
    BY <1>2
  <2>2. Max(1..k) = k /\ (1..k) \ {k} = 1..(k - 1) /\ 1..k # {}
    BY <1>2, MaxOfRange
  <2> QED
    BY <1>10, <2>1, <2>2
<1> DEFINE f == [k \in 0..n |-> iter[1..k]]
<1>13. f[0] = << >>
  <2>1. 1..0 = {} /\ 0 \in 0..n
    BY <1>2
  <2> QED
    BY <1>11, <2>1
<1>14. \A k \in 1..n : f[k] = PushField(f[k - 1], s[k])
  <2>1. \A k \in 1..n : k \in 0..n /\ k - 1 \in 0..n
    BY <1>2
  <2> QED
    BY <1>12, <2>1
<1>15. f \in [0..n -> V]
  <2> DEFINE Typed == {k \in Nat : k <= n => f[k] \in V}
  <2>1. 0 \in Typed
    BY <1>6, <1>13
  <2>2. ASSUME NEW k \in Typed
        PROVE  k + 1 \in Typed
    <3> SUFFICES ASSUME k + 1 <= n PROVE f[k + 1] \in V
      OBVIOUS
    <3>1. k + 1 \in 1..n /\ k + 1 - 1 = k /\ k <= n
      BY <1>2
    <3>2. f[k] \in V /\ s[k + 1] \in V
      BY <1>2, <3>1 DEF V
    <3> HIDE DEF f
    <3> QED
      BY <1>3, <1>14, <3>1, <3>2
  <2>3. Typed = Nat
    <3>1. Typed \in SUBSET Nat
      OBVIOUS
    <3> HIDE DEF Typed
    <3> QED
      BY <2>1, <2>2, <3>1, EveryNumber
  <2>4. ASSUME NEW k \in 0..n
        PROVE  f[k] \in V
    <3>1. k \in Typed /\ k <= n
      <4> HIDE DEF Typed
      <4> QED
        BY <1>2, <2>3
    <3> HIDE DEF f
    <3> QED
      BY <3>1
  <2> QED
    BY <2>4
<1>16. FoldLeft(PushField, << >>, s) = f[n]
  BY <1>1, <1>2
<1> HIDE DEF f
<1> QED
  BY <1>13, <1>14, <1>15, <1>16 DEF n, V

\* What a sample id is made of.
Buffers == Seq(Nat)

\* f holds the buffer after each of the n fields of s.
Pushes(n, s, f) ==
    /\ n \in Nat
    /\ s \in [1..n -> Buffers]
    /\ f \in [0..n -> Buffers]
    /\ f[0] = << >>
    /\ \A k \in 1..n : f[k] = PushField(f[k - 1], s[k])

\* From offset `at`, `all` has a field preceded by its length.
HasField(all, at, field) ==
    /\ at \in Nat /\ Len(field) \in Nat
    /\ at + 1 + Len(field) <= Len(all)
    /\ all[at + 1] = Len(field)
    /\ \A i \in 1..Len(field) : all[at + 1 + i] = field[i]

Extends(all, buffer) ==
    Len(buffer) <= Len(all) /\ \A i \in 1..Len(buffer) : all[i] = buffer[i]

LEMMA PushedField ==
    ASSUME NEW buffer \in Buffers, NEW field \in Buffers
    PROVE  LET pushed == PushField(buffer, field) IN
           /\ Len(buffer) \in Nat
           /\ Len(pushed) = Len(buffer) + 1 + Len(field)
           /\ Extends(pushed, buffer)
           /\ HasField(pushed, Len(buffer), field)
<1> DEFINE headed == Append(buffer, Len(field))
           a == Len(buffer)
           b == Len(field)
           pushed == headed \o field
<1>1. a \in Nat /\ b \in Nat
  BY DEF Buffers
<1>2. /\ headed \in Seq(Nat)
      /\ Len(headed) = a + 1
      /\ headed[a + 1] = b
      /\ \A i \in 1..a : headed[i] = buffer[i]
  BY <1>1, AppendProperties DEF Buffers
<1>3. PushField(buffer, field) = pushed
  BY DEF PushField
<1> HIDE DEF headed
<1>4. /\ Len(pushed) = Len(headed) + b
      /\ \A i \in 1..(Len(headed) + b) : pushed[i] =
            IF i <= Len(headed) THEN headed[i] ELSE field[i - Len(headed)]
  BY <1>2, ConcatProperties DEF Buffers
<1> HIDE DEF pushed, a, b
<1>5. \A i \in 1..a : pushed[i] = headed[i]
  BY <1>1, <1>2, <1>4
<1>6. pushed[a + 1] = headed[a + 1]
  BY <1>1, <1>2, <1>4
<1>7. \A i \in 1..b : pushed[a + 1 + i] = field[i]
  BY <1>1, <1>2, <1>4
<1>8. /\ Len(pushed) = a + 1 + b
      /\ \A i \in 1..a : pushed[i] = buffer[i]
      /\ pushed[a + 1] = b
  BY <1>2, <1>4, <1>5, <1>6
<1>9. Extends(pushed, buffer) /\ HasField(pushed, a, field)
  BY <1>1, <1>7, <1>8 DEF a, b, Extends, HasField
<1> QED
  BY <1>1, <1>3, <1>8, <1>9 DEF a, b

\* What holds of a buffer holds of one that extends it.
LEMMA ExtendsTransitive ==
    ASSUME NEW a \in Buffers, NEW b \in Buffers, NEW c \in Buffers,
           Extends(b, a), Extends(c, b)
    PROVE  Extends(c, a)
<1>1. Len(a) \in Nat /\ Len(b) \in Nat /\ Len(c) \in Nat
  BY DEF Buffers
<1> QED
  BY <1>1 DEF Extends

LEMMA ExtendsHasField ==
    ASSUME NEW a \in Buffers, NEW b \in Buffers, NEW at, NEW field,
           Extends(b, a), HasField(a, at, field)
    PROVE  HasField(b, at, field)
<1> DEFINE m == Len(field)
<1>1. Len(a) \in Nat /\ Len(b) \in Nat /\ m \in Nat /\ at \in Nat
  BY DEF Buffers, HasField
<1>2. at + 1 + m <= Len(a) /\ Len(a) <= Len(b)
  BY DEF HasField, Extends
<1>3. at + 1 \in 1..Len(a) /\ \A i \in 1..m : at + 1 + i \in 1..Len(a)
  <2> HIDE DEF m
  <2> QED
    BY <1>1, <1>2
<1>4. b[at + 1] = a[at + 1] /\ \A i \in 1..m : b[at + 1 + i] = a[at + 1 + i]
  BY <1>3 DEF Extends
<1>5. at + 1 + m <= Len(b)
  BY <1>1, <1>2
<1> QED
  BY <1>1, <1>4, <1>5 DEF HasField

\* Two fields at one place are one.
LEMMA OneFieldAt ==
    ASSUME NEW all, NEW at, NEW u \in Buffers, NEW v \in Buffers,
           HasField(all, at, u), HasField(all, at, v)
    PROVE  u = v
<1>1. Len(u) = Len(v) /\ \A i \in 1..Len(u) : u[i] = v[i]
  BY DEF HasField
<1> QED
  BY <1>1, SeqEqual DEF Buffers

\* The buffer only grows.
LEMMA PushesGrow ==
    ASSUME NEW n, NEW s, NEW f, Pushes(n, s, f),
           NEW j \in 0..n, NEW k \in 0..j
    PROVE  Extends(f[j], f[k])
<1> DEFINE Holds == {m \in Nat : k <= m /\ m <= n => Extends(f[m], f[k])}
<1>0. /\ n \in Nat /\ k \in 0..n /\ j \in Nat /\ k <= j /\ j <= n
      /\ f[k] \in Buffers /\ Extends(f[k], f[k])
  <2>1. n \in Nat /\ k \in 0..n /\ j \in Nat /\ k <= j /\ j <= n
    BY DEF Pushes
  <2>2. f[k] \in Buffers
    BY <2>1 DEF Pushes
  <2>3. Len(f[k]) \in Nat
    BY <2>2 DEF Buffers
  <2> QED
    BY <2>1, <2>2, <2>3 DEF Extends
<1>1. 0 \in Holds
  BY <1>0
<1>2. ASSUME NEW m \in Holds
      PROVE  m + 1 \in Holds
  <2> SUFFICES ASSUME k <= m + 1, m + 1 <= n PROVE Extends(f[m + 1], f[k])
    BY <1>0
  <2>1. CASE k = m + 1
    BY <1>0, <2>1
  <2>2. CASE k <= m
    <3>1. m + 1 \in 1..n /\ m \in 0..n /\ m + 1 - 1 = m /\ m \in Nat
      BY <1>0, <2>2
    <3>2. /\ f[m] \in Buffers /\ s[m + 1] \in Buffers /\ f[m + 1] \in Buffers
          /\ f[m + 1] = PushField(f[m], s[m + 1])
      BY <3>1 DEF Pushes
    <3>3. Extends(f[m + 1], f[m])
      BY <3>2, PushedField
    <3>4. Extends(f[m], f[k])
      BY <2>2, <3>1
    <3> QED
      BY <1>0, <3>2, <3>3, <3>4, ExtendsTransitive
  <2> QED
    BY <1>0, <2>1, <2>2
<1>3. Holds = Nat
  <2>1. Holds \in SUBSET Nat
    OBVIOUS
  <2> HIDE DEF Holds
  <2> QED
    BY <1>1, <1>2, <2>1, EveryNumber
<1>4. j \in Holds
  <2> HIDE DEF Holds
  <2> QED
    BY <1>0, <1>3
<1> QED
  BY <1>0, <1>4

\* What follows the buffer after k fields is the next of them.
LEMMA NextField ==
    ASSUME NEW n, NEW s, NEW f, Pushes(n, s, f), NEW k \in Nat, k < n
    PROVE  /\ HasField(f[n], Len(f[k]), s[k + 1])
           /\ s[k + 1] \in Buffers
           /\ f[k + 1] = PushField(f[k], s[k + 1])
<1>1. /\ k + 1 \in 1..n /\ k \in 0..n /\ k + 1 - 1 = k
      /\ k + 1 \in 0..n /\ n \in 0..n
  BY DEF Pushes
<1>2. /\ f[k] \in Buffers /\ s[k + 1] \in Buffers
      /\ f[k + 1] \in Buffers /\ f[n] \in Buffers
      /\ f[k + 1] = PushField(f[k], s[k + 1])
  BY <1>1 DEF Pushes
<1>3. HasField(f[k + 1], Len(f[k]), s[k + 1])
  BY <1>2, PushedField
<1>4. Extends(f[n], f[k + 1])
  BY <1>1, PushesGrow
<1> QED
  BY <1>2, <1>3, <1>4, ExtendsHasField

LEMMA FieldsAgree ==
    ASSUME NEW m, NEW n, NEW s, NEW t, NEW f, NEW g,
           Pushes(m, s, f), Pushes(n, t, g), m <= n, f[m] = g[n]
    PROVE  m = n /\ s = t
<1> DEFINE Same(k) == f[k] = g[k] /\ \A j \in 1..k : s[j] = t[j]
           Holds == {k \in Nat : k <= m => Same(k)}
<1>0. m \in Nat /\ n \in Nat
  BY DEF Pushes
<1>1. 0 \in Holds
  BY DEF Pushes
<1>2. ASSUME NEW k \in Holds
      PROVE  k + 1 \in Holds
  <2> SUFFICES ASSUME k + 1 <= m PROVE Same(k + 1)
    BY <1>0
  <2>0. k \in Nat /\ k < m /\ k < n /\ Same(k) /\ k + 1 \in 1..m /\ k + 1 \in 1..n
    BY <1>0
  <2>1. /\ HasField(f[m], Len(f[k]), s[k + 1]) /\ s[k + 1] \in Buffers
        /\ f[k + 1] = PushField(f[k], s[k + 1])
    BY <2>0, NextField
  <2>2. /\ HasField(g[n], Len(g[k]), t[k + 1]) /\ t[k + 1] \in Buffers
        /\ g[k + 1] = PushField(g[k], t[k + 1])
    BY <2>0, NextField
  <2>3. s[k + 1] = t[k + 1]
    BY <2>0, <2>1, <2>2, OneFieldAt
  <2>6. \A j \in 1..(k + 1) : j = k + 1 \/ j \in 1..k
    BY <2>0
  <2> QED
    BY <2>0, <2>1, <2>2, <2>3, <2>6
<1>3. Holds = Nat
  <2>1. Holds \in SUBSET Nat
    OBVIOUS
  <2> HIDE DEF Holds
  <2> QED
    BY <1>1, <1>2, <2>1, EveryNumber
<1>4. Same(m)
  <2>1. m \in Holds
    BY <1>0, <1>3
  <2> QED
    BY <1>0, <2>1
<1>5. m = n
  <2> SUFFICES ASSUME m < n PROVE FALSE
    BY <1>0
  <2>1. HasField(g[n], Len(g[m]), t[m + 1])
    BY <1>0, NextField
  <2>2. Len(g[m]) \in Nat /\ Len(g[m]) < Len(g[n])
    <3>1. n \in 0..n /\ g[n] \in Buffers
      BY <1>0 DEF Pushes
    <3>2. Len(g[n]) \in Nat
      BY <3>1 DEF Buffers
    <3> DEFINE a == Len(g[m])
               b == Len(t[m + 1])
               c == Len(g[n])
    <3>3. a \in Nat /\ b \in Nat /\ a + 1 + b <= c
      BY <2>1 DEF HasField
    <3> HIDE DEF a, b
    <3>4. a < c
      BY <3>2, <3>3
    <3> QED
      BY <3>3, <3>4 DEF a
  <2> QED
    BY <1>4, <2>2
<1>6. s = t
  BY <1>4, <1>5 DEF Pushes
<1> QED
  BY <1>5, <1>6

\* push_field: the buffer tells the fields apart.
LEMMA FieldsAreRecovered ==
    ASSUME NEW s \in Seq(Buffers), NEW t \in Seq(Buffers),
           FoldLeft(PushField, << >>, s) = FoldLeft(PushField, << >>, t)
    PROVE  Len(s) = Len(t) /\ s = t
<1> DEFINE whole(q) == FoldLeft(PushField, << >>, q)
<1>1. ASSUME NEW q \in Seq(Buffers)
      PROVE  \E f : Pushes(Len(q), q, f) /\ whole(q) = f[Len(q)]
  <2>1. Len(q) \in Nat /\ q \in [1..Len(q) -> Buffers]
    BY LenProperties
  <2> QED
    BY <2>1, PushedFields DEF Pushes, Buffers
<1> HIDE DEF whole
<1>2. PICK f : Pushes(Len(s), s, f) /\ whole(s) = f[Len(s)]
  BY <1>1
<1>3. PICK g : Pushes(Len(t), t, g) /\ whole(t) = g[Len(t)]
  BY <1>1
<1>4. whole(s) = whole(t)
  BY DEF whole
<1>5. CASE Len(s) <= Len(t)
  BY <1>2, <1>3, <1>4, <1>5, FieldsAgree
<1>6. CASE Len(t) <= Len(s)
  BY <1>2, <1>3, <1>4, <1>6, FieldsAgree
<1>7. Len(s) \in Nat /\ Len(t) \in Nat
  BY LenProperties
<1> QED
  BY <1>5, <1>6, <1>7

LEMMA DecimalIsFaithful ==
    /\ \A n \in Nat : Decimal(n) \in Buffers
    /\ \A m, n \in Nat : Decimal(m) = Decimal(n) => m = n
<1>1. ASSUME NEW n \in Nat
      PROVE  Decimal(n) \in Buffers
  BY DEF Decimal, Buffers
<1>2. ASSUME NEW m \in Nat, NEW n \in Nat, Decimal(m) = Decimal(n)
      PROVE  m = n
  <2>1. /\ Len(Decimal(m)) = IF m < 10 THEN 1 ELSE 2
        /\ Decimal(m)[1] = IF m < 10 THEN m ELSE m \div 10
        /\ m >= 10 => Decimal(m)[2] = m % 10
    BY DEF Decimal
  <2>2. /\ Len(Decimal(n)) = IF n < 10 THEN 1 ELSE 2
        /\ Decimal(n)[1] = IF n < 10 THEN n ELSE n \div 10
        /\ n >= 10 => Decimal(n)[2] = n % 10
    BY DEF Decimal
  <2>3. m < 10 <=> n < 10
    BY <1>2, <2>1, <2>2
  <2>4. CASE m < 10
    BY <1>2, <2>1, <2>2, <2>3, <2>4
  <2>5. CASE m >= 10
    <3>1. m \div 10 = n \div 10 /\ m % 10 = n % 10
      BY <1>2, <2>1, <2>2, <2>3, <2>5
    <3> QED
      BY <3>1
  <2> QED
    BY <2>4, <2>5
<1> QED
  BY <1>1, <1>2

\* The bounds of an extraction.
Bounded == [min_commits : Nat, max_commits : Nat, max_paths : Nat,
            max_record_bytes : Nat]

\* The fields of a sample id, in the order of sample_id.
Fields(from, window, c) ==
    <<Decimal(from)>> \o [k \in DOMAIN window |-> Decimal(window[k])]
        \o <<Decimal(c.min_commits), Decimal(c.max_commits),
             Decimal(c.max_paths), Decimal(c.max_record_bytes)>>

LEMMA FieldsOfSample ==
    ASSUME NEW from \in Nat, NEW window \in Seq(Nat),
           NEW c \in Bounded
    PROVE  LET fields == Fields(from, window, c)
               n == Len(window)
           IN /\ fields \in Seq(Buffers)
              /\ n \in Nat /\ DOMAIN window = 1..n
              /\ Len(fields) = n + 5
              /\ fields[1] = Decimal(from)
              /\ \A k \in 1..n : fields[1 + k] = Decimal(window[k])
              /\ fields[n + 2] = Decimal(c.min_commits)
              /\ fields[n + 3] = Decimal(c.max_commits)
              /\ fields[n + 4] = Decimal(c.max_paths)
              /\ fields[n + 5] = Decimal(c.max_record_bytes)
<1> DEFINE n == Len(window)
           w == [k \in DOMAIN window |-> Decimal(window[k])]
           head == <<Decimal(from)>>
           front == head \o w
           bounds == <<Decimal(c.min_commits), Decimal(c.max_commits),
                       Decimal(c.max_paths), Decimal(c.max_record_bytes)>>
<1>1. n \in Nat /\ DOMAIN window = 1..n /\ \A k \in 1..n : window[k] \in Nat
  OBVIOUS
<1>2. w \in Seq(Buffers) /\ Len(w) = n /\ \A k \in 1..n : w[k] = Decimal(window[k])
  BY <1>1, DecimalIsFaithful
<1>3. head \in Seq(Buffers) /\ Len(head) = 1 /\ head[1] = Decimal(from)
  BY DecimalIsFaithful
<1>4. /\ bounds \in Seq(Buffers) /\ Len(bounds) = 4
      /\ bounds[1] = Decimal(c.min_commits)
      /\ bounds[2] = Decimal(c.max_commits)
      /\ bounds[3] = Decimal(c.max_paths)
      /\ bounds[4] = Decimal(c.max_record_bytes)
  BY DecimalIsFaithful DEF Bounded
<1>5. Fields(from, window, c) = front \o bounds
  BY DEF Fields
<1> HIDE DEF w, head, bounds, n
<1>6. /\ front \in Seq(Buffers) /\ Len(front) = n + 1
      /\ \A k \in 1..(n + 1) : front[k] = IF k <= 1 THEN head[k] ELSE w[k - 1]
  <2>1. /\ front \in Seq(Buffers) /\ Len(front) = Len(head) + Len(w)
        /\ \A k \in 1..(Len(head) + Len(w)) : front[k] =
              IF k <= Len(head) THEN head[k] ELSE w[k - Len(head)]
    BY <1>2, <1>3, ConcatProperties
  <2> HIDE DEF front
  <2>2. Len(head) = 1 /\ Len(w) = n /\ Len(head) + Len(w) = n + 1
    BY <1>1, <1>2, <1>3
  <2> QED
    BY <2>1, <2>2
<1>7. front[1] = head[1] /\ \A k \in 1..n : front[1 + k] = w[k]
  <2> HIDE DEF front
  <2>1. 1 \in 1..(n + 1) /\ \A k \in 1..n : 1 + k \in 1..(n + 1) /\ (1 + k) - 1 = k /\ ~ 1 + k <= 1
    BY <1>1
  <2> QED
    BY <1>6, <2>1
<1> HIDE DEF front
<1> DEFINE fields == front \o bounds
<1>8. /\ fields \in Seq(Buffers) /\ Len(fields) = n + 5
      /\ \A k \in 1..(n + 5) : fields[k] =
            IF k <= n + 1 THEN front[k] ELSE bounds[k - (n + 1)]
  <2>1. /\ fields \in Seq(Buffers) /\ Len(fields) = Len(front) + Len(bounds)
        /\ \A k \in 1..(Len(front) + Len(bounds)) : fields[k] =
              IF k <= Len(front) THEN front[k] ELSE bounds[k - Len(front)]
    BY <1>4, <1>6, ConcatProperties
  <2> HIDE DEF fields
  <2>2. /\ Len(front) = n + 1 /\ Len(bounds) = 4
        /\ Len(front) + Len(bounds) = n + 5
    BY <1>1, <1>4, <1>6
  <2> QED
    BY <2>1, <2>2
<1> HIDE DEF fields
<1>9. /\ fields[1] = front[1]
      /\ \A k \in 1..n : fields[1 + k] = front[1 + k]
      /\ fields[n + 2] = bounds[1]
      /\ fields[n + 3] = bounds[2]
      /\ fields[n + 4] = bounds[3]
      /\ fields[n + 5] = bounds[4]
  BY <1>1, <1>8
<1>10. Fields(from, window, c) = fields
  BY <1>5 DEF fields
<1> QED
  BY <1>1, <1>2, <1>3, <1>4, <1>7, <1>8, <1>9, <1>10 DEF n

\* sample_id: what a sample id is made of tells the base, the commits of the
\* window and the bounds.
LEMMA SampleIsRecovered ==
    ASSUME NEW from \in Nat, NEW window \in Seq(Nat),
           NEW c \in Bounded,
           NEW b \in Nat, NEW w \in Seq(Nat),
           NEW d \in Bounded,
           SampleId(from, window, c) = SampleId(b, w, d)
    PROVE  from = b /\ window = w /\ c = d
<1> DEFINE s == Fields(from, window, c)
           t == Fields(b, w, d)
           n == Len(window)
<1>1. /\ s \in Seq(Buffers)
      /\ n \in Nat /\ DOMAIN window = 1..n
      /\ Len(s) = n + 5
      /\ s[1] = Decimal(from)
      /\ \A k \in 1..n : s[1 + k] = Decimal(window[k])
      /\ s[n + 2] = Decimal(c.min_commits)
      /\ s[n + 3] = Decimal(c.max_commits)
      /\ s[n + 4] = Decimal(c.max_paths)
      /\ s[n + 5] = Decimal(c.max_record_bytes)
  BY FieldsOfSample
<1>2. /\ t \in Seq(Buffers)
      /\ Len(w) \in Nat /\ DOMAIN w = 1..Len(w)
      /\ Len(t) = Len(w) + 5
      /\ t[1] = Decimal(b)
      /\ \A k \in 1..Len(w) : t[1 + k] = Decimal(w[k])
      /\ t[Len(w) + 2] = Decimal(d.min_commits)
      /\ t[Len(w) + 3] = Decimal(d.max_commits)
      /\ t[Len(w) + 4] = Decimal(d.max_paths)
      /\ t[Len(w) + 5] = Decimal(d.max_record_bytes)
  BY FieldsOfSample
<1>3. FoldLeft(PushField, << >>, s) = FoldLeft(PushField, << >>, t)
  BY Zenon DEF SampleId, Fields
<1> HIDE DEF s, t
<1>4. s = t /\ n = Len(w)
  <2>1. Len(s) = Len(t) /\ s = t
    BY <1>1, <1>2, <1>3, FieldsAreRecovered
  <2> QED
    <3>1. n \in Nat /\ Len(s) = n + 5
      BY <1>1
    <3>2. Len(w) \in Nat /\ Len(t) = Len(w) + 5
      BY <1>2
    <3> HIDE DEF n
    <3> QED
      BY <2>1, <3>1, <3>2
<1>5. from = b
  BY <1>1, <1>2, <1>4, DecimalIsFaithful
<1>6. \A k \in 1..n : window[k] = w[k]
  <2> TAKE k \in 1..n
  <2>1. window[k] \in Nat /\ w[k] \in Nat
    BY <1>4, ElementOfSeq
  <2>2. Decimal(window[k]) = Decimal(w[k])
    BY <1>1, <1>2, <1>4
  <2> QED
    BY <2>1, <2>2, DecimalIsFaithful
<1>7. window = w
  BY <1>4, <1>6, SeqEqual
<1>8. /\ Decimal(c.min_commits) = Decimal(d.min_commits)
      /\ Decimal(c.max_commits) = Decimal(d.max_commits)
      /\ Decimal(c.max_paths) = Decimal(d.max_paths)
      /\ Decimal(c.max_record_bytes) = Decimal(d.max_record_bytes)
  BY <1>1, <1>2, <1>4
<1>9. /\ c.min_commits = d.min_commits
      /\ c.max_commits = d.max_commits
      /\ c.max_paths = d.max_paths
      /\ c.max_record_bytes = d.max_record_bytes
  BY <1>8, DecimalIsFaithful DEF Bounded
<1> QED
  BY <1>5, <1>7, <1>9 DEF Bounded

\* The sample id stands for the sample: no other window that extract accepts,
\* nor the same under other bounds, has it.
THEOREM SampleIdsAreUnique == Spec => []SampleIdsDiffer
<1>1. ASSUME WindowIInv
      PROVE  SampleIdsDiffer
  <2> SUFFICES ASSUME record # None,
                      NEW from \in DOMAIN history, NEW to \in DOMAIN history,
                      NEW c \in Configs,
                      FirstParentWindow(from, RevList(from, to), to),
                      SampleId(from, RevList(from, to), c) = record.sample_id
               PROVE  from = base /\ to = tip /\ c = config
    BY DEF SampleIdsDiffer
  <2> DEFINE w == RevList(from, to)
             v == RevList(base, tip)
  <2>1. /\ WellFormed(history) /\ base \in DOMAIN history
        /\ tip \in DOMAIN history /\ config \in Configs
        /\ FirstParentWindow(base, v, tip)
        /\ SampleId(from, w, c) = SampleId(base, v, config)
    BY <1>1 DEF WindowIInv
  <2>2. DOMAIN history \subseteq Nat
    BY <2>1, ParentsBefore
  <2>3. w \in Seq(Nat) /\ v \in Seq(Nat)
    <3>1. w \in Seq(DOMAIN history) /\ v \in Seq(DOMAIN history)
      BY <2>1, RevListStep
    <3> HIDE DEF w, v
    <3> QED
      BY <2>2, <3>1
  <2>4. /\ c \in Bounded
        /\ config \in Bounded
    BY <2>1, ExtractAssumption DEF Bounded
  <2>5. from \in Nat /\ base \in Nat
    BY <2>1, <2>2
  <2> HIDE DEF w, v
  <2>6. from = base /\ w = v /\ c = config
    BY <2>1, <2>3, <2>4, <2>5, SampleIsRecovered
  <2>7. to = Last(w) /\ tip = Last(v)
    BY <2>1 DEF FirstParentWindow, w, v
  <2> QED
    BY <2>6, <2>7
<1> QED
  BY WindowInit, WindowStep, <1>1, PTL DEF Spec
-----------------------------------------------------------------------------
(* Sets of numbers in order. *)

\* path_ids: a path's place in the order of the paths is a number of its own,
\* and the order of the numbers is that of the paths.
LEMMA PathIdIs ==
    ASSUME NEW S \in SUBSET Nat, IsFiniteSet(S)
    PROVE  /\ Cardinality(S) \in Nat
           /\ \A n \in S : PathId(S, n) \in 1..Cardinality(S)
           /\ \A m, n \in S : m < n => PathId(S, m) < PathId(S, n)
           /\ \A m, n \in S : PathId(S, m) = PathId(S, n) => m = n
           /\ \A i \in 1..Cardinality(S) : \E n \in S : PathId(S, n) = i
<1> DEFINE Upto(n) == {m \in S : m <= n}
           c == Cardinality(S)
<1>1. c \in Nat /\ \A n \in S : IsFiniteSet(Upto(n)) /\ Cardinality(Upto(n)) \in Nat
  BY FS_CardinalityType, FS_Subset
<1>2. \A n : PathId(S, n) = Cardinality(Upto(n))
  BY DEF PathId
<1>3. ASSUME NEW n \in S
      PROVE  PathId(S, n) \in 1..c
  <2>1. Cardinality(Upto(n)) <= c
    BY FS_Subset
  <2>2. n \in Upto(n)
    OBVIOUS
  <2>3. Cardinality(Upto(n)) # 0
    BY <1>1, <2>2, FS_EmptySet
  <2> HIDE DEF Upto, c
  <2> QED
    BY <1>1, <1>2, <2>1, <2>3
<1>4. ASSUME NEW m \in S, NEW n \in S, m < n
      PROVE  PathId(S, m) < PathId(S, n)
  <2>1. Upto(m) \subseteq Upto(n) /\ n \in Upto(n) /\ n \notin Upto(m)
    <3>1. /\ m \in Nat /\ n \in Nat /\ ~ n <= m /\ n <= n
          /\ \A k \in S : k <= m => k <= n
      BY <1>4
    <3> QED
      BY <3>1
  <2>2. /\ Cardinality(Upto(m)) <= Cardinality(Upto(n))
        /\ Cardinality(Upto(n)) # Cardinality(Upto(m))
    BY <1>1, <2>1, FS_Subset
  <2> HIDE DEF Upto
  <2> QED
    BY <1>1, <1>2, <2>2
<1>5. ASSUME NEW m \in S, NEW n \in S, PathId(S, m) = PathId(S, n)
      PROVE  m = n
  <2>1. PathId(S, m) \in Nat /\ m \in Nat /\ n \in Nat
    BY <1>3
  <2>2. ~ m < n /\ ~ n < m
    BY <1>4, <1>5, <2>1
  <2> QED
    BY <2>1, <2>2
<1>6. ASSUME NEW i \in 1..c
      PROVE  \E n \in S : PathId(S, n) = i
  <2> DEFINE f == [n \in S |-> PathId(S, n)]
  <2>1. f \in Injection(S, 1..c)
    BY <1>3, <1>5 DEF Injection, IsInjective
  <2>2. IsFiniteSet(1..c) /\ Cardinality(1..c) = c
    BY <1>1, FS_Interval
  <2>3. f \in Surjection(S, 1..c)
    BY <2>1, <2>2, FS_Injection
  <2> QED
    BY <2>3 DEF Surjection
<1> QED
  BY <1>1, <1>3, <1>4, <1>5, <1>6 DEF c

\* A BTreeSet is iterated over from its least element to its greatest.
LEMMA AscendingIs ==
    ASSUME NEW S \in SUBSET Nat, IsFiniteSet(S)
    PROVE  LET a == Ascending(S) IN
           /\ a \in Seq(S) /\ Len(a) = Cardinality(S) /\ Len(a) \in Nat
           /\ DOMAIN a = 1..Cardinality(S)
           /\ Range(a) = S
           /\ \A i, j \in DOMAIN a : i < j => a[i] < a[j]
           /\ IsInjective(a)
           /\ \A i \in DOMAIN a : PathId(S, a[i]) = i
           /\ \A n \in S : PathId(S, n) \in DOMAIN a /\ a[PathId(S, n)] = n
           /\ S # {} => 1 \in DOMAIN a /\ a[1] = Min(S)
<1> DEFINE a == Ascending(S)
           c == Cardinality(S)
<1>1. a = [i \in 1..c |-> CHOOSE n \in S : PathId(S, n) = i]
  BY DEF Ascending, PathId
<1>2. /\ c \in Nat
      /\ \A n \in S : PathId(S, n) \in 1..c
      /\ \A m, n \in S : m < n => PathId(S, m) < PathId(S, n)
      /\ \A m, n \in S : PathId(S, m) = PathId(S, n) => m = n
      /\ \A i \in 1..c : \E n \in S : PathId(S, n) = i
  BY PathIdIs
<1>3. DOMAIN a = 1..c
  BY <1>1
<1>4. ASSUME NEW i \in 1..c
      PROVE  a[i] \in S /\ PathId(S, a[i]) = i
  BY <1>1, <1>2
<1> HIDE DEF a, c
<1>5. a \in Seq(S) /\ Len(a) = c
  <2>1. a \in [1..c -> S]
    <3>1. a = [i \in 1..c |-> a[i]]
      BY <1>1
    <3> QED
      BY <1>4, <3>1
  <2> QED
    BY <1>2, <2>1, SeqDef, LenProperties
<1>6. ASSUME NEW n \in S
      PROVE  PathId(S, n) \in DOMAIN a /\ a[PathId(S, n)] = n
  <2>1. PathId(S, n) \in 1..c
    BY <1>2
  <2>2. a[PathId(S, n)] \in S /\ PathId(S, a[PathId(S, n)]) = PathId(S, n)
    BY <1>4, <2>1
  <2> QED
    BY <1>2, <1>3, <2>1, <2>2
<1>7. Range(a) = S
  BY <1>3, <1>4, <1>6 DEF Range
<1>8. ASSUME NEW i \in DOMAIN a, NEW j \in DOMAIN a, i < j
      PROVE  a[i] < a[j]
  <2> DEFINE x == a[i]
             y == a[j]
  <2>1. x \in S /\ y \in S /\ PathId(S, x) = i /\ PathId(S, y) = j
    BY <1>3, <1>4
  <2> HIDE DEF x, y
  <2>2. y < x => PathId(S, y) < PathId(S, x)
    BY <1>2, <2>1
  <2>3. PathId(S, x) < PathId(S, y)
    BY <1>8, <2>1
  <2>4. PathId(S, x) \in Nat /\ PathId(S, y) \in Nat /\ x \in Nat /\ y \in Nat
    <3>1. PathId(S, x) \in 1..c /\ PathId(S, y) \in 1..c
      BY <1>2, <2>1
    <3> QED
      BY <1>2, <2>1, <3>1
  <2>5. x < y
    BY <2>2, <2>3, <2>4
  <2> QED
    BY <2>5 DEF x, y
<1>9. IsInjective(a)
  BY <1>3, <1>4 DEF IsInjective
<1>10. ASSUME S # {}
       PROVE  1 \in DOMAIN a /\ a[1] = Min(S)
  <2>1. Min(S) \in S /\ \A n \in S : Min(S) <= n
    BY <1>10, MinIs
  <2>2. PathId(S, Min(S)) \in 1..c
    BY <1>2, <2>1
  <2>3. 1 \in 1..c
    BY <1>2, <2>2
  <2> DEFINE x == a[1]
             least == Min(S)
  <2>4. x \in S /\ PathId(S, x) = 1
    BY <1>4, <2>3
  <2> HIDE DEF x, least
  <2>5. least \in Nat /\ x \in Nat /\ least <= x /\ least \in S
    BY <2>1, <2>4 DEF least
  <2>6. least < x => PathId(S, least) < PathId(S, x)
    BY <1>2, <2>4, <2>5
  <2>7. PathId(S, least) \in 1..c
    BY <1>2, <2>5
  <2>8. least = x
    BY <1>2, <2>4, <2>5, <2>6, <2>7
  <2> QED
    BY <1>3, <2>3, <2>8 DEF x, least
<1> QED
  BY <1>2, <1>3, <1>4, <1>5, <1>6, <1>7, <1>8, <1>9, <1>10 DEF a, c

-----------------------------------------------------------------------------
(* The union-find of build_groups. *)

\* Nodes 1 to n, each below its parent or its own parent.
IsForest(f, n) ==
    /\ n \in Nat
    /\ f \in [1..n -> 1..n]
    /\ \A k \in 1..n : f[k] <= k

\* What holds of a node whenever it holds of the nodes before it, holds of
\* every node.
LEMMA EveryNode ==
    ASSUME NEW n \in Nat, NEW Good \in SUBSET (1..n),
           \A k \in 1..n : (\A j \in 1..n : j < k => j \in Good) => k \in Good
    PROVE  Good = 1..n
<1> DEFINE Bad == {k \in 1..n : k \notin Good}
<1> SUFFICES ASSUME Bad # {} PROVE FALSE
  OBVIOUS
<1>1. PICK k \in Bad : \A j \in Bad : k <= j
  <2>1. Bad \in SUBSET Nat
    OBVIOUS
  <2> HIDE DEF Bad
  <2> QED
    BY <2>1, LeastNumber
<1>2. \A j \in 1..n : j < k => j \in Good
  BY <1>1
<1> QED
  BY <1>1, <1>2

\* A function given at a root, and elsewhere by its value at the parent.
ClimbsBy(f, n, top, next, g) ==
    \A k \in 1..n :
        g[k] = IF f[k] = k THEN top[k] ELSE next[<<k, g[f[k]]>>]

\* What is given at a root and by the parent elsewhere is given everywhere: there
\* is a function that climbs so, and its values are those of its steps.
LEMMA ForestRecursion ==
    ASSUME NEW n, NEW f, IsForest(f, n), NEW V, V # {},
           NEW top \in [1..n -> V], NEW next \in [(1..n) \X V -> V]
    PROVE  \E g \in [1..n -> V] : ClimbsBy(f, n, top, next, g)
<1> DEFINE D == 1..n
           Value(k, g) == IF f[k] = k THEN top[k] ELSE next[<<k, g[f[k]]>>]
           step == [kg \in D \X [D -> V] |-> Value(kg[1], kg[2])]
           rank == [k \in D |-> k]
<1>1. n \in Nat /\ \A k \in D : f[k] \in D /\ f[k] <= k
  BY DEF IsForest
<1>2. rank \in [D -> 0..n]
  BY <1>1
<1>3. \A k \in D, g \in [D -> V] : Value(k, g) \in V
  BY <1>1
<1>4. step \in [D \X [D -> V] -> V]
  <2> HIDE DEF Value, D
  <2> QED
    BY <1>3
<1>5. ASSUME NEW k \in D, NEW g \in [D -> V], NEW h \in [D -> V],
             \A e \in D : rank[e] < rank[k] => g[e] = h[e]
      PROVE  step[<<k, g>>] = step[<<k, h>>]
  <2>1. f[k] # k => g[f[k]] = h[f[k]]
    BY <1>1, <1>5
  <2>2. Value(k, g) = Value(k, h)
    BY <2>1
  <2> HIDE DEF Value
  <2> QED
    BY <2>2
<1>6. IsRecursion(D, V, n, rank, step)
  <2> HIDE DEF rank, step, D
  <2> QED
    BY <1>1, <1>2, <1>4, <1>5 DEF IsRecursion
<1>7. PICK g \in [D -> V] : \A k \in D : g[k] = step[<<k, g>>]
  <2> HIDE DEF rank, step, D
  <2> QED
    BY <1>6, RecursionExists
<1>8. \A k \in D : g[k] = Value(k, g)
  <2> HIDE DEF Value, D
  <2> QED
    BY <1>7
<1> QED
  BY <1>7, <1>8 DEF ClimbsBy

\* A root is its own root, and any other node has its parent's.
LEMMA RootEquation ==
    ASSUME NEW n, NEW f, IsForest(f, n)
    PROVE  /\ RootOf(f) = [k \in 1..n |-> RootOf(f)[k]]
           /\ \A k \in 1..n :
                 RootOf(f)[k] = IF f[k] = k THEN k ELSE RootOf(f)[f[k]]
<1> DEFINE D == DOMAIN f
           Value(k, g) == IF f[k] = k THEN k ELSE g[f[k]]
           root == CHOOSE root : root = [k \in D |-> Value(k, root)]
<1>1. RootOf(f) = root
  BY Zenon DEF RootOf
<1>2. D = 1..n /\ n \in Nat
  BY DEF IsForest
<1>3. PICK g \in [1..n -> Nat] : \A k \in 1..n : g[k] = Value(k, g)
  <2> DEFINE V == Nat
             top == [k \in 1..n |-> k]
             next == [kv \in (1..n) \X V |-> kv[2]]
             Up(k, g) == IF f[k] = k THEN top[k] ELSE next[<<k, g[f[k]]>>]
  <2>1. top \in [1..n -> V] /\ next \in [(1..n) \X V -> V] /\ V # {}
    OBVIOUS
  <2>2. PICK g \in [1..n -> V] : ClimbsBy(f, n, top, next, g)
    <3> HIDE DEF top, next, V
    <3> QED
      BY <2>1, ForestRecursion
  <2>3. \A k \in 1..n : g[k] = Up(k, g)
    <3> HIDE DEF top, next, V
    <3> QED
      BY <2>2 DEF ClimbsBy
  <2>4. \A k \in 1..n : f[k] \in 1..n
    BY DEF IsForest
  <2>5. \A k \in 1..n : Up(k, g) = Value(k, g)
    BY <2>2, <2>4
  <2>6. \A k \in 1..n : g[k] = Value(k, g)
    <3> HIDE DEF Value, Up
    <3> QED
      BY <2>3, <2>5
  <2> QED
    <3> HIDE DEF Value
    <3> QED
      BY <2>2, <2>6
<1>4. g = [k \in D |-> Value(k, g)]
  <2> HIDE DEF Value
  <2> QED
    BY <1>2, <1>3
<1>5. root = [k \in D |-> Value(k, root)]
  <2> HIDE DEF Value, D
  <2> QED
    BY <1>4
<1> HIDE DEF root
<1>6. \A k \in D : root[k] = Value(k, root)
  <2> HIDE DEF Value, D
  <2> QED
    BY <1>5
<1>7. root = [k \in D |-> root[k]]
  <2> HIDE DEF Value, D
  <2> QED
    BY <1>5
<1> QED
  BY <1>1, <1>2, <1>6, <1>7

\* A node's root is one of the nodes before it, or the node itself; it is a
\* root, and that of its parent.
LEMMA RootFacts ==
    ASSUME NEW n, NEW f, IsForest(f, n), NEW k \in 1..n
    PROVE  LET r == RootOf(f) IN
           /\ r[k] \in 1..n /\ r[k] <= k
           /\ f[r[k]] = r[k] /\ r[r[k]] = r[k]
           /\ r[f[k]] = r[k]
           /\ f[k] = k <=> r[k] = k
<1> DEFINE r == RootOf(f)
<1>1. n \in Nat /\ \A j \in 1..n : f[j] \in 1..n /\ f[j] <= j
  BY DEF IsForest
<1>2. \A j \in 1..n : r[j] = IF f[j] = j THEN j ELSE r[f[j]]
  BY RootEquation
<1> HIDE DEF r
<1> DEFINE Good == {j \in 1..n : r[j] \in 1..n /\ r[j] <= j /\ f[r[j]] = r[j]}
<1>3. ASSUME NEW j \in 1..n, \A i \in 1..n : i < j => i \in Good
      PROVE  j \in Good
  <2>1. CASE f[j] = j
    BY <1>2, <2>1
  <2>2. CASE f[j] # j
    <3>1. f[j] \in 1..n /\ f[j] < j
      BY <1>1, <2>2
    <3>2. f[j] \in Good
      BY <1>3, <3>1
    <3>3. r[j] = r[f[j]]
      BY <1>2, <2>2
    <3> QED
      BY <1>1, <3>1, <3>2, <3>3
  <2> QED
    BY <2>1, <2>2
<1>4. Good = 1..n
  <2>1. Good \in SUBSET (1..n)
    OBVIOUS
  <2> HIDE DEF Good
  <2> QED
    BY <1>1, <1>3, <2>1, EveryNode
<1>5. r[k] \in 1..n /\ r[k] <= k /\ f[r[k]] = r[k]
  BY <1>4
<1>6. r[r[k]] = r[k]
  BY <1>2, <1>5
<1>7. r[f[k]] = r[k]
  BY <1>2
<1>8. f[k] = k <=> r[k] = k
  BY <1>2, <1>5
<1> QED
  BY <1>5, <1>6, <1>7, <1>8 DEF r

\* Pointing nodes at their roots changes no root.
LEMMA ShortcutsKeepRoots ==
    ASSUME NEW n, NEW f, IsForest(f, n), NEW g, IsForest(g, n),
           \A k \in 1..n : g[k] \in {f[k], RootOf(f)[k]}
    PROVE  RootOf(g) = RootOf(f)
<1> DEFINE r == RootOf(f)
           q == RootOf(g)
<1>1. n \in Nat /\ \A j \in 1..n : g[j] \in 1..n /\ g[j] <= j
  BY DEF IsForest
<1>2. \A j \in 1..n : q[j] = IF g[j] = j THEN j ELSE q[g[j]]
  BY RootEquation
<1>3. \A j \in 1..n : /\ r[j] \in 1..n /\ r[r[j]] = r[j] /\ r[f[j]] = r[j]
                      /\ f[j] = j <=> r[j] = j
  BY RootFacts
<1>4. q = [j \in 1..n |-> q[j]] /\ r = [j \in 1..n |-> r[j]]
  BY RootEquation
<1>5. \A j \in 1..n : g[j] \in {f[j], r[j]}
  OBVIOUS
<1>6. \A j \in 1..n : r[g[j]] = r[j] /\ (g[j] = j => r[j] = j)
  BY <1>3, <1>5
<1> DEFINE Good == {j \in 1..n : q[j] = r[j]}
<1> HIDE DEF q, r
<1>7. ASSUME NEW j \in 1..n, \A i \in 1..n : i < j => i \in Good
      PROVE  j \in Good
  <2>1. CASE g[j] = j
    BY <1>2, <1>6, <2>1
  <2>2. CASE g[j] # j
    <3>1. g[j] \in 1..n /\ g[j] < j
      BY <1>1, <2>2
    <3>2. q[g[j]] = r[g[j]]
      BY <1>7, <3>1
    <3> QED
      BY <1>2, <1>6, <2>2, <3>2
  <2> QED
    BY <2>1, <2>2
<1>8. Good = 1..n
  <2>1. Good \in SUBSET (1..n)
    OBVIOUS
  <2> HIDE DEF Good
  <2> QED
    BY <1>1, <1>7, <2>1, EveryNode
<1>9. \A j \in 1..n : q[j] = r[j]
  BY <1>8
<1> QED
  BY <1>4, <1>9 DEF q, r

\* The way up from a node: the nodes on it have the node's root.
LeadsUp(f, n, w) ==
    \A k \in 1..n : w[k] = IF f[k] = k THEN {k} ELSE {k} \cup w[f[k]]

\* The nodes that Compressed collects from a node lead up to its root.
LEMMA WayUp ==
    ASSUME NEW n, NEW f, IsForest(f, n), NEW w, LeadsUp(f, n, w),
           NEW k \in 1..n
    PROVE  k \in w[k] /\ \A m \in w[k] : m \in 1..n /\ RootOf(f)[m] = RootOf(f)[k]
<1> DEFINE Value(j) == IF f[j] = j THEN {j} ELSE {j} \cup w[f[j]]
           Good == {j \in 1..n : \A m \in w[j] : m \in 1..n /\ RootOf(f)[m] = RootOf(f)[j]}
<1>1. /\ n \in Nat /\ DOMAIN f = 1..n
      /\ \A j \in 1..n : f[j] \in 1..n /\ f[j] <= j
  BY DEF IsForest
<1>2. \A j \in 1..n : w[j] = Value(j)
  BY DEF LeadsUp
<1>3. \A j \in 1..n : RootOf(f)[f[j]] = RootOf(f)[j]
  BY RootFacts
<1>4. ASSUME NEW j \in 1..n, \A i \in 1..n : i < j => i \in Good
      PROVE  j \in Good
  <2> SUFFICES ASSUME NEW m \in w[j]
               PROVE  m \in 1..n /\ RootOf(f)[m] = RootOf(f)[j]
    OBVIOUS
  <2>0. w[j] = Value(j)
    BY <1>2
  <2>1. CASE m = j
    BY <2>1
  <2>2. CASE m # j
    <3>1. f[j] # j /\ m \in w[f[j]]
      BY <2>0, <2>2
    <3>2. f[j] \in Good
      <4>1. f[j] \in 1..n /\ f[j] < j
        BY <1>1, <3>1
      <4> QED
        BY <1>4, <4>1
    <3> QED
      BY <1>3, <3>1, <3>2
  <2> QED
    BY <2>1, <2>2
<1>5. Good = 1..n
  <2>1. Good \in SUBSET (1..n)
    OBVIOUS
  <2> HIDE DEF Good
  <2> QED
    BY <1>1, <1>4, <2>1, EveryNode
<1>6. k \in Good
  BY <1>5
<1>7. w[k] = Value(k)
  BY <1>2
<1> QED
  BY <1>6, <1>7

\* `root` finds the root, points the nodes on the way up to it and moves
\* nothing to another tree.
LEMMA CompressedIs ==
    ASSUME NEW n, NEW f, IsForest(f, n), NEW node \in 1..n
    PROVE  LET c == Compressed(f, node) IN
           /\ IsForest(c, n)
           /\ c[node] = RootOf(f)[node]
           /\ \A k \in 1..n : c[k] \in {f[k], RootOf(f)[k]}
           /\ RootOf(c) = RootOf(f)
<1> DEFINE D == DOMAIN f
           r == RootOf(f)
           Value(k, w) == IF f[k] = k THEN {k} ELSE {k} \cup w[f[k]]
           way == CHOOSE way : way = [k \in D |-> Value(k, way)]
           c == Compressed(f, node)
<1>1. c = [k \in D |-> IF k \in way[node] THEN r[node] ELSE f[k]]
  BY Zenon DEF Compressed
<1>2. /\ D = 1..n /\ n \in Nat
      /\ \A k \in 1..n : f[k] \in 1..n /\ f[k] <= k
  BY DEF IsForest
<1>3. way = [k \in D |-> Value(k, way)]
  <2> DEFINE V == SUBSET (1..n)
             top == [k \in 1..n |-> {k}]
             next == [kv \in (1..n) \X V |-> {kv[1]} \cup kv[2]]
             Up(k, g) == IF f[k] = k THEN top[k] ELSE next[<<k, g[f[k]]>>]
  <2>1. top \in [1..n -> V] /\ next \in [(1..n) \X V -> V] /\ V # {}
    OBVIOUS
  <2>2. PICK g \in [1..n -> V] : ClimbsBy(f, n, top, next, g)
    <3> HIDE DEF top, next, V
    <3> QED
      BY <2>1, ForestRecursion
  <2>3. \A k \in 1..n : g[k] = Up(k, g)
    <3> HIDE DEF top, next, V
    <3> QED
      BY <2>2 DEF ClimbsBy
  <2>4. \A k \in 1..n : Up(k, g) = Value(k, g)
    <3>1. \A k \in 1..n : g[f[k]] \in V
      <4> HIDE DEF V
      <4> QED
        BY <1>2, <2>2
    <3> QED
      BY <3>1
  <2>5. g = [k \in D |-> Value(k, g)]
    <3> HIDE DEF Value, Up
    <3> QED
      BY <1>2, <2>2, <2>3, <2>4
  <2> HIDE DEF Value
  <2> QED
    BY <2>5
<1> HIDE DEF way
<1>4. node \in way[node] /\ \A m \in way[node] : m \in 1..n /\ r[m] = r[node]
  <2>1. \A k \in D : way[k] = Value(k, way)
    <3> HIDE DEF Value
    <3> QED
      BY <1>3
  <2>2. LeadsUp(f, n, way)
    BY <1>2, <2>1 DEF LeadsUp
  <2> HIDE DEF Value
  <2> QED
    BY <2>2, WayUp DEF r
<1>5. \A k \in 1..n : r[k] \in 1..n /\ r[k] <= k
  BY RootFacts
<1> HIDE DEF r
<1>6. \A k \in 1..n : c[k] \in {f[k], r[k]} /\ c[k] \in 1..n /\ c[k] <= k
  <2> TAKE k \in 1..n
  <2>1. c[k] = IF k \in way[node] THEN r[node] ELSE f[k]
    BY <1>1, <1>2
  <2>2. k \in way[node] => r[node] = r[k]
    BY <1>4
  <2> QED
    BY <1>2, <1>5, <2>1, <2>2
<1>7. c[node] = r[node]
  BY <1>1, <1>2, <1>4
<1>8. c = [k \in 1..n |-> c[k]]
  BY <1>1, <1>2
<1> HIDE DEF c
<1>9. IsForest(c, n)
  BY <1>2, <1>6, <1>8 DEF IsForest
<1>10. RootOf(c) = RootOf(f)
  BY <1>6, <1>9, ShortcutsKeepRoots DEF r
<1> QED
  BY <1>6, <1>7, <1>9, <1>10 DEF c, r

\* `join` merges two trees and keeps the others: the later of the two roots
\* goes below the earlier.
Lower(a, b) == IF a <= b THEN a ELSE b

\* The greater of two nodes.
Upper(a, b) == IF a <= b THEN b ELSE a

\* What Min and Max of two nodes are.
LEMMA OfTwo ==
    ASSUME NEW a \in Nat, NEW b \in Nat
    PROVE  Min({a, b}) = Lower(a, b) /\ Max({a, b}) = Upper(a, b)
<1>1. Min({a, b}) \in {a, b} /\ \A x \in {a, b} : Min({a, b}) <= x
  BY MinIs
<1>2. \E x \in {a, b} : \A y \in {a, b} : x >= y
  <2>1. CASE a <= b
    BY <2>1
  <2>2. CASE b <= a
    BY <2>2
  <2> QED
    BY <2>1, <2>2
<1>3. Max({a, b}) \in {a, b} /\ \A x \in {a, b} : Max({a, b}) >= x
  BY <1>2, Zenon DEF Max
<1> QED
  BY <1>1, <1>3 DEF Lower, Upper

\* join keeps a forest a forest and makes one tree of the two.
LEMMA JoinIs ==
    ASSUME NEW n, NEW f, IsForest(f, n), NEW left \in 1..n, NEW right \in 1..n
    PROVE  LET j == Join(f, left, right)
               r == RootOf(f)
           IN /\ IsForest(j, n)
              /\ \A k \in 1..n : RootOf(j)[k] =
                    IF r[k] = Upper(r[left], r[right])
                    THEN Lower(r[left], r[right]) ELSE r[k]
<1> DEFINE r == RootOf(f)
           once == Compressed(f, left)
           c == Compressed(once, right)
           a == Lower(r[left], r[right])
           b == Upper(r[left], r[right])
           j == Join(f, left, right)
           q == RootOf(j)
<1>1. /\ IsForest(once, n) /\ once[left] = r[left] /\ RootOf(once) = r
  BY CompressedIs
<1>2. /\ IsForest(c, n) /\ c[right] = r[right] /\ RootOf(c) = r
      /\ c[left] \in {once[left], r[left]}
  <2> HIDE DEF once
  <2> QED
    BY <1>1, CompressedIs
<1>3. /\ n \in Nat /\ c \in [1..n -> 1..n]
      /\ \A k \in 1..n : c[k] \in 1..n /\ c[k] <= k
  BY <1>2 DEF IsForest
<1>4. \A k \in 1..n : /\ r[k] \in 1..n /\ r[k] <= k /\ r[r[k]] = r[k]
                      /\ r[c[k]] = r[k] /\ (c[k] = k <=> r[k] = k)
  BY <1>2, RootFacts
<1>5. j = [c EXCEPT ![Max({c[left], c[right]})] = Min({c[left], c[right]})]
  BY Zenon DEF Join
<1>6. c[left] = r[left] /\ c[right] = r[right]
  BY <1>1, <1>2
<1> HIDE DEF r, c, j, q
<1>7. r[left] \in Nat /\ r[right] \in Nat
  <2> DEFINE x == r[left]
             y == r[right]
  <2>1. x \in 1..n /\ y \in 1..n
    BY <1>4
  <2> HIDE DEF x, y
  <2>2. x \in Nat /\ y \in Nat
    BY <1>3, <2>1
  <2> QED
    BY <2>2 DEF x, y
<1>8. j = [c EXCEPT ![b] = a]
  <2> HIDE DEF a, b
  <2>1. Max({r[left], r[right]}) = b /\ Min({r[left], r[right]}) = a
    BY <1>7, OfTwo DEF a, b
  <2> QED
    BY <1>5, <1>6, <2>1
<1>9. /\ a \in 1..n /\ b \in 1..n /\ a <= b /\ r[a] = a /\ r[b] = b
  <2> DEFINE x == r[left]
             y == r[right]
  <2>1. x \in 1..n /\ y \in 1..n /\ r[x] = x /\ r[y] = y
    BY <1>4
  <2> HIDE DEF x, y
  <2>2. a = Lower(x, y) /\ b = Upper(x, y)
    BY DEF x, y
  <2> HIDE DEF a, b
  <2> QED
    BY <1>3, <2>1, <2>2 DEF Lower, Upper
<1> HIDE DEF a, b
<1>10. \A k \in 1..n : j[k] = IF k = b THEN a ELSE c[k]
  BY <1>3, <1>8
<1>11. IsForest(j, n)
  <2>1. j \in [1..n -> 1..n]
    BY <1>3, <1>8, <1>9
  <2>2. \A k \in 1..n : j[k] <= k
    BY <1>3, <1>9, <1>10
  <2> QED
    BY <1>3, <2>1, <2>2 DEF IsForest
<1>12. \A k \in 1..n : q[k] = IF j[k] = k THEN k ELSE q[j[k]]
  BY <1>11, RootEquation DEF q
<1>13. \A k \in 1..n : j[k] \in 1..n /\ j[k] <= k
  BY <1>11 DEF IsForest
<1> DEFINE want(k) == IF r[k] = b THEN a ELSE r[k]
           Good == {k \in 1..n : q[k] = want(k)}
<1>14. ASSUME NEW k \in 1..n, \A i \in 1..n : i < k => i \in Good
       PROVE  k \in Good
  <2>1. CASE k = b
    <3>1. CASE a = b
      BY <1>9, <1>10, <1>12, <2>1, <3>1
    <3>2. CASE a # b
      <4>1. a < b /\ a \in Good
        <5>1. a \in 1..n /\ b \in 1..n /\ a <= b /\ n \in Nat
          BY <1>3, <1>9
        <5>2. a < b
          BY <3>2, <5>1
        <5> QED
          BY <1>9, <1>14, <2>1, <5>2
      <4>2. q[a] = a
        BY <1>9, <3>2, <4>1
      <4> QED
        BY <1>9, <1>10, <1>12, <2>1, <3>2, <4>2
    <3> QED
      BY <3>1, <3>2
  <2>2. CASE k # b
    <3>1. j[k] = c[k]
      BY <1>10, <2>2
    <3>2. CASE c[k] = k
      <4>1. r[k] = k /\ q[k] = k
        BY <1>4, <1>12, <3>1, <3>2
      <4> QED
        BY <2>2, <4>1
    <3>3. CASE c[k] # k
      <4>1. c[k] \in 1..n /\ c[k] < k
        BY <1>3, <3>3
      <4>2. c[k] \in Good
        BY <1>14, <4>1
      <4>3. r[c[k]] = r[k] /\ q[k] = q[c[k]]
        BY <1>4, <1>12, <3>1, <3>3
      <4> QED
        BY <4>2, <4>3
    <3> QED
      BY <3>2, <3>3
  <2> QED
    BY <2>1, <2>2
<1>15. Good = 1..n
  <2>1. Good \in SUBSET (1..n)
    OBVIOUS
  <2> HIDE DEF Good
  <2> QED
    BY <1>3, <1>14, <2>1, EveryNode
<1>16. \A k \in 1..n : q[k] = want(k)
  BY <1>15
<1> QED
  BY <1>11, <1>16 DEF r, a, b, j, q

\* The forests of n nodes.
Forests(n) == {f \in [1..n -> 1..n] : IsForest(f, n)}

\* The forests on the way from one to the one all meetings make of it.
Joins(n, f, meetings, g) ==
    /\ g[0] = f
    /\ \A k \in 0..Len(meetings) : g[k] \in Forests(n)
    /\ \A k \in 1..Len(meetings) :
          g[k] = Join(g[k - 1], meetings[k][1], meetings[k][2])

\* JoinAll goes through such forests, one for each meeting.
LEMMA JoinAllSteps ==
    ASSUME NEW n, NEW f \in Forests(n), NEW s \in Seq((1..n) \X (1..n))
    PROVE  \E g : Joins(n, f, s, g) /\ JoinAll(f, s) = g[Len(s)]
<1> DEFINE S == (1..n) \X (1..n)
           V == Forests(n)
           JoinNext(a, meeting) == Join(a, meeting[1], meeting[2])
           step == [vs \in V \X S |-> JoinNext(vs[1], vs[2])]
           Value(T, h) == IF T = {} THEN f
                          ELSE JoinNext(h[T \ {Max(T)}], s[Max(T)])
           iter == CHOOSE iter : iter = [T \in SUBSET DOMAIN s |-> Value(T, iter)]
<1>1. JoinAll(f, s) = iter[DOMAIN s]
  BY Zenon DEF JoinAll, FoldLeft, MapThenFoldSet
<1>2. \A v \in V, x \in S : JoinNext(v, x) \in V
  <2> TAKE v \in V, x \in S
  <2>1. IsForest(v, n) /\ x[1] \in 1..n /\ x[2] \in 1..n
    BY DEF Forests
  <2>2. IsForest(Join(v, x[1], x[2]), n)
    BY <2>1, JoinIs
  <2> QED
    BY <2>2 DEF Forests, IsForest
<1> HIDE DEF JoinNext
<1>3. \A v \in V, x \in S : step[<<v, x>>] = JoinNext(v, x)
  <2> HIDE DEF V, S
  <2> QED
    OBVIOUS
<1>4. step \in [V \X S -> V]
  <2> HIDE DEF V, S
  <2> QED
    BY <1>2
<1>5. PICK h : LeftFolds(s, V, f, step, h)
  <2> HIDE DEF step, V
  <2>1. s \in Seq(S) /\ f \in V
    BY DEF V
  <2> HIDE DEF S
  <2> QED
    BY <1>4, <2>1, LeftFoldExists
<1>6. DOMAIN s = 1..Len(s) /\ Len(s) \in Nat /\ \A k \in 1..Len(s) : s[k] \in S
  <2> HIDE DEF S
  <2>1. s \in Seq(S)
    BY DEF S
  <2> QED
    BY <2>1, LenProperties, ElementOfSeq
<1> HIDE DEF S, V
<1>7. /\ h \in [SUBSET (1..Len(s)) -> V]
      /\ \A T \in SUBSET (1..Len(s)) :
            h[T] = IF T = {} THEN f
                   ELSE step[<<h[T \ {Max(T)}], s[Max(T)]>>]
  BY <1>5, <1>6 DEF LeftFolds
<1>8. \A T \in SUBSET (1..Len(s)) : h[T] = Value(T, h)
  <2> TAKE T \in SUBSET (1..Len(s))
  <2>1. CASE T = {}
    BY <1>7, <2>1
  <2>2. CASE T # {}
    <3>1. Max(T) \in 1..Len(s)
      BY <1>6, <2>2, MaxOfInterval
    <3>2. T \ {Max(T)} \in SUBSET (1..Len(s))
      OBVIOUS
    <3>3. h[T \ {Max(T)}] \in V /\ s[Max(T)] \in S
      BY <1>6, <1>7, <3>1, <3>2
    <3> HIDE DEF step
    <3> QED
      BY <1>3, <1>7, <2>2, <3>3
  <2> QED
    BY <2>1, <2>2
<1>9. iter = [T \in SUBSET DOMAIN s |-> Value(T, iter)]
  <2>1. h = [T \in SUBSET DOMAIN s |-> Value(T, h)]
    <3> HIDE DEF Value
    <3> QED
      BY <1>6, <1>7, <1>8
  <2> HIDE DEF Value
  <2> QED
    BY <2>1
<1> HIDE DEF iter
<1>10. \A T \in SUBSET (1..Len(s)) : iter[T] = Value(T, iter)
  <2> HIDE DEF Value
  <2> QED
    BY <1>6, <1>9
<1> DEFINE g == [k \in 0..Len(s) |-> iter[1..k]]
<1>11. g[0] = f
  <2>1. 1..0 = {} /\ 0 \in 0..Len(s) /\ {} \in SUBSET (1..Len(s))
    BY <1>6
  <2>2. iter[{}] = f
    BY <1>10, <2>1
  <2> QED
    BY <2>1, <2>2
<1>12. \A k \in 1..Len(s) : g[k] = JoinNext(g[k - 1], s[k])
  <2> TAKE k \in 1..Len(s)
  <2>1. 1..k \in SUBSET (1..Len(s)) /\ k \in 0..Len(s) /\ k - 1 \in 0..Len(s)
    BY <1>6
  <2>2. Max(1..k) = k /\ (1..k) \ {k} = 1..(k - 1) /\ 1..k # {}
    BY <1>6, MaxOfRange
  <2>3. iter[1..k] = JoinNext(iter[1..(k - 1)], s[k])
    BY <1>10, <2>1, <2>2
  <2> QED
    BY <2>1, <2>3
<1>13. JoinAll(f, s) = g[Len(s)]
  BY <1>1, <1>6
<1> HIDE DEF g
<1>14. \A k \in 0..Len(s) : g[k] \in V
  <2> DEFINE Typed == {k \in Nat : k <= Len(s) => g[k] \in V}
  <2>1. 0 \in Typed
    BY <1>11 DEF V
  <2>2. ASSUME NEW k \in Typed
        PROVE  k + 1 \in Typed
    <3> SUFFICES ASSUME k + 1 <= Len(s) PROVE g[k + 1] \in V
      OBVIOUS
    <3>1. k + 1 \in 1..Len(s) /\ k + 1 - 1 = k /\ k <= Len(s)
      BY <1>6
    <3>2. g[k] \in V /\ s[k + 1] \in S
      BY <1>6, <3>1
    <3> QED
      BY <1>2, <1>12, <3>1, <3>2
  <2>3. Typed = Nat
    <3>1. Typed \in SUBSET Nat
      OBVIOUS
    <3> HIDE DEF Typed
    <3> QED
      BY <2>1, <2>2, <3>1, EveryNumber
  <2> TAKE k \in 0..Len(s)
  <2>4. k \in Typed /\ k <= Len(s)
    <3> HIDE DEF Typed
    <3> QED
      BY <1>6, <2>3
  <2> QED
    BY <2>4
<1>15. Joins(n, f, s, g)
  BY <1>11, <1>12, <1>14 DEF Joins, V, JoinNext
<1> QED
  BY <1>13, <1>15

\* Every node is a tree of its own before the first meeting.
LEMMA ForestIs ==
    ASSUME NEW n \in Nat
    PROVE  /\ Forest(n) \in Forests(n)
           /\ \A k \in 1..n : RootOf(Forest(n))[k] = k
<1>1. /\ Forest(n) \in [1..n -> 1..n]
      /\ \A k \in 1..n : Forest(n)[k] = k /\ Forest(n)[k] <= k
  BY DEF Forest
<1>2. IsForest(Forest(n), n)
  BY <1>1 DEF IsForest
<1>3. \A k \in 1..n : RootOf(Forest(n))[k] = k
  BY <1>1, <1>2, RootEquation
<1> QED
  BY <1>1, <1>2, <1>3 DEF Forests

\* A meeting puts its two nodes into one tree, and no others that no meeting put
\* there.
LEMMA JoinStep ==
    ASSUME NEW n \in Nat, NEW f, NEW x \in 1..n, NEW y \in 1..n, NEW i \in 1..n,
           IsForest(f, n)
    PROVE  LET a == RootOf(f)[x]
               b == RootOf(f)[y]
           IN /\ RootOf(Join(f, x, y))[i] =
                     IF RootOf(f)[i] = Upper(a, b)
                     THEN Lower(a, b) ELSE RootOf(f)[i]
              /\ a \in 1..n /\ b \in 1..n
<1> DEFINE a == RootOf(f)[x]
           b == RootOf(f)[y]
<1>1. \A k \in 1..n : RootOf(Join(f, x, y))[k] =
          IF RootOf(f)[k] = Upper(a, b) THEN Lower(a, b) ELSE RootOf(f)[k]
  BY JoinIs
<1>2. a \in 1..n /\ b \in 1..n
  BY RootFacts
<1> HIDE DEF a, b
<1> QED
  BY <1>1, <1>2 DEF a, b

\* Nodes that met are in one tree, and nodes that are in one tree cannot be
\* told apart by a set that every two nodes that met are in, or out of,
\* together.
LEMMA JoinAllIs ==
    ASSUME NEW n \in Nat, NEW s \in Seq((1..n) \X (1..n))
    PROVE  LET f == JoinAll(Forest(n), s) IN
           /\ IsForest(f, n)
           /\ \A i \in 1..Len(s) : RootOf(f)[s[i][1]] = RootOf(f)[s[i][2]]
           /\ \A A \in SUBSET (1..n) :
                 (\A i \in 1..Len(s) : s[i][1] \in A <=> s[i][2] \in A)
                 => \A k \in 1..n : k \in A <=> RootOf(f)[k] \in A
<1> DEFINE m == Len(s)
<1>1. PICK g : Joins(n, Forest(n), s, g) /\ JoinAll(Forest(n), s) = g[m]
  BY ForestIs, JoinAllSteps
<1>2. m \in Nat /\ \A k \in 1..m : s[k][1] \in 1..n /\ s[k][2] \in 1..n
  <2>1. m \in Nat /\ \A k \in 1..m : s[k] \in (1..n) \X (1..n)
    BY LenProperties, ElementOfSeq
  <2> QED
    BY <2>1
<1> HIDE DEF m
<1>3. \A k \in 0..m : IsForest(g[k], n)
  BY <1>1 DEF Joins, Forests, m
<1> DEFINE roots(k) == RootOf(g[k])
<1>4. ASSUME NEW k \in 1..m, NEW i \in 1..n
      PROVE  LET a == roots(k - 1)[s[k][1]]
                 b == roots(k - 1)[s[k][2]]
             IN /\ roots(k)[i] = IF roots(k - 1)[i] = Upper(a, b)
                             THEN Lower(a, b) ELSE roots(k - 1)[i]
                /\ a \in 1..n /\ b \in 1..n
  <2> DEFINE x == s[k][1]
             y == s[k][2]
  <2>1. k - 1 \in 0..m /\ IsForest(g[k - 1], n) /\ x \in 1..n /\ y \in 1..n
    BY <1>2, <1>3
  <2>2. g[k] = Join(g[k - 1], x, y)
    BY <1>1 DEF Joins, m
  <2> DEFINE f == g[k - 1]
             a == RootOf(f)[x]
             b == RootOf(f)[y]
  <2>3. IsForest(f, n) /\ g[k] = Join(f, x, y)
    BY <2>1, <2>2
  <2> HIDE DEF x, y, f
  <2>4. /\ RootOf(Join(f, x, y))[i] =
               IF RootOf(f)[i] = Upper(a, b) THEN Lower(a, b) ELSE RootOf(f)[i]
        /\ a \in 1..n /\ b \in 1..n
    BY <2>1, <2>3, JoinStep
  <2>5. /\ RootOf(g[k])[i] =
               IF RootOf(f)[i] = Upper(a, b) THEN Lower(a, b) ELSE RootOf(f)[i]
        /\ a \in 1..n /\ b \in 1..n
    BY <2>3, <2>4
  <2> QED
    BY <2>5 DEF x, y, f
<1> HIDE DEF roots
<1>5. ASSUME NEW i \in 1..m
      PROVE  roots(m)[s[i][1]] = roots(m)[s[i][2]]
  <2> DEFINE Good == {k \in 0..m : i <= k => roots(k)[s[i][1]] = roots(k)[s[i][2]]}
  <2>1. 0 \in Good
    BY <1>2
  <2>2. ASSUME NEW k \in 1..m, k - 1 \in Good
        PROVE  k \in Good
    <3> SUFFICES ASSUME i <= k PROVE roots(k)[s[i][1]] = roots(k)[s[i][2]]
      BY <1>2
    <3> DEFINE a == roots(k - 1)[s[k][1]]
               b == roots(k - 1)[s[k][2]]
               x == s[i][1]
               y == s[i][2]
    <3>1. x \in 1..n /\ y \in 1..n
      BY <1>2
    <3>2. /\ roots(k)[x] = IF roots(k - 1)[x] = Upper(a, b) THEN Lower(a, b) ELSE roots(k - 1)[x]
          /\ roots(k)[y] = IF roots(k - 1)[y] = Upper(a, b) THEN Lower(a, b) ELSE roots(k - 1)[y]
          /\ a \in 1..n /\ b \in 1..n
      <4> HIDE DEF x, y
      <4> QED
        BY <1>4, <3>1
    <3>3. CASE i = k
      <4>1. roots(k - 1)[x] = a /\ roots(k - 1)[y] = b
        BY <3>3
      <4> HIDE DEF x, y, a, b
      <4>2. roots(k)[x] = roots(k)[y]
        BY <3>2, <4>1 DEF Upper, Lower
      <4> QED
        BY <4>2 DEF x, y
    <3>4. CASE i # k
      <4>1. i <= k - 1
        BY <1>2, <3>4
      <4>2. roots(k - 1)[x] = roots(k - 1)[y]
        BY <2>2, <4>1
      <4> HIDE DEF x, y, a, b
      <4>3. roots(k)[x] = roots(k)[y]
        BY <3>2, <4>2
      <4> QED
        BY <4>3 DEF x, y
    <3> QED
      BY <3>3, <3>4
  <2>3. Good = 0..m
    <3>1. Good \in SUBSET (0..m)
      OBVIOUS
    <3> HIDE DEF Good
    <3> QED
      BY <1>2, <2>1, <2>2, <3>1, EveryStep
  <2>4. m \in Good /\ i <= m
    <3> HIDE DEF Good
    <3> QED
      BY <1>2, <2>3
  <2> QED
    BY <2>4
<1>6. ASSUME NEW A \in SUBSET (1..n),
             \A i \in 1..m : s[i][1] \in A <=> s[i][2] \in A
      PROVE  \A k \in 1..n : k \in A <=> roots(m)[k] \in A
  <2> DEFINE Good == {k \in 0..m : \A i \in 1..n : i \in A <=> roots(k)[i] \in A}
  <2>1. 0 \in Good
    <3>1. g[0] = Forest(n)
      BY <1>1 DEF Joins
    <3>2. \A i \in 1..n : roots(0)[i] = i
      BY <3>1, ForestIs DEF roots
    <3>3. 0 \in 0..m
      BY <1>2
    <3> QED
      BY <3>2, <3>3
  <2>2. ASSUME NEW k \in 1..m, k - 1 \in Good
        PROVE  k \in Good
    <3> SUFFICES ASSUME NEW i \in 1..n PROVE i \in A <=> roots(k)[i] \in A
      BY <1>2
    <3> DEFINE a == roots(k - 1)[s[k][1]]
               b == roots(k - 1)[s[k][2]]
    <3>1. /\ roots(k)[i] = IF roots(k - 1)[i] = Upper(a, b) THEN Lower(a, b) ELSE roots(k - 1)[i]
          /\ a \in 1..n /\ b \in 1..n
      BY <1>4
    <3>2. i \in A <=> roots(k - 1)[i] \in A
      BY <2>2
    <3>3. a \in A <=> b \in A
      BY <1>2, <1>6, <2>2
    <3> HIDE DEF a, b
    <3> QED
      BY <3>1, <3>2, <3>3 DEF Upper, Lower
  <2>3. Good = 0..m
    <3>1. Good \in SUBSET (0..m)
      OBVIOUS
    <3> HIDE DEF Good
    <3> QED
      BY <1>2, <2>1, <2>2, <3>1, EveryStep
  <2>4. m \in Good
    <3> HIDE DEF Good
    <3> QED
      BY <1>2, <2>3
  <2> QED
    BY <2>4
<1>7. m \in 0..m
  BY <1>2
<1> QED
  BY <1>1, <1>3, <1>5, <1>6, <1>7 DEF m, roots

-----------------------------------------------------------------------------
(* The commits that build_groups joins. *)

\* The commits before the k-th that touch a path.
Owners(cp, k, path) == {j \in 1..(k - 1) : path \in cp[j]}

\* The sets of paths of a window of commits.
Window(P, cp) == P \in SUBSET Nat /\ IsFiniteSet(P) /\ cp \in Seq(SUBSET P)

\* The meetings: each path of a commit that has owners meets the last of them.
LEMMA MeetingsAre ==
    ASSUME NEW P, NEW cp, Window(P, cp)
    PROVE  LET s == Meetings(cp)
               n == Len(cp)
           IN /\ n \in Nat
              /\ s \in Seq((1..n) \X (1..n))
              /\ \A k \in 1..n : \A path \in cp[k] : Owners(cp, k, path) # {} =>
                    <<Max(Owners(cp, k, path)), k>> \in Range(s)
              /\ \A x \in Range(s) : \E k \in 1..n : \E path \in cp[k] :
                    /\ Owners(cp, k, path) # {}
                    /\ x = <<Max(Owners(cp, k, path)), k>>
<1> USE DEF Window
<1> DEFINE n == Len(cp)
           S == (1..n) \X (1..n)
           met(k) == {path \in cp[k] : Owners(cp, k, path) # {}}
           row(k) == [i \in DOMAIN Ascending(met(k)) |->
                         <<Max(Owners(cp, k, Ascending(met(k))[i])), k>>]
           q == [k \in DOMAIN cp |-> row(k)]
           s == Meetings(cp)
<1>1. s = FlattenSeq(q)
  BY Zenon DEF Meetings, Owners
<1>2. n \in Nat /\ DOMAIN cp = 1..n /\ \A k \in 1..n : cp[k] \in SUBSET P
  BY LenProperties, ElementOfSeq
<1>3. ASSUME NEW k \in 1..n, NEW path, Owners(cp, k, path) # {}
      PROVE  Max(Owners(cp, k, path)) \in 1..n
  <2>1. Owners(cp, k, path) \in SUBSET (1..n)
    <3>1. \A j \in 1..(k - 1) : j \in 1..n
      BY <1>2
    <3> QED
      BY <3>1 DEF Owners
  <2> QED
    BY <1>2, <1>3, <2>1, MaxOfInterval
<1>4. ASSUME NEW k \in 1..n
      PROVE  LET a == Ascending(met(k)) IN
             /\ Range(a) = met(k) /\ Len(a) \in Nat /\ DOMAIN a = 1..Len(a)
  <2>1. met(k) \in SUBSET P
    BY <1>2
  <2>2. met(k) \in SUBSET Nat /\ IsFiniteSet(met(k))
    <3> HIDE DEF met
    <3> QED
      BY <2>1, FS_Subset
  <2> HIDE DEF met
  <2> QED
    BY <2>2, AscendingIs
<1> HIDE DEF s, n
<1>5. ASSUME NEW k \in 1..n
      PROVE  /\ row(k) \in Seq(S)
             /\ Range(row(k)) = {<<Max(Owners(cp, k, path)), k>> : path \in met(k)}
  <2> DEFINE a == Ascending(met(k))
             m == Len(a)
             entry(path) == <<Max(Owners(cp, k, path)), k>>
  <2>1. Range(a) = met(k) /\ m \in Nat /\ DOMAIN a = 1..m
    BY <1>4
  <2> HIDE DEF a, m
  <2>2. row(k) = [i \in 1..m |-> entry(a[i])]
    BY <2>1 DEF a
  <2>3. \A i \in 1..m : a[i] \in met(k)
    BY <2>1 DEF Range
  <2>4. \A path \in met(k) : entry(path) \in S
    BY <1>3
  <2> HIDE DEF entry, S, met
  <2>5. row(k) \in Seq(S)
    BY <2>1, <2>2, <2>3, <2>4
  <2>6. Range(row(k)) = {entry(path) : path \in met(k)}
    <3> DEFINE w == row(k)
    <3>1. DOMAIN w = 1..m /\ \A i \in 1..m : w[i] = entry(a[i])
      BY <2>2
    <3> HIDE DEF w
    <3>2. \A path \in met(k) : \E i \in 1..m : a[i] = path
      BY <2>1 DEF Range
    <3>3. Range(w) \subseteq {entry(path) : path \in met(k)}
      BY <2>3, <3>1 DEF Range
    <3>4. {entry(path) : path \in met(k)} \subseteq Range(w)
      BY <3>1, <3>2 DEF Range
    <3> QED
      BY <3>3, <3>4 DEF w
  <2> QED
    BY <2>5, <2>6 DEF entry
<1>6. q \in Seq(Seq(S)) /\ DOMAIN q = 1..n /\ \A k \in 1..n : q[k] = row(k)
  <2> HIDE DEF row, S
  <2>1. DOMAIN q = 1..n /\ \A k \in 1..n : q[k] = row(k)
    BY <1>2
  <2>2. q = [k \in 1..n |-> row(k)]
    BY <1>2
  <2> QED
    BY <1>2, <1>5, <2>1, <2>2
<1> HIDE DEF q
<1>7. s \in Seq(S) /\ Range(s) = UNION {Range(x) : x \in Range(q)}
  <2> HIDE DEF S
  <2> QED
    BY <1>1, <1>6, RangeOfFlatten DEF s
<1>8. ASSUME NEW k \in 1..n, NEW path \in cp[k], Owners(cp, k, path) # {}
      PROVE  <<Max(Owners(cp, k, path)), k>> \in Range(s)
  <2>1. path \in met(k)
    BY <1>8
  <2>2. <<Max(Owners(cp, k, path)), k>> \in Range(q[k])
    <3> HIDE DEF row, met
    <3> QED
      BY <1>5, <1>6, <2>1
  <2>3. q[k] \in Range(q)
    BY <1>6 DEF Range
  <2> QED
    BY <1>7, <2>2, <2>3
<1>9. ASSUME NEW x \in Range(s)
      PROVE  \E k \in 1..n : \E path \in cp[k] :
                /\ Owners(cp, k, path) # {}
                /\ x = <<Max(Owners(cp, k, path)), k>>
  <2>1. PICK y \in Range(q) : x \in Range(y)
    BY <1>7
  <2>2. PICK k \in 1..n : y = row(k)
    <3> HIDE DEF row
    <3> QED
      BY <1>6, <2>1 DEF Range
  <2>3. PICK path \in met(k) : x = <<Max(Owners(cp, k, path)), k>>
    <3> HIDE DEF row, met
    <3> QED
      BY <1>5, <2>1, <2>2
  <2> QED
    BY <2>3
<1> QED
  BY <1>2, <1>7, <1>8, <1>9 DEF n, s

\* build_groups: the commits of a tree are those linked to one another.
LEMMA TreesAreLinks ==
    ASSUME NEW P, NEW cp, Window(P, cp)
    PROVE  LET n == Len(cp)
               f == JoinAll(Forest(n), Meetings(cp))
           IN /\ IsForest(f, n)
              /\ \A j, k \in 1..n :
                    RootOf(f)[j] = RootOf(f)[k] <=> Linked(cp, j, k)
<1> USE DEF Window
<1> DEFINE n == Len(cp)
           s == Meetings(cp)
           f == JoinAll(Forest(n), s)
           r == RootOf(f)
<1>1. n \in Nat /\ DOMAIN cp = 1..n
  BY LenProperties
<1>2. /\ s \in Seq((1..n) \X (1..n))
      /\ \A k \in 1..n : \A path \in cp[k] : Owners(cp, k, path) # {} =>
            <<Max(Owners(cp, k, path)), k>> \in Range(s)
      /\ \A x \in Range(s) : \E k \in 1..n : \E path \in cp[k] :
            /\ Owners(cp, k, path) # {}
            /\ x = <<Max(Owners(cp, k, path)), k>>
  BY MeetingsAre
<1> HIDE DEF n, s
<1>3. /\ IsForest(f, n)
      /\ \A i \in 1..Len(s) : r[s[i][1]] = r[s[i][2]]
      /\ \A A \in SUBSET (1..n) :
             (\A i \in 1..Len(s) : s[i][1] \in A <=> s[i][2] \in A)
             => \A k \in 1..n : k \in A <=> r[k] \in A
  BY <1>1, <1>2, JoinAllIs
<1>4. \A k \in 1..n : r[k] \in 1..n
  BY <1>3, RootFacts
<1>5. DOMAIN s = 1..Len(s) /\ \A x \in Range(s) : \E i \in 1..Len(s) : s[i] = x
  <2>1. DOMAIN s = 1..Len(s)
    BY <1>2, LenProperties
  <2> QED
    BY <2>1 DEF Range
<1> HIDE DEF f, r
<1>6. ASSUME NEW k \in 1..n, NEW path, Owners(cp, k, path) # {}
      PROVE  LET o == Max(Owners(cp, k, path)) IN
             /\ o \in 1..n /\ o < k /\ path \in cp[o]
             /\ \A j \in Owners(cp, k, path) : j <= o
  <2> DEFINE T == Owners(cp, k, path)
  <2>1. T \in SUBSET (1..n) /\ \A j \in T : j < k /\ path \in cp[j]
    <3>1. \A j \in 1..(k - 1) : j \in 1..n /\ j < k
      BY <1>1
    <3> QED
      BY <3>1 DEF Owners
  <2> HIDE DEF T
  <2>2. Max(T) \in T /\ \A j \in T : j <= Max(T)
    BY <1>1, <1>6, <2>1, MaxOfInterval DEF T
  <2> QED
    BY <2>1, <2>2 DEF T
\* A commit is in the tree of the last before it to touch one of its paths,
\* and so in that of every one before it.
<1>7. ASSUME NEW path
      PROVE  \A k \in 1..n : path \in cp[k] =>
                 \A j \in Owners(cp, k, path) : r[j] = r[k]
  <2> DEFINE Good == {k \in 1..n : path \in cp[k] =>
                         \A j \in Owners(cp, k, path) : r[j] = r[k]}
  <2>1. ASSUME NEW k \in 1..n, \A i \in 1..n : i < k => i \in Good
        PROVE  k \in Good
    <3> SUFFICES ASSUME path \in cp[k], NEW j \in Owners(cp, k, path)
                 PROVE  r[j] = r[k]
      OBVIOUS
    <3> DEFINE o == Max(Owners(cp, k, path))
    <3>1. o \in 1..n /\ o < k /\ path \in cp[o] /\ j <= o
      BY <1>6
    <3>2. r[o] = r[k]
      <4>1. <<o, k>> \in Range(s)
        BY <1>2
      <4>2. PICK i \in 1..Len(s) : s[i] = <<o, k>>
        BY <1>5, <4>1
      <4>3. s[i][1] = o /\ s[i][2] = k
        BY <4>2
      <4> QED
        BY <1>3, <4>3
    <3> HIDE DEF o
    <3>3. CASE j = o
      BY <3>2, <3>3
    <3>4. CASE j # o
      <4>1. j \in 1..(k - 1) /\ path \in cp[j]
        BY DEF Owners
      <4>2. j \in 1..(o - 1)
        BY <1>1, <3>1, <3>4, <4>1
      <4>3. j \in Owners(cp, o, path)
        BY <4>1, <4>2 DEF Owners
      <4>4. o \in Good
        BY <2>1, <3>1
      <4>5. r[j] = r[o]
        BY <3>1, <4>3, <4>4
      <4> QED
        BY <3>2, <4>5
    <3> QED
      BY <3>3, <3>4
  <2>2. Good = 1..n
    <3>1. Good \in SUBSET (1..n)
      OBVIOUS
    <3> HIDE DEF Good
    <3> QED
      BY <1>1, <2>1, <3>1, EveryNode
  <2> QED
    BY <2>2
<1>8. ASSUME NEW j \in 1..n, NEW k \in 1..n, cp[j] \cap cp[k] # {}
      PROVE  r[j] = r[k]
  <2>1. PICK path : path \in cp[j] /\ path \in cp[k]
    BY <1>8
  <2>2. CASE j < k
    <3>1. j \in 1..(k - 1)
      BY <1>1, <2>2
    <3>2. j \in Owners(cp, k, path)
      BY <2>1, <3>1 DEF Owners
    <3> QED
      BY <1>7, <2>1, <3>2
  <2>3. CASE k < j
    <3>1. k \in 1..(j - 1)
      BY <1>1, <2>3
    <3>2. k \in Owners(cp, j, path)
      BY <2>1, <3>1 DEF Owners
    <3> QED
      BY <1>7, <2>1, <3>2
  <2>4. CASE j = k
    BY <2>4
  <2>5. j < k \/ k < j \/ j = k
    BY <1>1
  <2> QED
    BY <2>2, <2>3, <2>4, <2>5
<1>9. ASSUME NEW j \in 1..n, NEW k \in 1..n, Linked(cp, j, k)
      PROVE  r[j] = r[k]
  <2> DEFINE A == {i \in 1..n : r[i] = r[j]}
  <2>1. Closed(cp, A)
    BY <1>1, <1>8 DEF Closed
  <2>2. A \in SUBSET DOMAIN cp
    BY <1>1
  <2>3. j \in A
    OBVIOUS
  <2>4. k \in A
    <3> HIDE DEF A
    <3> QED
      BY <1>9, <2>1, <2>2, <2>3 DEF Linked
  <2> QED
    BY <2>4
<1>10. ASSUME NEW j \in 1..n, NEW k \in 1..n, r[j] = r[k]
       PROVE  Linked(cp, j, k)
  <2> SUFFICES ASSUME NEW A \in SUBSET DOMAIN cp, Closed(cp, A)
               PROVE  j \in A <=> k \in A
    BY DEF Linked
  <2>1. ASSUME NEW i \in 1..Len(s)
        PROVE  s[i][1] \in A <=> s[i][2] \in A
    <3>1. s[i] \in Range(s)
      BY <1>5 DEF Range
    <3>2. PICK m \in 1..n : \E path \in cp[m] :
              /\ Owners(cp, m, path) # {}
              /\ s[i] = <<Max(Owners(cp, m, path)), m>>
      BY <1>2, <3>1
    <3>3. PICK path \in cp[m] :
              /\ Owners(cp, m, path) # {}
              /\ s[i] = <<Max(Owners(cp, m, path)), m>>
      BY <3>2
    <3> DEFINE o == Max(Owners(cp, m, path))
    <3>4. o \in 1..n /\ path \in cp[o]
      BY <1>6, <3>3
    <3>5. s[i][1] = o /\ s[i][2] = m
      BY <3>3
    <3> HIDE DEF o
    <3> QED
      BY <1>1, <3>3, <3>4, <3>5 DEF Closed
  <2>2. A \in SUBSET (1..n)
    BY <1>1
  <2>3. \A i \in 1..n : i \in A <=> r[i] \in A
    BY <1>3, <2>1, <2>2
  <2> QED
    BY <1>10, <2>3
<1> QED
  BY <1>3, <1>9, <1>10 DEF n, s, f, r

\* The trees of a forest, in the order of their roots, which are their first
\* nodes.
LEMMA ComponentsIs ==
    ASSUME NEW n, NEW f, IsForest(f, n)
    PROVE  LET r == RootOf(f)
               roots == Ascending(Range(r))
               c == Components(f)
           IN /\ DOMAIN c = DOMAIN roots
              /\ \A g \in DOMAIN c : c[g] = {k \in 1..n : r[k] = roots[g]}
              /\ \A g \in DOMAIN c : roots[g] \in c[g] /\ \A k \in c[g] : roots[g] <= k
              /\ \A k \in 1..n : \E g \in DOMAIN c : k \in c[g]
              /\ Range(r) \in SUBSET Nat /\ IsFiniteSet(Range(r))
<1> DEFINE r == RootOf(f)
           class(x) == {k \in DOMAIN r : r[k] = x}
           members == {class(x) : x \in Range(r)}
           earliest == Ascending({Min(m) : m \in members})
           roots == Ascending(Range(r))
           c == Components(f)
<1>1. c = [g \in DOMAIN earliest |-> CHOOSE m \in members : Min(m) = earliest[g]]
  BY Zenon DEF Components
<1>2. n \in Nat /\ DOMAIN r = 1..n
  BY RootEquation DEF IsForest
<1>3. \A k \in 1..n : r[k] \in 1..n /\ r[k] <= k /\ r[r[k]] = r[k]
  BY RootFacts
<1> HIDE DEF r
<1>4. Range(r) \in SUBSET Nat /\ IsFiniteSet(Range(r)) /\ \A x \in Range(r) : x \in 1..n
  <2>1. Range(r) \in SUBSET (1..n)
    BY <1>2, <1>3 DEF Range
  <2>2. IsFiniteSet(1..n)
    BY <1>2, FS_Interval
  <2>3. IsFiniteSet(Range(r))
    BY <2>1, <2>2, FS_Subset
  <2> QED
    BY <1>2, <2>1, <2>3
<1>5. ASSUME NEW x \in Range(r)
      PROVE  x \in class(x) /\ (\A k \in class(x) : x <= k) /\ Min(class(x)) = x
  <2>1. PICK k \in 1..n : x = r[k]
    BY <1>2 DEF Range
  <2>2. r[x] = x /\ x \in 1..n
    BY <1>3, <2>1
  <2>3. x \in class(x) /\ \A i \in class(x) : x <= i
    BY <1>2, <1>3, <2>2
  <2>4. class(x) \in SUBSET Nat
    BY <1>2
  <2> HIDE DEF class
  <2>5. Min(class(x)) \in class(x) /\ \A i \in class(x) : Min(class(x)) <= i
    BY <2>3, <2>4, MinIs
  <2>6. Min(class(x)) = x
    <3> DEFINE y == Min(class(x))
    <3>1. y <= x /\ x <= y /\ x \in Nat /\ y \in Nat
      BY <2>3, <2>4, <2>5
    <3> HIDE DEF y
    <3>2. y = x
      BY <3>1
    <3> QED
      BY <3>2 DEF y
  <2> QED
    BY <2>3, <2>6
<1> HIDE DEF class
<1>6. {Min(m) : m \in members} = Range(r)
  BY <1>5
<1>7. earliest = roots
  <2> HIDE DEF members
  <2> QED
    BY <1>6
<1>8. /\ Range(roots) = Range(r) /\ \A g \in DOMAIN roots : roots[g] \in Range(r)
  <2>1. Range(roots) = Range(r)
    BY <1>4, AscendingIs
  <2> QED
    BY <2>1 DEF Range
<1> HIDE DEF earliest, roots
<1>9. DOMAIN c = DOMAIN roots
  <2> HIDE DEF members
  <2> QED
    BY <1>1, <1>7
<1>10. ASSUME NEW g \in DOMAIN roots
       PROVE  c[g] = class(roots[g])
  <2>1. c[g] = CHOOSE m \in members : Min(m) = roots[g]
    <3> HIDE DEF members
    <3> QED
      BY <1>1, <1>7
  <2>2. class(roots[g]) \in members /\ Min(class(roots[g])) = roots[g]
    BY <1>5, <1>8
  <2>3. \A m \in members : Min(m) = roots[g] => m = class(roots[g])
    BY <1>5
  <2> HIDE DEF members, c
  <2> QED
    BY <2>1, <2>2, <2>3
<1> HIDE DEF c
<1>11. ASSUME NEW k \in 1..n
       PROVE  \E g \in DOMAIN c : k \in c[g]
  <2>1. r[k] \in Range(r)
    BY <1>2 DEF Range
  <2>2. PICK g \in DOMAIN roots : roots[g] = r[k]
    BY <1>8, <2>1 DEF Range
  <2>3. k \in class(roots[g])
    BY <1>2, <2>2 DEF class
  <2> QED
    BY <1>9, <1>10, <2>2, <2>3
<1>12. \A g \in DOMAIN roots : class(roots[g]) = {k \in 1..n : r[k] = roots[g]}
  BY <1>2 DEF class
<1>13. \A g \in DOMAIN c : /\ c[g] = {k \in 1..n : r[k] = roots[g]}
                           /\ roots[g] \in c[g] /\ \A k \in c[g] : roots[g] <= k
  BY <1>5, <1>8, <1>9, <1>10, <1>12
<1> QED
  BY <1>4, <1>9, <1>11, <1>13 DEF c, r, roots

\* What build_groups makes of commits none of which is empty.
Grouping(cp, groups) ==
    /\ groups = [g \in DOMAIN groups |-> groups[g]]
    /\ DOMAIN groups = 1..Len(groups) /\ Len(groups) \in Nat
    /\ \A g \in DOMAIN groups :
          LET commits == groups[g].commits IN
          /\ commits \in Seq(DOMAIN cp) /\ commits # << >> /\ IsInjective(commits)
          /\ groups[g].paths = UNION {cp[k] : k \in Range(commits)}
          /\ commits[1] \in Range(commits)
          /\ \A k \in Range(commits) : commits[1] <= k
    /\ \A g, h \in DOMAIN groups : g < h => groups[g].commits[1] < groups[h].commits[1]
    /\ \A k \in DOMAIN cp : \E g \in DOMAIN groups : k \in Range(groups[g].commits)
    /\ \A g, h \in DOMAIN groups : \A j \in Range(groups[g].commits) :
          \A k \in Range(groups[h].commits) : Linked(cp, j, k) <=> g = h

\* build_groups makes such groups of a window of commits.
LEMMA GroupsAre ==
    ASSUME NEW P, NEW cp, Window(P, cp)
    PROVE  Grouping(cp, BuildGroups(cp))
<1> DEFINE n == Len(cp)
           f == JoinAll(Forest(n), Meetings(cp))
           r == RootOf(f)
           roots == Ascending(Range(r))
           c == Components(f)
           groups == BuildGroups(cp)
           m == Len(roots)
<1>1. /\ IsForest(f, n)
      /\ \A j, k \in 1..n : r[j] = r[k] <=> Linked(cp, j, k)
  BY TreesAreLinks
<1>2. n \in Nat /\ DOMAIN cp = 1..n
  BY LenProperties DEF Window
<1> HIDE DEF f, n
<1>3. /\ DOMAIN c = DOMAIN roots
      /\ \A g \in DOMAIN c : c[g] = {k \in 1..n : r[k] = roots[g]}
      /\ \A g \in DOMAIN c : roots[g] \in c[g] /\ \A k \in c[g] : roots[g] <= k
      /\ \A k \in 1..n : \E g \in DOMAIN c : k \in c[g]
      /\ Range(r) \in SUBSET Nat /\ IsFiniteSet(Range(r))
  BY <1>1, ComponentsIs
<1>4. groups = [g \in DOMAIN c |-> [commits |-> Ascending(c[g]),
                                    paths |-> UNION {cp[k] : k \in c[g]}]]
  BY Zenon DEF BuildGroups, f, n
<1> HIDE DEF r, c, groups
<1>5. /\ m \in Nat /\ DOMAIN roots = 1..m
      /\ \A g, h \in DOMAIN roots : g < h => roots[g] < roots[h]
      /\ \A g, h \in DOMAIN roots : roots[g] = roots[h] => g = h
  <2>1. /\ m \in Nat /\ DOMAIN roots = 1..Cardinality(Range(r))
        /\ m = Cardinality(Range(r))
        /\ \A g, h \in DOMAIN roots : g < h => roots[g] < roots[h]
        /\ IsInjective(roots)
    BY <1>3, AscendingIs
  <2> HIDE DEF m, roots
  <2> QED
    BY <2>1 DEF IsInjective
<1> HIDE DEF roots, m
<1>6. DOMAIN groups = 1..m /\ DOMAIN c = 1..m /\ Len(groups) = m
  <2>1. DOMAIN groups = 1..m /\ DOMAIN c = 1..m
    BY <1>3, <1>4, <1>5
  <2> DEFINE T == {groups[g] : g \in 1..m}
  <2>2. groups \in [1..m -> T]
    <3>1. groups = [g \in 1..m |-> groups[g]]
      BY <1>4, <2>1
    <3> QED
      BY <3>1
  <2> HIDE DEF T
  <2>3. groups \in Seq(T)
    BY <1>5, <2>2, SeqDef
  <2> QED
    BY <1>5, <2>1, <2>3, LenProperties
<1>7. ASSUME NEW g \in 1..m
      PROVE  LET a == groups[g].commits IN
             /\ a \in Seq(1..n) /\ a # << >> /\ IsInjective(a)
             /\ Range(a) = c[g] /\ a[1] = roots[g]
             /\ groups[g].paths = UNION {cp[k] : k \in Range(a)}
  <2> DEFINE S == c[g]
             a == Ascending(S)
  <2>1. S \in SUBSET (1..n) /\ roots[g] \in S /\ \A k \in S : roots[g] <= k
    <3>1. c[g] = {k \in 1..n : r[k] = roots[g]}
      BY <1>3, <1>6
    <3> QED
      BY <1>3, <1>6, <3>1
  <2> HIDE DEF S
  <2>2. S \in SUBSET Nat /\ IsFiniteSet(S) /\ S # {}
    <3>1. IsFiniteSet(1..n)
      BY <1>2, FS_Interval
    <3>2. IsFiniteSet(S)
      BY <2>1, <3>1, FS_Subset
    <3>3. S \in SUBSET Nat
      BY <1>2, <2>1
    <3> QED
      BY <2>1, <3>2, <3>3
  <2>3. /\ a \in Seq(S) /\ Range(a) = S /\ IsInjective(a)
        /\ 1 \in DOMAIN a /\ a[1] = Min(S)
    BY <2>2, AscendingIs
  <2>4. Min(S) = roots[g]
    <3>1. Min(S) \in S /\ \A k \in S : Min(S) <= k
      BY <2>2, MinIs
    <3> DEFINE x == Min(S)
               y == roots[g]
    <3>2. x \in S /\ y \in S /\ x <= y /\ y <= x
      BY <2>1, <3>1
    <3> HIDE DEF x, y
    <3>3. x = y
      BY <2>2, <3>2
    <3> QED
      BY <3>3 DEF x, y
  <2> HIDE DEF a
  <2>5. a \in Seq(1..n) /\ a # << >>
    <3>1. a # << >>
      <4>1. DOMAIN << >> = {}
        OBVIOUS
      <4> QED
        BY <2>3, <4>1
    <3> DEFINE l == Len(a)
    <3>2. l \in Nat /\ a \in [1..l -> S]
      BY <2>3, LenProperties
    <3> HIDE DEF l
    <3>3. a \in [1..l -> 1..n]
      BY <2>1, <3>2
    <3>4. a \in Seq(1..n)
      BY <3>2, <3>3, SeqDef
    <3> QED
      BY <3>1, <3>4
  <2>6. groups[g].commits = a /\ groups[g].paths = UNION {cp[k] : k \in S}
    BY <1>4, <1>6 DEF a, S
  <2> QED
    BY <2>3, <2>4, <2>5, <2>6 DEF S
<1>8. ASSUME NEW g \in 1..m
      PROVE  LET a == groups[g].commits IN
             a[1] \in Range(a) /\ \A k \in Range(a) : a[1] <= k
  BY <1>3, <1>6, <1>7
<1>9. ASSUME NEW g \in 1..m, NEW h \in 1..m, NEW j \in c[g], NEW k \in c[h]
      PROVE  Linked(cp, j, k) <=> g = h
  <2>1. j \in 1..n /\ r[j] = roots[g] /\ k \in 1..n /\ r[k] = roots[h]
    <3>1. c[g] = {i \in 1..n : r[i] = roots[g]} /\ c[h] = {i \in 1..n : r[i] = roots[h]}
      BY <1>3, <1>6
    <3> QED
      BY <3>1
  <2>2. r[j] = r[k] <=> Linked(cp, j, k)
    BY <1>1, <2>1 DEF r
  <2> QED
    BY <1>5, <2>1, <2>2
<1>10. \A g, h \in 1..m : g < h => roots[g] < roots[h]
  BY <1>5
<1>11. \A k \in 1..n : \E g \in 1..m : k \in c[g]
  BY <1>3, <1>6
<1>12. groups = [g \in DOMAIN groups |-> groups[g]]
  BY <1>4
<1>13. Grouping(cp, groups)
  <2>1. \A g, h \in 1..m : g < h => groups[g].commits[1] < groups[h].commits[1]
    BY <1>7, <1>10
  <2>2. \A k \in 1..n : \E g \in 1..m : k \in Range(groups[g].commits)
    BY <1>7, <1>11
  <2>3. \A g, h \in 1..m : \A j \in Range(groups[g].commits) :
           \A k \in Range(groups[h].commits) : Linked(cp, j, k) <=> g = h
    BY <1>7, <1>9
  <2> QED
    BY <1>2, <1>5, <1>6, <1>7, <1>8, <1>12, <2>1, <2>2, <2>3 DEF Grouping
<1> QED
  BY <1>13 DEF groups

\* Commits that share a path are linked.
LEMMA OverlapLinks ==
    ASSUME NEW cp, NEW j \in DOMAIN cp, NEW k \in DOMAIN cp, cp[j] \cap cp[k] # {}
    PROVE  Linked(cp, j, k)
BY DEF Linked, Closed

\* build_groups finds the connected components, and nothing it calls an
\* internal error.
LEMMA GroupingIsSound ==
    ASSUME NEW cp, NEW groups, Grouping(cp, groups),
           \A k \in DOMAIN cp : cp[k] # {},
           NEW observed, observed = UNION {cp[k] : k \in DOMAIN cp}
    PROVE  ~ InternalError(groups, observed)
<1> DEFINE of(g) == Range(groups[g].commits)
<1>1. \A g \in DOMAIN groups :
         /\ groups[g].paths = UNION {cp[k] : k \in of(g)}
         /\ groups[g].commits[1] \in of(g)
         /\ of(g) \subseteq DOMAIN cp
  <2> TAKE g \in DOMAIN groups
  <2>1. /\ groups[g].paths = UNION {cp[k] : k \in of(g)}
        /\ groups[g].commits[1] \in of(g)
        /\ groups[g].commits \in Seq(DOMAIN cp)
    BY DEF Grouping
  <2> DEFINE a == groups[g].commits
  <2>2. DOMAIN a = 1..Len(a) /\ \A i \in 1..Len(a) : a[i] \in DOMAIN cp
    BY <2>1, LenProperties, ElementOfSeq
  <2>3. Range(a) \subseteq DOMAIN cp
    BY <2>2 DEF Range
  <2> QED
    BY <2>1, <2>3
<1>2. \A k \in DOMAIN cp : \E g \in DOMAIN groups : k \in of(g)
  BY DEF Grouping
<1>3. \A g, h \in DOMAIN groups : \A j \in of(g) : \A k \in of(h) :
         Linked(cp, j, k) <=> g = h
  BY DEF Grouping
<1> HIDE DEF of
<1>4. \A g \in DOMAIN groups : groups[g].paths # {} /\ groups[g].paths \subseteq observed
  BY <1>1
<1>5. ASSUME NEW g \in DOMAIN groups, NEW h \in DOMAIN groups, g # h
      PROVE  groups[g].paths \cap groups[h].paths = {}
  <2> SUFFICES ASSUME NEW path \in groups[g].paths, path \in groups[h].paths
               PROVE  FALSE
    OBVIOUS
  <2>1. PICK j \in of(g) : path \in cp[j]
    BY <1>1
  <2>2. PICK k \in of(h) : path \in cp[k]
    BY <1>1
  <2>3. Linked(cp, j, k)
    BY <1>1, <2>1, <2>2, OverlapLinks
  <2> QED
    BY <1>3, <1>5, <2>3
<1>6. UNION {groups[g].paths : g \in DOMAIN groups} = observed
  <2>1. \A path \in observed : \E g \in DOMAIN groups : path \in groups[g].paths
    BY <1>1, <1>2
  <2> QED
    BY <1>4, <2>1
<1> QED
  BY <1>4, <1>5, <1>6 DEF InternalError

\* The groups are the connected components.
LEMMA GroupingIsComponents ==
    ASSUME NEW cp, NEW groups, Grouping(cp, groups),
           \A k \in DOMAIN cp : cp[k] # {}
    PROVE  AreComponents(groups, cp)
<1>1. UNION Range(cp) = UNION {cp[k] : k \in DOMAIN cp}
  BY DEF Range
<1>2. ~ InternalError(groups, UNION Range(cp))
  BY <1>1, GroupingIsSound
<1>3. ASSUME NEW j \in DOMAIN cp, NEW k \in DOMAIN cp
      PROVE  Linked(cp, j, k) <=>
                \E g \in DOMAIN groups : {j, k} \subseteq Range(groups[g].commits)
  <2>1. PICK g \in DOMAIN groups : j \in Range(groups[g].commits)
    BY DEF Grouping
  <2>2. PICK h \in DOMAIN groups : k \in Range(groups[h].commits)
    BY DEF Grouping
  <2>3. \A a, b \in DOMAIN groups : \A x \in Range(groups[a].commits) :
           \A y \in Range(groups[b].commits) : Linked(cp, x, y) <=> a = b
    BY DEF Grouping
  <2>4. Linked(cp, j, k) => g = h
    BY <2>1, <2>2, <2>3
  <2>5. \A a \in DOMAIN groups : {j, k} \subseteq Range(groups[a].commits)
           => Linked(cp, j, k)
    BY <2>3
  <2> QED
    BY <2>1, <2>2, <2>4, <2>5
<1>4. \A g, h \in DOMAIN groups :
         g < h => groups[g].commits[1] < groups[h].commits[1]
  BY DEF Grouping
<1> QED
  BY <1>2, <1>3, <1>4 DEF AreComponents

\* The commits given to be grouped, each of which touches some path.
GroupsIInv == subject = "groups" => sample \in Seq((SUBSET CommitPaths) \ {{}})

\* docs/predictive-dataset.md:54-60: build_groups finds exactly the connected
\* components of the overlap graph, whatever the commits.
THEOREM GroupsAreConnectedComponents == MCSpec => []GroupsAreComponents
<1>1. MCInit => GroupsIInv
  BY DEF MCInit, GroupsIInv
<1>2. GroupsIInv /\ [MCNext]_mcvars => GroupsIInv'
  <2> SUFFICES ASSUME GroupsIInv, [MCNext]_mcvars PROVE GroupsIInv'
    OBVIOUS
  <2>1. CASE Extraction
    BY <2>1 DEF Extraction, GroupsIInv
  <2>2. CASE AddCommit
    BY <2>2, AppendProperties DEF AddCommit, GroupsIInv
  <2>3. CASE StartRecord
    BY <2>3 DEF StartRecord, GroupsIInv
  <2>4. CASE AddPath
    BY <2>4 DEF AddPath, GroupsIInv
  <2>5. CASE UNCHANGED mcvars
    BY <2>5 DEF mcvars, GroupsIInv
  <2> QED
    BY <2>1, <2>2, <2>3, <2>4, <2>5 DEF MCNext
<1>3. GroupsIInv => GroupsAreComponents
  <2> SUFFICES ASSUME sample \in Seq((SUBSET CommitPaths) \ {{}})
               PROVE  AreComponents(BuildGroups(sample), sample)
    BY DEF GroupsIInv, GroupsAreComponents
  <2>1. sample \in Seq(SUBSET CommitPaths) /\ \A k \in DOMAIN sample : sample[k] # {}
    <3> DEFINE S == (SUBSET CommitPaths) \ {{}}
               T == SUBSET CommitPaths
    <3>1. S \subseteq T /\ \A x \in S : x # {}
      OBVIOUS
    <3> HIDE DEF S, T
    <3>2. sample \in Seq(S)
      BY DEF S
    <3>3. sample \in Seq(T) /\ \A k \in DOMAIN sample : sample[k] \in S
      BY <3>1, <3>2, SeqOfMore
    <3> QED
      BY <3>1, <3>3 DEF T
  <2>2. Window(CommitPaths, sample)
    BY <2>1, ResearchAssumption DEF Window
  <2> QED
    BY <2>1, <2>2, GroupsAre, GroupingIsComponents
<1> QED
  BY <1>1, <1>2, <1>3, PTL DEF MCSpec

-----------------------------------------------------------------------------
(* What extract checks rules the internal errors out. *)

\* A path that differs between the ends of a window differs at some commit.
LEMMA WindowChanges ==
    ASSUME NEW from, NEW to, NEW w \in Seq(Nat), FirstParentWindow(from, w, to),
           EligibleHistory(HistoricalCommitPaths(from, w), Changed(from, to))
    PROVE  LET cp == HistoricalCommitPaths(from, w) IN
           /\ cp \in Seq(SUBSET Paths) /\ Window(Paths, cp)
           /\ DOMAIN cp = DOMAIN w /\ DOMAIN w = 1..Len(w) /\ Len(w) \in Nat
           /\ \A k \in DOMAIN cp : cp[k] # {}
           /\ Changed(from, to) = UNION {cp[k] : k \in DOMAIN cp}
<1> DEFINE n == Len(w)
           before(k) == IF k = 1 THEN from ELSE w[k - 1]
           cp == HistoricalCommitPaths(from, w)
<1>1. n \in Nat /\ DOMAIN w = 1..n /\ w # << >> /\ to = w[n] /\ n # 0
  <2>1. n \in Nat /\ DOMAIN w = 1..n /\ w # << >> /\ to = w[n]
    BY LenProperties DEF FirstParentWindow, Last
  <2> QED
    BY <2>1, EmptySeq
<1>2. cp = [k \in 1..n |-> Changed(before(k), w[k])]
  BY <1>1 DEF HistoricalCommitPaths
<1>3. \A a, b : Changed(a, b) \in SUBSET Paths
  BY DEF Changed
<1> HIDE DEF n, before
<1>4. cp \in Seq(SUBSET Paths) /\ DOMAIN cp = 1..n
      /\ \A k \in 1..n : cp[k] = Changed(before(k), w[k])
  BY <1>1, <1>2, <1>3
<1> HIDE DEF cp
<1>5. Window(Paths, cp)
  BY <1>4, ExtractAssumption DEF Window
<1>6. \A k \in 1..n : cp[k] # {} /\ cp[k] \subseteq Changed(from, to)
  BY <1>4 DEF EligibleHistory, cp
<1>7. ASSUME NEW path \in Changed(from, to), \A k \in 1..n : path \notin cp[k]
      PROVE  FALSE
  <2> DEFINE Good == {k \in 0..n : k # 0 => Tree(w[k])[path] = Tree(from)[path]}
  <2>1. 0 \in Good
    BY <1>1
  <2>2. ASSUME NEW k \in 1..n, k - 1 \in Good
        PROVE  k \in Good
    <3>1. path \in Paths
      BY <1>3
    <3>2. Tree(before(k))[path] = Tree(w[k])[path]
      BY <1>4, <1>7, <3>1 DEF Changed
    <3>3. CASE k = 1
      BY <1>1, <3>2, <3>3 DEF before
    <3>4. CASE k # 1
      <4>1. k - 1 # 0 /\ k \in 0..n
        BY <1>1, <3>4
      <4>2. Tree(w[k - 1])[path] = Tree(from)[path]
        BY <2>2, <4>1
      <4> QED
        BY <3>2, <3>4, <4>1, <4>2 DEF before
    <3> QED
      BY <3>3, <3>4
  <2>3. Good = 0..n
    <3>1. Good \in SUBSET (0..n)
      OBVIOUS
    <3> HIDE DEF Good
    <3> QED
      BY <1>1, <2>1, <2>2, <3>1, EveryStep
  <2>4. n \in Good
    <3> HIDE DEF Good
    <3> QED
      BY <1>1, <2>3
  <2> QED
    BY <1>1, <1>7, <2>4 DEF Changed
<1>8. Changed(from, to) = UNION {cp[k] : k \in 1..n}
  BY <1>6, <1>7
<1> QED
  BY <1>1, <1>4, <1>5, <1>6, <1>8 DEF n, cp

-----------------------------------------------------------------------------
(* What validate_record accepts has a target. *)

\* The paths of the groups, the ids of the paths and those of the groups.
PathsOf(groups) == [g \in DOMAIN groups |-> groups[g].paths]

IdsOf(paths) == [i \in DOMAIN paths |-> paths[i].id]

GroupIdsOf(groups) == [g \in DOMAIN groups |-> groups[g].id]

\* What validate_record and target_partition take from each group or path.
LEMMA Columns ==
    /\ \A groups : /\ Assigned(groups) = FlattenSeq(PathsOf(groups))
                   /\ Column(groups, LAMBDA g : g.id) = GroupIdsOf(groups)
    /\ \A paths : Column(paths, LAMBDA p : p.id) = IdsOf(paths)
BY DEF Assigned, Column, PathsOf, IdsOf, GroupIdsOf

\* target_partition finds nothing wrong with what validate_record accepts.
LEMMA ValidHasTarget ==
    ASSUME NEW r, ValidateRecord(r), NEW S, PathsOf(r.groups) \in Seq(Seq(S))
    PROVE  LET ids == IdsOf(r.paths)
               groupsOf(id) == {g \in DOMAIN r.groups : id \in Range(r.groups[g].paths)}
           IN /\ \A i \in DOMAIN ids : groupsOf(ids[i]) # {}
              /\ TargetPartition(r) = Ok([i \in DOMAIN ids |-> Min(groupsOf(ids[i])) - 1])
              /\ TargetPartition(r) # Failure
<1> DEFINE ids == IdsOf(r.paths)
           q == PathsOf(r.groups)
           groupsOf(id) == {g \in DOMAIN r.groups : id \in Range(r.groups[g].paths)}
           target == [i \in DOMAIN ids |-> Min(groupsOf(ids[i])) - 1]
<1>1. /\ IsInjective(ids) /\ IsInjective(Assigned(r.groups))
      /\ Range(Assigned(r.groups)) = Range(ids)
  <2>1. /\ IsInjective(Column(r.paths, LAMBDA p : p.id))
        /\ IsInjective(Assigned(r.groups))
        /\ Range(Assigned(r.groups)) = Range(Column(r.paths, LAMBDA p : p.id))
    BY Zenon DEF ValidateRecord, ValidateObservation
  <2>2. Column(r.paths, LAMBDA p : p.id) = ids
    BY Columns
  <2> QED
    BY <2>1, <2>2
<1>2. Range(Assigned(r.groups)) = UNION {Range(x) : x \in Range(q)}
  BY Columns, RangeOfFlatten
<1>3. ASSUME NEW i \in DOMAIN ids
      PROVE  groupsOf(ids[i]) # {}
  <2>1. ids[i] \in UNION {Range(x) : x \in Range(q)}
    BY <1>1, <1>2 DEF Range
  <2>2. PICK x \in Range(q) : ids[i] \in Range(x)
    BY <2>1
  <2>3. PICK g \in DOMAIN r.groups : x = r.groups[g].paths
    BY <2>2 DEF Range, PathsOf
  <2>4. g \in groupsOf(ids[i])
    BY <2>2, <2>3
  <2> QED
    BY <2>4
<1>4. TargetPartition(r) = Ok(target)
  <2>1. TargetPartition(r) =
            IF /\ IsInjective(Column(r.paths, LAMBDA p : p.id))
               /\ IsInjective(Assigned(r.groups))
               /\ Range(Assigned(r.groups)) \subseteq Range(Column(r.paths, LAMBDA p : p.id))
               /\ \A i \in DOMAIN Column(r.paths, LAMBDA p : p.id) :
                     groupsOf(Column(r.paths, LAMBDA p : p.id)[i]) # {}
            THEN Ok([i \in DOMAIN Column(r.paths, LAMBDA p : p.id) |->
                        Min(groupsOf(Column(r.paths, LAMBDA p : p.id)[i])) - 1])
            ELSE Failure
    BY Zenon DEF TargetPartition
  <2>2. Column(r.paths, LAMBDA p : p.id) = ids
    BY Columns
  <2> HIDE DEF ids, groupsOf
  <2> QED
    BY <1>1, <1>3, <2>1, <2>2
<1>5. Ok(target) # Failure
  <2> HIDE DEF target
  <2> QED
    BY DEF Ok, Failure
<1> QED
  BY <1>3, <1>4, <1>5

-----------------------------------------------------------------------------
(* Every record is accepted. *)

\* Along a window the commits' numbers go up.
LEMMA WindowIncreases ==
    ASSUME WellFormed(history), NEW from, NEW to,
           NEW w \in Seq(DOMAIN history), FirstParentWindow(from, w, to)
    PROVE  IsInjective(w)
<1> DEFINE n == Len(w)
<1>1. n \in Nat /\ DOMAIN w = 1..n /\ \A k \in 1..n : w[k] \in DOMAIN history
  BY LenProperties, ElementOfSeq
<1> HIDE DEF n
<1>2. \A k \in 1..n : w[k] \in Nat
  BY <1>1, ParentsBefore
<1>3. ASSUME NEW k \in 1..n, k # 1
      PROVE  w[k - 1] < w[k]
  <2>1. Parents(w[k]) = <<w[k - 1]>>
    BY <1>1, <1>3 DEF FirstParentWindow
  <2>2. w[k - 1] \in Range(Parents(w[k]))
    <3>1. 1 \in DOMAIN <<w[k - 1]>> /\ <<w[k - 1]>>[1] = w[k - 1]
      OBVIOUS
    <3> QED
      BY <2>1, <3>1 DEF Range
  <2> QED
    BY <1>1, <2>2, ParentsBefore
<1>4. ASSUME NEW i \in 1..n
      PROVE  \A j \in 1..n : i < j => w[i] < w[j]
  <2> DEFINE Good == {j \in 0..n : i < j => w[i] < w[j]}
  <2>1. 0 \in Good
    BY <1>1
  <2>2. ASSUME NEW j \in 1..n, j - 1 \in Good
        PROVE  j \in Good
    <3> SUFFICES ASSUME i < j PROVE w[i] < w[j]
      BY <1>1
    <3> DEFINE x == w[i]
               y == w[j - 1]
               z == w[j]
    <3>1. j # 1 /\ (i = j - 1 \/ i < j - 1) /\ j - 1 \in 1..n
      BY <1>1
    <3>2. y < z /\ x \in Nat /\ y \in Nat /\ z \in Nat
      BY <1>2, <1>3, <3>1
    <3>3. x = y \/ x < y
      BY <2>2, <3>1
    <3> HIDE DEF x, y, z
    <3>4. x < z
      BY <3>2, <3>3
    <3> QED
      BY <3>4 DEF x, z
  <2>3. Good = 0..n
    <3>1. Good \in SUBSET (0..n)
      OBVIOUS
    <3> HIDE DEF Good
    <3> QED
      BY <1>1, <2>1, <2>2, <3>1, EveryStep
  <2> QED
    BY <1>1, <2>3
<1>5. ASSUME NEW i \in 1..n, NEW j \in 1..n, w[i] = w[j]
      PROVE  i = j
  <2>1. ~ i < j /\ ~ j < i
    <3> DEFINE x == w[i]
               y == w[j]
    <3>1. (i < j => x < y) /\ (j < i => y < x) /\ x = y /\ x \in Nat
      BY <1>2, <1>4, <1>5
    <3> HIDE DEF x, y
    <3> QED
      BY <3>1
  <2> QED
    BY <1>1, <2>1
<1> QED
  BY <1>1, <1>5 DEF IsInjective

\* The last place of a byte in a text.
LEMMA LastOccurrenceIs ==
    ASSUME NEW S, NEW text \in Seq(S), NEW byte
    PROVE  LET o == LastOccurrence(text, byte) IN
           /\ o \in 0..Len(text)
           /\ o # 0 => text[o] = byte
           /\ \A i \in 1..Len(text) : text[i] = byte => i <= o
<1> DEFINE n == Len(text)
           found == Occurrences(text, byte)
           T == {0} \cup found
           o == Max(T)
<1>1. n \in Nat /\ DOMAIN text = 1..n
  BY LenProperties
<1>2. \A i : i \in found <=> i \in 1..n /\ text[i] = byte
  BY <1>1 DEF Occurrences
<1> HIDE DEF found, n
<1>3. o \in T /\ \A i \in T : i <= o
  <2>1. \E x \in T : \A y \in T : x >= y
    <3>1. CASE found = {}
      BY <3>1
    <3>2. CASE found # {}
      <4>1. found \in SUBSET (1..n)
        BY <1>2
      <4>2. Max(found) \in found /\ \A y \in found : y <= Max(found)
        BY <1>1, <3>2, <4>1, MaxOfInterval
      <4>3. \A y \in found : y \in Nat /\ y >= 1
        BY <1>1, <4>1
      <4> DEFINE x == Max(found)
      <4>4. x \in T /\ x \in Nat /\ x >= 1 /\ \A y \in found : y <= x
        BY <4>2, <4>3
      <4> HIDE DEF x
      <4>5. \A y \in T : x >= y
        BY <4>3, <4>4
      <4> QED
        BY <4>4, <4>5
    <3> QED
      BY <3>1, <3>2
  <2>2. Max(T) \in T /\ \A y \in T : Max(T) >= y
    BY <2>1, Zenon DEF Max
  <2>3. \A y \in T : y \in Nat
    BY <1>1, <1>2
  <2> HIDE DEF T
  <2>4. o \in T /\ \A y \in T : o >= y
    BY <2>2
  <2> HIDE DEF o
  <2> QED
    BY <2>3, <2>4
<1>4. LastOccurrence(text, byte) = o
  BY DEF LastOccurrence, found
<1> HIDE DEF o
<1>5. /\ o \in 0..n
      /\ o # 0 => text[o] = byte
      /\ \A i \in 1..n : text[i] = byte => i <= o
  BY <1>1, <1>2, <1>3
<1> QED
  BY <1>4, <1>5 DEF n

\* What a text ends with.
LEMMA EndOfText ==
    ASSUME NEW S, NEW text \in Seq(S), NEW m \in 1..(Len(text) + 1)
    PROVE  LET t == SubSeq(text, m, Len(text)) IN
           /\ t \in Seq(S)
           /\ Len(t) = Len(text) - m + 1
           /\ \A i \in 1..Len(t) : t[i] = text[m + i - 1]
<1> DEFINE n == Len(text)
           t == SubSeq(text, m, n)
<1>1. n \in Nat /\ \A i \in 1..n : text[i] \in S
  BY LenProperties, ElementOfSeq
<1> HIDE DEF n
<1>2. m \in Int /\ n \in Int /\ \A i \in m..n : text[i] \in S
  BY <1>1 DEF n
<1>3. /\ t \in Seq(S)
      /\ Len(t) = IF m <= n THEN n - m + 1 ELSE 0
      /\ \A i \in 1..(n - m + 1) : t[i] = text[m + i - 1]
  BY <1>2, SubSeqProperties
<1> HIDE DEF t
<1>4. Len(t) = n - m + 1
  BY <1>1, <1>3 DEF n
<1> QED
  BY <1>3, <1>4 DEF t, n

\* The name of a file has no slash.
LEMMA FileNameIs ==
    ASSUME NEW S, NEW text \in Seq(S)
    PROVE  FileName(text) \in Seq(S \ {"/"})
<1> DEFINE slash == "/"
           n == Len(text)
           o == LastOccurrence(text, slash)
<1>1. n \in Nat /\ \A i \in 1..n : text[i] \in S
  BY LenProperties, ElementOfSeq
<1> HIDE DEF slash
<1>2. o \in 0..n /\ \A i \in 1..n : text[i] = slash => i <= o
  BY LastOccurrenceIs
<1>3. FileName(text) = SubSeq(text, o + 1, n)
  BY DEF FileName, slash
<1> HIDE DEF o, n
<1>4. \A i \in (o + 1)..n : text[i] \in S \ {slash}
  <2>1. \A i \in (o + 1)..n : i \in 1..n /\ ~ i <= o
    BY <1>1, <1>2
  <2> QED
    BY <1>1, <1>2, <2>1
<1>5. o + 1 \in Int /\ n \in Int
  BY <1>1, <1>2
<1>6. SubSeq(text, o + 1, n) \in Seq(S \ {slash})
  BY <1>4, <1>5, SubSeqProperties
<1> QED
  BY <1>3, <1>6 DEF slash

\* The suffix of a name begins with a dot that is not its first or last byte.
LEMMA SuffixIs ==
    ASSUME NEW S, NEW name \in Seq(S), NEW dot, dot = LastOccurrence(name, "."),
           dot \notin {0, 1, Len(name)}
    PROVE  LET suffix == SubSeq(name, dot, Len(name)) IN
           /\ suffix \in Seq(S)
           /\ Len(suffix) >= 2
           /\ suffix[1] = "."
<1> DEFINE mark == "."
           n == Len(name)
           suffix == SubSeq(name, dot, n)
<1>1. n \in Nat
  BY LenProperties
<1>2. dot \in 0..n /\ (dot # 0 => name[dot] = mark)
  BY LastOccurrenceIs
<1> HIDE DEF mark
<1>3. dot \in 1..n /\ dot <= n - 1 /\ dot \in 1..(n + 1)
  <2> HIDE DEF n
  <2>1. dot # 0 /\ dot # n
    BY DEF n
  <2> QED
    BY <1>1, <1>2, <2>1
<1>4. /\ suffix \in Seq(S) /\ Len(suffix) = n - dot + 1
      /\ \A i \in 1..Len(suffix) : suffix[i] = name[dot + i - 1]
  BY <1>3, EndOfText
<1> HIDE DEF suffix, n
<1>5. Len(suffix) >= 2 /\ 1 \in 1..Len(suffix) /\ dot + 1 - 1 = dot
  BY <1>1, <1>3, <1>4
<1>6. suffix[1] = mark
  BY <1>2, <1>3, <1>4, <1>5
<1> QED
  BY <1>4, <1>5, <1>6 DEF suffix, n, mark

\* path_suffix and validate_suffix: what is recorded of a name is accepted.
LEMMA SuffixesAgree ==
    ASSUME NEW text \in Seq(PathBytes) \ {<< >>},
           NEW path, path.encoding = EncodePath(text).encoding,
           path.value = EncodePath(text).value, path.suffix = PathSuffix(text)
    PROVE  /\ path.encoding \in {"utf8", "base64"}
           /\ path.value # << >>
           /\ ValidateSuffix(path)
<1> DEFINE name == FileName(text)
           dot == LastOccurrence(name, ".")
           suffix == SubSeq(name, dot, Len(name))
<1>1. PathSuffix(text) = IF dot \in {0, 1, Len(name)} \/ ~ IsUtf8(suffix)
                         THEN None ELSE suffix
  BY DEF PathSuffix
<1>2. CASE IsUtf8(text)
  <2> DEFINE S == PathBytes \ {"bad"}
  <2>1. path.encoding = "utf8" /\ path.value = text
    BY <1>2 DEF EncodePath
  <2>2. text \in Seq(S)
    <3>1. \A i \in 1..Len(text) : text[i] \in S
      <4>1. \A i \in 1..Len(text) : text[i] \in PathBytes /\ text[i] \in Range(text)
        BY LenProperties, ElementOfSeq DEF Range
      <4>2. "bad" \notin Range(text)
        BY <1>2 DEF IsUtf8
      <4> QED
        BY <4>1, <4>2, Zenon
    <3> HIDE DEF S
    <3>2. text = [i \in 1..Len(text) |-> text[i]] /\ Len(text) \in Nat
      BY LenProperties
    <3> QED
      BY <3>1, <3>2, SeqDef
  <2> DEFINE T == S \ {"/"}
  <2>3. name \in Seq(T)
    <3> HIDE DEF S
    <3> QED
      BY <2>2, FileNameIs
  <2>4. ~ dot \in {0, 1, Len(name)} => IsUtf8(suffix)
    <3> SUFFICES ASSUME ~ dot \in {0, 1, Len(name)} PROVE IsUtf8(suffix)
      OBVIOUS
    <3>1. suffix \in Seq(T)
      <4> HIDE DEF T, name
      <4> QED
        BY <2>3, SuffixIs
    <3>2. Range(suffix) \in SUBSET T
      <4> HIDE DEF T, suffix
      <4> QED
        BY <3>1, RangeOfSeq
    <3>3. "bad" \notin T
      OBVIOUS
    <3> HIDE DEF T, suffix
    <3> QED
      BY <3>2, <3>3 DEF IsUtf8
  <2>5. Utf8PathSuffix(text) = IF dot \in {0, 1, Len(name)} THEN None ELSE suffix
    BY DEF Utf8PathSuffix
  <2> HIDE DEF dot, name, suffix
  <2>6. path.suffix = Utf8PathSuffix(path.value)
    BY <1>1, <2>1, <2>4, <2>5
  <2> QED
    BY <2>1, <2>6 DEF ValidateSuffix
<1>3. CASE ~ IsUtf8(text)
  <2> DEFINE T == PathBytes \ {"/"}
  <2>1. path.encoding = "base64" /\ path.value = <<text>>
    BY <1>3 DEF EncodePath
  <2>2. name \in Seq(T)
    BY FileNameIs
  <2>3. ASSUME path.suffix # None
        PROVE  /\ Len(path.suffix) >= 2
               /\ path.suffix[1] = "."
               /\ {"/", "nul"} \cap Range(path.suffix) = {}
    <3>1. dot \notin {0, 1, Len(name)} /\ path.suffix = suffix
      <4> HIDE DEF dot, name, suffix
      <4> QED
        BY <1>1, <2>3
    <3>2. suffix \in Seq(T) /\ Len(suffix) >= 2 /\ suffix[1] = "."
      <4> HIDE DEF T, name
      <4> QED
        BY <2>2, <3>1, SuffixIs
    <3>3. Range(suffix) \in SUBSET T
      <4> HIDE DEF T, suffix
      <4> QED
        BY <3>2, RangeOfSeq
    <3>4. {"/", "nul"} \cap T = {}
      BY DEF PathBytes
    <3> HIDE DEF T, suffix
    <3>5. {"/", "nul"} \cap Range(suffix) = {}
      BY <3>3, <3>4
    <3> QED
      BY <3>1, <3>2, <3>5
  <2>4. path.encoding # "utf8"
    BY <2>1
  <2> HIDE DEF name, dot, suffix, T
  <2>5. ValidateSuffix(path)
    BY <2>3, <2>4, Zenon DEF ValidateSuffix
  <2> QED
    BY <2>1, <2>5
<1> QED
  BY <1>2, <1>3

\* path_depth is at least one.
LEMMA DepthIs ==
    ASSUME NEW S, NEW text \in Seq(S)
    PROVE  PathDepth(text) > 0
<1> DEFINE slashes == Occurrences(text, "/")
<1>1. DOMAIN text = 1..Len(text) /\ Len(text) \in Nat
  BY LenProperties
<1>2. slashes \in SUBSET (1..Len(text))
  BY <1>1 DEF Occurrences
<1>3. IsFiniteSet(1..Len(text))
  BY <1>1, FS_Interval
<1> HIDE DEF slashes
<1>4. Cardinality(slashes) \in Nat
  BY <1>2, <1>3, FS_Subset, FS_CardinalityType
<1> QED
  BY <1>4 DEF PathDepth, slashes

\* The observations of a record: their ids are the places of the paths.
LEMMA ObservationsAreValid ==
    ASSUME NEW from, NEW to, NEW b, Cardinality(Changed(from, to)) # 0
    PROVE  LET paths == Observations(from, to, b)
               n == Cardinality(Changed(from, to))
           IN /\ ValidateObservation(paths)
              /\ Range(IdsOf(paths)) = 1..n
<1> DEFINE S == Changed(from, to)
           n == Cardinality(S)
           a == Ascending(S)
           stat == NumStat(from, to, b)
           paths == Observations(from, to, b)
<1>1. S \in SUBSET Nat /\ IsFiniteSet(S)
  <2>1. S \in SUBSET Paths
    BY DEF Changed
  <2> HIDE DEF S
  <2> QED
    BY <2>1, ExtractAssumption, FS_Subset
<1>2. n \in Nat /\ DOMAIN a = 1..n /\ n # 0
  <2> HIDE DEF S
  <2>1. DOMAIN a = 1..n /\ Len(a) = n /\ Len(a) \in Nat
    BY <1>1, AscendingIs
  <2> QED
    BY <2>1 DEF S
<1>3. DOMAIN paths = 1..n
  <2> HIDE DEF S
  <2> QED
    BY <1>2 DEF Observations, S
<1>4. ASSUME NEW i \in 1..n
      PROVE  /\ paths[i].id = i
             /\ paths[i].value # << >>
             /\ paths[i].encoding \in {"utf8", "base64"}
             /\ paths[i].binary = (paths[i].lines = None)
             /\ paths[i].status \in {"added", "modified", "deleted", "type_changed"}
             /\ paths[i].path_depth > 0
             /\ ValidateSuffix(paths[i])
  <2> DEFINE text == Texts[a[i]]
             bin == stat[a[i]] = None
             low == a[i] \in LowValue
  <2>1. paths[i] = [id |-> i,
            path_depth |-> PathDepth(text),
            suffix |-> PathSuffix(text),
            encoding |-> EncodePath(text).encoding,
            value |-> EncodePath(text).value,
            status |-> Status(from, to, a[i]),
            binary |-> bin,
            lines |-> stat[a[i]],
            low_value |-> low]
    <3> HIDE DEF a, stat, n, S
    <3>1. paths = [j \in DOMAIN a |->
            [id |-> j,
            path_depth |-> PathDepth(Texts[a[j]]),
            suffix |-> PathSuffix(Texts[a[j]]),
            encoding |-> EncodePath(Texts[a[j]]).encoding,
            value |-> EncodePath(Texts[a[j]]).value,
            status |-> Status(from, to, a[j]),
            binary |-> stat[a[j]] = None,
            lines |-> stat[a[j]],
            low_value |-> a[j] \in LowValue]]
      BY Zenon DEF Observations, a, stat, S
    <3> QED
      BY <1>2, <3>1
  <2>2. Status(from, to, a[i]) \in {"added", "modified", "deleted", "type_changed"}
    BY DEF Status
  <2>3. text \in Seq(PathBytes) \ {<< >>}
    <3>1. a[i] \in S
      <4> HIDE DEF S
      <4>1. Range(a) = S /\ i \in DOMAIN a
        BY <1>1, <1>2, AscendingIs
      <4> HIDE DEF a
      <4> QED
        BY <4>1 DEF Range
    <3>2. a[i] \in Paths
      <4> HIDE DEF a
      <4> QED
        BY <3>1 DEF Changed
    <3> HIDE DEF a
    <3> QED
      BY <3>2, ExtractAssumption
  <2> HIDE DEF a, stat, n, S, text, bin, low
  <2>4. /\ paths[i].id = i
        /\ paths[i].path_depth = PathDepth(text)
        /\ paths[i].suffix = PathSuffix(text)
        /\ paths[i].encoding = EncodePath(text).encoding
        /\ paths[i].value = EncodePath(text).value
        /\ paths[i].status = Status(from, to, a[i])
        /\ paths[i].binary = bin
        /\ paths[i].lines = stat[a[i]]
    <3> HIDE DEF paths
    <3> QED
      BY <2>1
  <2> HIDE DEF paths
  <2>5. /\ paths[i].encoding \in {"utf8", "base64"} /\ paths[i].value # << >>
        /\ ValidateSuffix(paths[i])
    BY <2>3, <2>4, SuffixesAgree
  <2>6. paths[i].path_depth > 0
    BY <2>3, <2>4, DepthIs
  <2>7. paths[i].binary = (paths[i].lines = None)
    BY <2>4, Zenon DEF bin
  <2> QED
    BY <2>2, <2>4, <2>5, <2>6, <2>7, Zenon
<1> HIDE DEF paths, n
<1>5. IdsOf(paths) = [i \in 1..n |-> i]
  BY <1>3, <1>4 DEF IdsOf
<1>6. IsInjective(IdsOf(paths)) /\ Range(IdsOf(paths)) = 1..n
  BY <1>5 DEF IsInjective, Range
<1>7. paths # << >>
  <2>1. DOMAIN << >> = {} /\ 1 \in 1..n
    BY <1>2
  <2> QED
    BY <1>3, <2>1
<1>8. ValidateObservation(paths)
  <2>1. Column(paths, LAMBDA p : p.id) = IdsOf(paths)
    BY Columns
  <2> QED
    BY <1>3, <1>4, <1>6, <1>7, <2>1 DEF ValidateObservation
<1> QED
  BY <1>6, <1>8 DEF paths, n

\* The groups number their paths by I, which divides 1..n.
Numbering(tg, I, m, n) ==
    /\ \A g \in 1..m : I[g] \in SUBSET (1..n) /\ I[g] # {}
    /\ \A g, h \in 1..m : g # h => I[g] \cap I[h] = {}
    /\ \A i \in 1..n : \E g \in 1..m : i \in I[g]
    /\ DOMAIN tg = 1..m
    /\ \A g \in 1..m : /\ tg[g].id = g
                       /\ tg[g].paths = Ascending(I[g])
                       /\ tg[g].source_commit_oids # << >>
                       /\ IsInjective(tg[g].source_commit_oids)

\* Groups that divide 1..n among them pass the checks of validate_record.
LEMMA NumberedGroups ==
    ASSUME NEW n \in Nat, NEW m \in Nat, NEW I, NEW tg, Numbering(tg, I, m, n)
    PROVE  /\ ValidGroups(tg)
           /\ PathsOf(tg) \in Seq(Seq(Nat))
           /\ IsInjective(Assigned(tg))
           /\ Range(Assigned(tg)) = 1..n
<1> DEFINE q == PathsOf(tg)
<1> USE DEF Numbering
<1>1. ASSUME NEW g \in 1..m
      PROVE  /\ tg[g].paths \in Seq(Nat) /\ tg[g].paths # << >>
             /\ IsInjective(tg[g].paths)
             /\ Range(tg[g].paths) = I[g]
  <2> DEFINE T == I[g]
             a == tg[g].paths
  <2>1. a = Ascending(T)
    OBVIOUS
  <2>2. T \in SUBSET (1..n) /\ T # {}
    OBVIOUS
  <2> HIDE DEF T, a
  <2>3. T \in SUBSET Nat /\ IsFiniteSet(T)
    <3>1. 1..n \subseteq Nat
      OBVIOUS
    <3>2. IsFiniteSet(1..n)
      BY FS_Interval
    <3>3. IsFiniteSet(T)
      BY <2>2, <3>2, FS_Subset
    <3> QED
      BY <2>2, <3>1, <3>3
  <2>4. a \in Seq(T) /\ Range(a) = T /\ IsInjective(a) /\ 1 \in DOMAIN a
    BY <2>1, <2>2, <2>3, AscendingIs
  <2>5. a \in Seq(Nat)
    BY <2>3, <2>4, SeqOfMore
  <2>6. a # << >>
    <3>1. DOMAIN << >> = {}
      OBVIOUS
    <3> QED
      BY <2>4, <3>1
  <2> QED
    BY <2>4, <2>5, <2>6 DEF T, a
<1>2. /\ q \in Seq(Seq(Nat)) /\ DOMAIN q = 1..m
      /\ \A g \in 1..m : q[g] = tg[g].paths
  <2>1. q = [g \in 1..m |-> tg[g].paths]
    BY DEF PathsOf
  <2> HIDE DEF q
  <2>2. \A g \in 1..m : tg[g].paths \in Seq(Nat)
    BY <1>1
  <2>3. q \in [1..m -> Seq(Nat)]
    BY <2>1, <2>2
  <2>4. q \in Seq(Seq(Nat))
    BY <2>3, SeqDef
  <2> QED
    BY <2>1, <2>4
<1> HIDE DEF q
<1>3. \A g \in 1..m : IsInjective(q[g]) /\ Range(q[g]) = I[g]
  BY <1>1, <1>2
<1>4. Disjoint(q)
  <2>1. \A g, h \in 1..m : g # h => Range(q[g]) \cap Range(q[h]) = {}
    <3> TAKE g, h \in 1..m
    <3>1. Range(q[g]) = I[g] /\ Range(q[h]) = I[h]
      BY <1>3
    <3>2. g # h => I[g] \cap I[h] = {}
      OBVIOUS
    <3> QED
      BY Zenon, <3>1, <3>2
  <2> QED
    BY Zenon, <1>2, <1>3, <2>1 DEF Disjoint
<1>5. /\ Assigned(tg) = FlattenSeq(q)
      /\ Column(tg, LAMBDA g : g.id) = GroupIdsOf(tg)
  BY Columns DEF q
<1>6. IsInjective(Assigned(tg))
  BY <1>2, <1>4, <1>5, InjectiveFlatten
<1>7. Range(Assigned(tg)) = 1..n
  <2>1. Range(Assigned(tg)) = UNION {Range(x) : x \in Range(q)}
    BY <1>2, <1>5, RangeOfFlatten
  <2>2. Range(q) = {q[g] : g \in 1..m}
    BY <1>2 DEF Range
  <2>3. UNION {Range(x) : x \in Range(q)} = UNION {I[g] : g \in 1..m}
    <3>1. {Range(x) : x \in Range(q)} = {Range(q[g]) : g \in 1..m}
      BY <2>2
    <3>2. {Range(q[g]) : g \in 1..m} = {I[g] : g \in 1..m}
      BY <1>3
    <3> QED
      BY <3>1, <3>2
  <2>4. UNION {I[g] : g \in 1..m} = 1..n
    <3>1. \A g \in 1..m : I[g] \subseteq 1..n
      OBVIOUS
    <3>2. \A i \in 1..n : \E g \in 1..m : i \in I[g]
      OBVIOUS
    <3> DEFINE U == UNION {I[g] : g \in 1..m}
               N == 1..n
    <3>3. \A i \in U : i \in N
      BY <3>1
    <3>4. \A i \in N : i \in U
      BY <3>2
    <3>5. U = N
      <4> HIDE DEF U, N
      <4> QED
        BY <3>3, <3>4
    <3> QED
      BY <3>5
  <2> QED
    BY <2>1, <2>3, <2>4
<1>8. IsInjective(GroupIdsOf(tg))
  BY DEF GroupIdsOf, IsInjective
<1>9. ValidGroups(tg)
  <2>1. IsInjective(Column(tg, LAMBDA g : g.id))
    BY <1>5, <1>8
  <2>2. \A g \in DOMAIN tg : /\ tg[g].paths # << >>
                             /\ tg[g].source_commit_oids # << >>
                             /\ IsInjective(tg[g].source_commit_oids)
    BY <1>1
  <2> QED
    BY Zenon, <2>1, <2>2 DEF ValidGroups
<1> QED
  BY <1>2, <1>6, <1>7, <1>9 DEF q

\* The commits of a group, by their ids.
OidsOf(group, w) == [i \in DOMAIN group.commits |-> w[group.commits[i]]]

\* The groups of a record, built of those of build_groups.
GroupsOf(gs, S, w) ==
    [g \in DOMAIN gs |-> TargetGroup(g, gs[g].paths, S, OidsOf(gs[g], w))]

\* The groups of a record divide the places of its paths.
LEMMA TargetGroupsAreValid ==
    ASSUME NEW S \in SUBSET Nat, IsFiniteSet(S), NEW w, IsInjective(w),
           NEW cp, DOMAIN cp = DOMAIN w, NEW gs, Grouping(cp, gs),
           ~ InternalError(gs, S), NEW tg, tg = GroupsOf(gs, S, w)
    PROVE  /\ ValidGroups(tg)
           /\ PathsOf(tg) \in Seq(Seq(Nat))
           /\ IsInjective(Assigned(tg))
           /\ Range(Assigned(tg)) = 1..Cardinality(S)
<1> DEFINE m == Len(gs)
           n == Cardinality(S)
           ids(g) == {PathId(S, p) : p \in gs[g].paths}
           I == [g \in 1..m |-> ids(g)]
<1>1. m \in Nat /\ DOMAIN gs = 1..m
  BY DEF Grouping
<1>2. /\ \A g \in 1..m : gs[g].paths # {} /\ gs[g].paths \subseteq S
      /\ \A g, h \in 1..m : g # h => gs[g].paths \cap gs[h].paths = {}
      /\ UNION {gs[g].paths : g \in 1..m} = S
  BY <1>1 DEF InternalError
<1>3. /\ n \in Nat
      /\ \A x \in S : PathId(S, x) \in 1..n
      /\ \A x, y \in S : PathId(S, x) = PathId(S, y) => x = y
      /\ \A i \in 1..n : \E x \in S : PathId(S, x) = i
  BY PathIdIs
<1>4. DOMAIN tg = 1..m /\ \A g \in 1..m : tg[g] = TargetGroup(g, gs[g].paths, S, OidsOf(gs[g], w))
  BY <1>1 DEF GroupsOf
<1> HIDE DEF m, n
<1>5. \A g \in 1..m : /\ tg[g].id = g /\ tg[g].source_commit_oids = OidsOf(gs[g], w)
                      /\ tg[g].paths = Ascending(ids(g))
  <2> SUFFICES ASSUME NEW g \in 1..m
               PROVE  /\ tg[g].id = g /\ tg[g].source_commit_oids = OidsOf(gs[g], w)
                      /\ tg[g].paths = Ascending(ids(g))
    OBVIOUS
  <2> DEFINE oids == OidsOf(gs[g], w)
             paths == Ascending(ids(g))
  <2> HIDE DEF oids
  <2>1. tg[g] = [id |-> g, source_commit_oids |-> oids, paths |-> paths]
    BY <1>4, Zenon DEF TargetGroup, oids
  <2> HIDE DEF paths
  <2>2. tg[g].id = g /\ tg[g].source_commit_oids = oids /\ tg[g].paths = paths
    BY <2>1
  <2> QED
    BY <2>2 DEF oids, paths
<1>6. ASSUME NEW g \in 1..m
      PROVE  OidsOf(gs[g], w) # << >> /\ IsInjective(OidsOf(gs[g], w))
  <2> DEFINE a == gs[g].commits
             o == OidsOf(gs[g], w)
  <2>1. a \in Seq(DOMAIN cp) /\ a # << >> /\ IsInjective(a)
    BY <1>1 DEF Grouping
  <2>2. o = [i \in DOMAIN a |-> w[a[i]]]
    BY DEF OidsOf
  <2> HIDE DEF a, o
  <2>3. DOMAIN a = 1..Len(a) /\ Len(a) \in Nat /\ \A i \in DOMAIN a : a[i] \in DOMAIN w
    BY <2>1, SeqOfMore
  <2>4. Len(a) # 0
    BY <2>1, EmptySeq
  <2>5. o # << >>
    <3>1. DOMAIN << >> = {} /\ 1 \in DOMAIN a
      BY <2>3, <2>4
    <3> QED
      BY <2>2, <3>1
  <2>6. IsInjective(o)
    <3>1. \A i, j \in DOMAIN a : w[a[i]] = w[a[j]] => i = j
      BY <2>1, <2>3 DEF IsInjective
    <3> QED
      BY <2>2, <3>1 DEF IsInjective
  <2> QED
    BY <2>5, <2>6 DEF o
<1>7. /\ \A g \in 1..m : I[g] \in SUBSET (1..n) /\ I[g] # {}
      /\ \A g, h \in 1..m : g # h => I[g] \cap I[h] = {}
      /\ \A i \in 1..n : \E g \in 1..m : i \in I[g]
  <2> DEFINE P(g) == gs[g].paths
  <2>1. \A g \in 1..m : I[g] = {PathId(S, p) : p \in P(g)}
    OBVIOUS
  <2> HIDE DEF P, I
  <2>2. /\ \A g \in 1..m : P(g) # {} /\ P(g) \subseteq S
        /\ \A g, h \in 1..m : g # h => P(g) \cap P(h) = {}
        /\ \A x \in S : \E g \in 1..m : x \in P(g)
    BY <1>2 DEF P
  <2>3. \A g \in 1..m : I[g] \in SUBSET (1..n) /\ I[g] # {}
    <3> TAKE g \in 1..m
    <3>1. P(g) # {} /\ P(g) \subseteq S /\ I[g] = {PathId(S, p) : p \in P(g)}
      BY <2>1, <2>2
    <3>2. \A p \in P(g) : PathId(S, p) \in 1..n
      BY <1>3, <3>1
    <3>3. I[g] \subseteq 1..n
      BY Zenon, <3>1, <3>2
    <3>4. \E p : p \in P(g)
      BY <3>1
    <3>5. \E i : i \in I[g]
      BY Zenon, <3>1, <3>4
    <3> QED
      BY Zenon, <3>3, <3>5
  <2>4. ASSUME NEW g \in 1..m, NEW h \in 1..m, g # h, NEW i \in I[g] \cap I[h]
        PROVE  FALSE
    <3>1. PICK x \in P(g) : i = PathId(S, x)
      BY <2>1, <2>4
    <3>2. PICK y \in P(h) : i = PathId(S, y)
      BY <2>1, <2>4
    <3>3. x = y
      BY <1>3, <2>2, <3>1, <3>2
    <3> QED
      BY <2>2, <2>4, <3>3
  <2>5. ASSUME NEW i \in 1..n
        PROVE  \E g \in 1..m : i \in I[g]
    <3>1. PICK x \in S : PathId(S, x) = i
      BY <1>3
    <3>2. PICK g \in 1..m : x \in P(g)
      BY <2>2
    <3> QED
      BY <2>1, <3>1, <3>2
  <2> QED
    BY <2>3, <2>4, <2>5
<1>8. \A g \in 1..m : ids(g) = I[g]
  OBVIOUS
<1> HIDE DEF I, ids
<1>9. \A g \in 1..m : /\ tg[g].id = g
                      /\ tg[g].paths = Ascending(I[g])
                      /\ tg[g].source_commit_oids # << >>
                      /\ IsInjective(tg[g].source_commit_oids)
  BY <1>5, <1>6, <1>8
<1>10. DOMAIN tg = 1..m /\ m \in Nat /\ n \in Nat
  BY <1>1, <1>3, <1>4 DEF m
<1>11. /\ ValidGroups(tg)
       /\ PathsOf(tg) \in Seq(Seq(Nat))
       /\ IsInjective(Assigned(tg))
       /\ Range(Assigned(tg)) = 1..n
  <2>1. Numbering(tg, I, m, n)
    BY Zenon, <1>7, <1>9, <1>10 DEF Numbering
  <2> QED
    BY <1>10, <2>1, NumberedGroups
<1> QED
  BY <1>11 DEF n

\* What extract checked makes the record one that the baselines accept.
LEMMA EligibleIsAccepted ==
    ASSUME WellFormed(history), NEW from \in DOMAIN history,
           NEW to \in DOMAIN history, NEW c, NEW b,
           FirstParentWindow(from, RevList(from, to), to),
           Cardinality(Changed(from, to)) # 0,
           EligibleHistory(HistoricalCommitPaths(from, RevList(from, to)),
                           Changed(from, to))
    PROVE  LET cp == HistoricalCommitPaths(from, RevList(from, to))
               r == Record(from, to, c, b)
           IN /\ ~ InternalError(BuildGroups(cp), Changed(from, to))
              /\ ValidateRecord(r)
              /\ TargetPartition(r) # Failure
<1> DEFINE w == RevList(from, to)
           cp == HistoricalCommitPaths(from, w)
           S == Changed(from, to)
           gs == BuildGroups(cp)
           tg == TargetGroups(cp, S, w)
           r == Record(from, to, c, b)
<1>1. w \in Seq(DOMAIN history) /\ w \in Seq(Nat)
  <2>1. w \in Seq(DOMAIN history)
    BY RevListStep
  <2>2. DOMAIN history \subseteq Nat
    BY ParentsBefore
  <2> HIDE DEF w
  <2> QED
    BY <2>1, <2>2, SeqOfMore
<1>2. IsInjective(w)
  BY <1>1, WindowIncreases
<1>3. /\ Window(Paths, cp) /\ DOMAIN cp = DOMAIN w
      /\ \A k \in DOMAIN cp : cp[k] # {}
      /\ S = UNION {cp[k] : k \in DOMAIN cp}
  <2> HIDE DEF w
  <2> QED
    BY <1>1, WindowChanges DEF w
<1>4. S \in SUBSET Nat /\ IsFiniteSet(S)
  <2>1. S \in SUBSET Paths
    BY DEF Changed
  <2> HIDE DEF S
  <2> QED
    BY <2>1, ExtractAssumption, FS_Subset
<1>5. Grouping(cp, gs)
  <2> HIDE DEF cp
  <2> QED
    BY <1>3, GroupsAre
<1>6. ~ InternalError(gs, S)
  <2> HIDE DEF cp, gs, S
  <2> QED
    BY <1>3, <1>5, GroupingIsSound
<1>7. /\ ValidGroups(tg) /\ PathsOf(tg) \in Seq(Seq(Nat))
      /\ IsInjective(Assigned(tg)) /\ Range(Assigned(tg)) = 1..Cardinality(S)
  <2>1. tg = GroupsOf(gs, S, w)
    <3> HIDE DEF cp, w, S
    <3> QED
      BY Zenon DEF TargetGroups, GroupsOf, OidsOf
  <2> HIDE DEF tg, gs, w, cp, S
  <2> QED
    BY <1>2, <1>3, <1>4, <1>5, <1>6, <2>1, TargetGroupsAreValid
<1>8. /\ ValidateObservation(Observations(from, to, b))
      /\ Range(IdsOf(Observations(from, to, b))) = 1..Cardinality(S)
  BY ObservationsAreValid
<1>9. /\ r.schema = "v1" /\ r.paths = Observations(from, to, b) /\ r.groups = tg
  <2> HIDE DEF w, cp, S, tg
  <2>1. Record(from, to, c, b) =
           [schema |-> "v1", sample_id |-> SampleId(from, w, c),
            paths |-> Observations(from, to, b), groups |-> tg,
            window |-> w, low_value_profile |-> "default"]
    BY Zenon DEF Record, w, tg, cp, S
  <2> QED
    BY <2>1
<1> HIDE DEF r, tg, S
<1>10. ValidateRecord(r)
  <2>1. Column(r.paths, LAMBDA p : p.id) = IdsOf(r.paths)
    BY Columns
  <2>2. Range(Assigned(r.groups)) = Range(Column(r.paths, LAMBDA p : p.id))
    BY <1>7, <1>8, <1>9, <2>1
  <2> QED
    BY Zenon, <1>7, <1>8, <1>9, <2>2 DEF ValidateRecord
<1>11. TargetPartition(r) # Failure
  BY <1>7, <1>9, <1>10, ValidHasTarget
<1> QED
  BY <1>6, <1>10, <1>11 DEF r, S

\* A record that is there passed what the baselines check, and build_groups
\* found no internal error.
AcceptedIInv == WindowIInv /\ RecordsAreAccepted /\ NoInternalError

\* There is no record at first.
LEMMA AcceptedInit == Init => AcceptedIInv
BY WindowInit DEF Init, Fresh, AcceptedIInv, RecordsAreAccepted, NoInternalError

\* The step that makes the record has checked what it needs.
LEMMA AcceptedStep ==
    ASSUME AcceptedIInv, [Next]_vars
    PROVE  AcceptedIInv'
<1> USE DEF AcceptedIInv, repository, locals, Ends, End, Require
<1>0. WindowIInv' /\ pc # "internal_error"
  BY WindowStep DEF NoInternalError
<1>1. ASSUME UNCHANGED record, pc' # "internal_error"
      PROVE  AcceptedIInv'
  BY <1>0, <1>1 DEF RecordsAreAccepted, NoInternalError
<1>2. CASE ResolveBase
  BY <1>1, <1>2 DEF ResolveBase
<1>3. CASE ResolveTip
  BY <1>1, <1>3 DEF ResolveTip
<1>4. CASE ValidateAttributeIsolation
  BY <1>1, <1>4 DEF ValidateAttributeIsolation
<1>5. CASE Observe
  <2> DEFINE S == Changed(base, tip)
             w == RevList(base, tip)
             cp == HistoricalCommitPaths(base, w)
             checked == /\ FirstParentWindow(base, w, tip)
                        /\ Cardinality(S) \in 1..config.max_paths
                        /\ EligibleHistory(cp, S)
  <2>1. /\ pc = "observe"
        /\ pc' \in {"ineligible", "internal_error", "create"}
        /\ pc' # "ineligible" => checked
        /\ pc' = "internal_error" => InternalError(BuildGroups(cp), S)
        /\ record' = IF pc' = "create" THEN Record(base, tip, config, attributes)
                     ELSE None
    BY <1>5 DEF Observe
  <2>2. ASSUME checked
        PROVE  /\ ~ InternalError(BuildGroups(cp), S)
               /\ ValidateRecord(Record(base, tip, config, attributes))
               /\ TargetPartition(Record(base, tip, config, attributes)) # Failure
    <3>1. Cardinality(S) # 0
      BY <2>2
    <3>2. WellFormed(history) /\ base \in DOMAIN history /\ tip \in DOMAIN history
      BY <2>1 DEF WindowIInv
    <3> QED
      BY <2>2, <3>1, <3>2, EligibleIsAccepted
  <2> HIDE DEF S, w, cp, checked
  <2>3. pc' # "internal_error"
    BY <2>1, <2>2
  <2>4. CASE pc' = "create"
    <3>1. /\ record' = Record(base, tip, config, attributes) /\ checked
      BY <2>1, <2>4
    <3>2. ValidateRecord(record') /\ TargetPartition(record') # Failure
      BY <2>2, <3>1
    <3>3. RecordsAreAccepted'
      BY <3>2 DEF RecordsAreAccepted
    <3> QED
      BY <1>0, <2>3, <3>3 DEF NoInternalError
  <2>5. CASE pc' # "create"
    <3>1. record' = None
      BY <2>1, <2>5
    <3> QED
      BY <1>0, <2>3, <3>1 DEF RecordsAreAccepted, NoInternalError
  <2> QED
    BY <2>4, <2>5
<1>6. CASE CreateOutput
  BY <1>1, <1>6 DEF CreateOutput
<1>7. CASE WriteOutput
  BY <1>1, <1>7 DEF WriteOutput
<1>8. CASE Fail
  BY <1>1, <1>8 DEF Fail
<1>9. CASE User
  BY <1>0, <1>1, <1>9 DEF User
<1>10. CASE UNCHANGED vars
  BY <1>0, <1>1, <1>10 DEF vars
<1> QED
  BY <1>2, <1>3, <1>4, <1>5, <1>6, <1>7, <1>8, <1>9, <1>10 DEF Next, Extractor

\* The errors build_groups calls internal cannot happen: the checks of extract
\* rule them out.
THEOREM InternalErrorsCannotHappen == Spec => []NoInternalError
<1>1. AcceptedIInv => NoInternalError
  BY DEF AcceptedIInv
<1> QED
  BY AcceptedInit, AcceptedStep, <1>1, PTL DEF Spec

\* What extract writes, validate_record accepts, and its target partition
\* exists.
THEOREM WrittenRecordsAreAccepted == Spec => []RecordsAreAccepted
<1>1. AcceptedIInv => RecordsAreAccepted
  BY DEF AcceptedIInv
<1> QED
  BY AcceptedInit, AcceptedStep, <1>1, PTL DEF Spec

-----------------------------------------------------------------------------
(* The data sets that are read back, and what the baselines say of them. *)

\* A path of a data set, flawed or not.
DataTexts == {<< >>, <<"x">>, <<"x", "/", "x">>}
DataSuffixes == {None, <<".", "x">>, <<".">>}
DataPath ==
    [id : Nat, encoding : {"utf8", "base64"}, value : DataTexts,
     path_depth : 0..2, suffix : DataSuffixes,
     status : {"added"}, binary : BOOLEAN, lines : {None, 15}, low_value : BOOLEAN]

\* A group of a data set, with whatever it was given.
DataGroup == [id : Nat, paths : Seq(Nat), source_commit_oids : Seq(Nat)]

\* A record of a data set.
DataRecord ==
    [schema : {"v0", "v1"}, sample_id : Nat, low_value_profile : {None, "default"},
     paths : Seq(DataPath), groups : Seq(DataGroup)]

\* The data set that is being read back is a sequence of such records.
DataIInv == subject = "dataset" => sample \in Seq(DataRecord)

\* A path put into groups of a record leaves them groups.
LEMMA InGroupsType ==
    ASSUME NEW groups \in Seq(DataGroup), NEW id \in Nat,
           NEW chosen \in SUBSET (1..(Len(groups) + 1))
    PROVE  InGroups(groups, chosen, id) \in Seq(DataGroup)
<1> DEFINE n == Len(groups)
           m == Max({n} \cup chosen)
           put(g) == IF g > n
                     THEN [id |-> g, paths |-> <<id>>, source_commit_oids |-> <<g>>]
                     ELSE IF g \in chosen
                     THEN [groups[g] EXCEPT !.paths = Append(@, id)]
                     ELSE groups[g]
<1>1. n \in Nat /\ \A g \in 1..n : groups[g] \in DataGroup
  BY LenProperties, ElementOfSeq
<1>2. m \in Nat
  <2> HIDE DEF n
  <2> DEFINE S == {n} \cup chosen
  <2>1. chosen \in SUBSET (1..(n + 1))
    BY DEF n
  <2>2. \E x \in S : \A y \in S : x >= y
    <3>1. CASE n + 1 \in chosen
      BY <1>1, <2>1, <3>1
    <3>2. CASE n + 1 \notin chosen
      BY <1>1, <2>1, <3>2
    <3> QED
      BY <3>1, <3>2
  <2>3. Max(S) \in S
    BY <2>2, Zenon DEF Max
  <2> HIDE DEF S
  <2>4. \A x \in S : x \in Nat
    BY <1>1, <2>1 DEF S
  <2>5. Max(S) \in Nat
    BY <2>3, <2>4
  <2> QED
    BY <2>5 DEF S
<1>3. ASSUME NEW g \in 1..m
      PROVE  put(g) \in DataGroup
  <2>1. g \in Nat
    BY <1>2
  <2>2. CASE g > n
    <3>1. <<id>> \in Seq(Nat) /\ <<g>> \in Seq(Nat)
      BY <2>1
    <3> QED
      BY <2>1, <2>2, <3>1 DEF DataGroup
  <2>3. CASE ~ g > n
    <3> DEFINE h == groups[g]
    <3>1. h \in DataGroup
      BY <1>1, <1>2, <2>3
    <3> HIDE DEF h
    <3>2. Append(h.paths, id) \in Seq(Nat)
      BY <3>1, AppendProperties DEF DataGroup
    <3>3. [h EXCEPT !.paths = Append(@, id)] \in DataGroup
      BY <3>1, <3>2 DEF DataGroup
    <3> QED
      BY <2>3, <3>1, <3>3 DEF h
  <2> QED
    BY <2>2, <2>3
<1> HIDE DEF m, put, n
<1>4. [g \in 1..m |-> put(g)] \in Seq(DataGroup)
  BY <1>2, <1>3, SeqDef
<1> QED
  BY <1>4 DEF InGroups, m, put, n

\* The data set is empty at first.
LEMMA DataInit == MCInit => DataIInv
BY EmptySeq DEF MCInit, DataIInv

\* Records and paths are added to the data set, and it stays one.
LEMMA DataStep == DataIInv /\ [MCNext]_mcvars => DataIInv'
<1> SUFFICES ASSUME DataIInv, [MCNext]_mcvars PROVE DataIInv'
  OBVIOUS
<1>1. CASE Extraction
  BY <1>1 DEF Extraction, DataIInv
<1>2. CASE AddCommit
  BY <1>2 DEF AddCommit, DataIInv
<1>3. CASE StartRecord
  <2>1. /\ subject = "dataset" /\ subject' = subject
        /\ sample \in Seq(DataRecord)
    BY <1>3 DEF StartRecord, DataIInv
  <2>2. PICK id \in 1..(Len(sample) + 1), schema \in {"v0", "v1"}, profile \in {None, "default"} :
           sample' = Append(sample, EmptyRecord(id, schema, profile))
    BY <1>3 DEF StartRecord
  <2>3. EmptyRecord(id, schema, profile) \in DataRecord
    <3>1. id \in Nat
      BY <2>1, LenProperties
    <3> QED
      BY <3>1, EmptySeq DEF EmptyRecord, DataRecord
  <2>4. sample' \in Seq(DataRecord)
    BY <2>1, <2>2, <2>3, AppendProperties
  <2> QED
    BY <2>1, <2>4 DEF DataIInv
<1>4. CASE AddPath
  <2> DEFINE r == sample[Len(sample)]
             n == Len(r.paths) + 1
             open == 1..(Len(r.groups) + 1)
             after(path, chosen) ==
                 [r EXCEPT !.paths = Append(@, path),
                           !.groups = InGroups(@, chosen, path.id)]
  <2>1. /\ subject = "dataset" /\ subject' = subject
        /\ sample \in Seq(DataRecord) /\ sample # << >>
    BY <1>4 DEF AddPath, DataIInv
  <2>2. r \in DataRecord /\ n \in Nat /\ r.groups \in Seq(DataGroup) /\ r.paths \in Seq(DataPath)
    <3>1. Len(sample) \in Nat /\ Len(sample) # 0 /\ \A k \in 1..Len(sample) : sample[k] \in DataRecord
      BY <2>1, LenProperties, ElementOfSeq, EmptySeq
    <3>2. r \in DataRecord
      BY <3>1
    <3> HIDE DEF r
    <3>3. r.groups \in Seq(DataGroup) /\ r.paths \in Seq(DataPath)
      BY <3>2 DEF DataRecord
    <3> QED
      BY <3>2, <3>3, LenProperties
  <2>3. \E path \in DataPath : \E chosen \in SUBSET open :
           sample' = [sample EXCEPT ![Len(sample)] = after(path, chosen)]
    <3>1. /\ \A d \in {0, 1} : ObservedPath(n, "utf8", d, 15) \in DataPath
          /\ ObservedPath(n, "base64", 0, None) \in DataPath
          /\ ObservedPath(n, "utf8", 0, None) \in DataPath
          /\ ObservedPath(1, "utf8", 0, 15) \in DataPath
          /\ ObservedPath(n, "utf8", 0, 15) \in DataPath
          /\ Misnamed(ObservedPath(n, "utf8", 0, 15)) \in SUBSET DataPath
      <4> HIDE DEF n
      <4>1. ASSUME NEW id \in Nat, NEW encoding \in {"utf8", "base64"},
                   NEW d \in {0, 1}, NEW lines \in {None, 15}
            PROVE  ObservedPath(id, encoding, d, lines) \in DataPath
        <5>1. (IF encoding = "base64" \/ d = 0 THEN <<"x">> ELSE <<"x", "/", "x">>)
                  \in DataTexts
          BY DEF DataTexts
        <5>2. d + 1 \in 0..2 /\ None \in DataSuffixes
          BY DEF DataSuffixes
        <5> QED
          BY <5>1, <5>2 DEF ObservedPath, DataPath
      <4>2. ASSUME NEW path \in DataPath
            PROVE  Misnamed(path) \in SUBSET DataPath
        <5>1. /\ << >> \in DataTexts /\ 0 \in 0..2
              /\ <<".", "x">> \in DataSuffixes /\ <<".">> \in DataSuffixes
          BY DEF DataTexts, DataSuffixes
        <5> QED
          BY <5>1 DEF Misnamed, DataPath
      <4> QED
        BY <2>2, <4>1, <4>2
    <3>2. /\ \A g \in open : {g} \in SUBSET open
          /\ {1} \in SUBSET open
          /\ {} \in SUBSET open
          /\ {1, Len(r.groups) + 1} \in SUBSET open
      <4> DEFINE m == Len(r.groups)
      <4>1. m \in Nat
        BY <2>2, LenProperties
      <4> HIDE DEF m
      <4> QED
        BY <4>1 DEF m
    <3> DEFINE put(path, chosen) ==
                 sample' = [sample EXCEPT ![Len(sample)] = after(path, chosen)]
    <3>3. \/ \E directory \in {0, 1}, g \in open :
                put(ObservedPath(n, "utf8", directory, 15), {g})
          \/ \E g \in open : put(ObservedPath(n, "base64", 0, None), {g})
          \/ put(ObservedPath(n, "utf8", 0, None), {1})
          \/ put(ObservedPath(1, "utf8", 0, 15), {1})
          \/ \E path \in Misnamed(ObservedPath(n, "utf8", 0, 15)) : put(path, {1})
          \/ \E chosen \in {{}, {1, Len(r.groups) + 1}} :
                put(ObservedPath(n, "utf8", 0, 15), chosen)
      BY <1>4 DEF AddPath, Last
    <3> HIDE DEF open, put, n
    <3>4. \E path \in DataPath : \E chosen \in SUBSET open : put(path, chosen)
      BY Zenon, <3>1, <3>2, <3>3
    <3> QED
      BY <3>4 DEF put
  <2>4. PICK path \in DataPath, chosen \in SUBSET open :
           sample' = [sample EXCEPT ![Len(sample)] = after(path, chosen)]
    BY <2>3
  <2> HIDE DEF r, n
  <2>5. after(path, chosen) \in DataRecord
    <3>1. Append(r.paths, path) \in Seq(DataPath)
      BY <2>2, AppendProperties
    <3>2. path.id \in Nat
      BY DEF DataPath
    <3>3. InGroups(r.groups, chosen, path.id) \in Seq(DataGroup)
      BY <2>2, <3>2, InGroupsType
    <3> QED
      BY <2>2, <3>1, <3>3 DEF DataRecord
  <2> HIDE DEF after
  <2>6. sample' \in Seq(DataRecord)
    BY <2>1, <2>4, <2>5, ReplaceLast
  <2> QED
    BY <2>1, <2>6 DEF DataIInv
<1>5. CASE UNCHANGED mcvars
  BY <1>5 DEF mcvars, DataIInv
<1> QED
  BY <1>1, <1>2, <1>3, <1>4, <1>5 DEF MCNext

\* The data set is a sequence of records at all times.
LEMMA DataAlways == MCSpec => []DataIInv
BY DataInit, DataStep, PTL DEF MCSpec

\* The records of a data set that passes validate_record_set.
LEMMA RecordsAreValid ==
    ASSUME DataIInv, subject = "dataset", sample # << >>, ValidateRecordSet(sample),
           NEW k \in DOMAIN sample
    PROVE  /\ sample[k] \in DataRecord /\ ValidateRecord(sample[k])
           /\ PathsOf(sample[k].groups) \in Seq(Seq(Nat))
<1> DEFINE r == sample[k]
<1>1. r \in DataRecord
  BY ElementOfSeq, LenProperties DEF DataIInv
<1>2. ValidateRecord(r)
  BY DEF ValidateRecordSet
<1> HIDE DEF r
<1>3. PathsOf(r.groups) \in Seq(Seq(Nat))
  <2> DEFINE gs == r.groups
             n == Len(gs)
  <2>1. gs \in Seq(DataGroup)
    BY <1>1 DEF DataRecord
  <2> HIDE DEF gs
  <2>2. n \in Nat /\ DOMAIN gs = 1..n /\ \A g \in 1..n : gs[g] \in DataGroup
    BY <2>1, LenProperties, ElementOfSeq
  <2> HIDE DEF n
  <2>3. \A g \in 1..n : gs[g].paths \in Seq(Nat)
    BY <2>2 DEF DataGroup
  <2>4. PathsOf(gs) \in [1..n -> Seq(Nat)]
    BY <2>2, <2>3 DEF PathsOf
  <2>5. PathsOf(gs) \in Seq(Seq(Nat))
    BY <2>2, <2>4, SeqDef
  <2> QED
    BY <2>5 DEF gs
<1> QED
  BY <1>1, <1>2, <1>3 DEF r

\* Evaluate fails on no data set that passes validate_record_set.
LEMMA ReportIs ==
    ASSUME DataIInv, NEW report \in Reports
    PROVE  /\ subject = "dataset" /\ sample # << >> /\ ValidateRecordSet(sample)
           /\ \E kind \in BaselineKinds :
                 LET samples == Column(sample, LAMBDA r :
                         ScoreSample(r, TargetPartition(r).ok,
                                     Predict(r.paths, kind)))
                 IN report = Ok([samples |-> samples,
                         aggregate |-> AggregateMetrics(samples, DOMAIN samples),
                         segments |-> [by \in Segmentations |-> Segment(samples, by)]])
<1>1. subject = "dataset" /\ sample # << >> /\ ValidateRecordSet(sample)
  BY DEF Reports
<1>2. PICK kind \in BaselineKinds : report = Evaluate(sample, kind)
  BY <1>1 DEF Reports
<1>3. \A k \in DOMAIN sample : TargetPartition(sample[k]) # Failure
  <2> TAKE k \in DOMAIN sample
  <2>1. ValidateRecord(sample[k]) /\ PathsOf(sample[k].groups) \in Seq(Seq(Nat))
    BY <1>1, RecordsAreValid
  <2> QED
    BY <2>1, ValidHasTarget
<1> QED
  BY Zenon, <1>1, <1>2, <1>3 DEF Evaluate

\* A data set that passes validate_record_set is evaluated, whatever it holds.
THEOREM ValidDataSetsScore == MCSpec => []ValidRecordsScore
<1>1. DataIInv => ValidRecordsScore
  <2> SUFFICES ASSUME DataIInv, Failure \in Reports PROVE FALSE
    BY DEF ValidRecordsScore
  <2>1. \E value : Failure = Ok(value)
    BY Zenon, ReportIs
  <2>2. DOMAIN Failure = {"err"} /\ \A value : DOMAIN Ok(value) = {"ok"}
    BY DEF Failure, Ok
  <2> QED
    BY <2>1, <2>2
<1> QED
  BY DataAlways, <1>1, PTL

-----------------------------------------------------------------------------
(* Pairs of numbers, and those that have the same label. *)

\* The pairs of numbers of a set, the lesser one first.
Pairs(S) == {p \in S \X S : p[1] < p[2]}

\* The numbers of a pair.
LEMMA InPairs ==
    ASSUME NEW S, NEW x, NEW y
    PROVE  <<x, y>> \in Pairs(S) <=> x \in S /\ y \in S /\ x < y
BY DEF Pairs

\* The n-th of n elements is in n - 1 pairs.
LEMMA ChooseTwoStep ==
    ASSUME NEW n \in Nat, n # 0
    PROVE  ChooseTwo(n) = ChooseTwo(n - 1) + (n - 1)
<1> DEFINE a == (n - 1) * (n - 2)
           b == n - 1
<1>1. n * (n - 1) = a + 2 * b /\ a \in Int /\ b \in Int
  OBVIOUS
<1>2. (n - 1) * ((n - 1) - 1) = a
  OBVIOUS
<1> HIDE DEF a, b
<1>3. (a + 2 * b) \div 2 = a \div 2 + b
  BY <1>1
<1> QED
  BY <1>1, <1>2, <1>3 DEF ChooseTwo, b

\* A set of n numbers has n choose 2 pairs.
LEMMA CountOfPairs ==
    ASSUME NEW S \in SUBSET Nat, IsFiniteSet(S)
    PROVE  /\ IsFiniteSet(Pairs(S))
           /\ Cardinality(Pairs(S)) = ChooseTwo(Cardinality(S))
<1> DEFINE Good == {T \in SUBSET S : Cardinality(Pairs(T)) = ChooseTwo(Cardinality(T))}
<1>1. ASSUME NEW T \in SUBSET S
      PROVE  IsFiniteSet(T) /\ Cardinality(T) \in Nat /\ IsFiniteSet(Pairs(T))
  <2>1. IsFiniteSet(T) /\ Cardinality(T) \in Nat
    BY FS_Subset, FS_CardinalityType
  <2>2. IsFiniteSet(T \X T)
    BY <2>1, FS_Product
  <2>3. Pairs(T) \in SUBSET (T \X T)
    BY DEF Pairs
  <2>4. IsFiniteSet(Pairs(T))
    BY <2>2, <2>3, FS_Subset
  <2> QED
    BY <2>1, <2>4
<1>2. {} \in Good
  <2>1. Pairs({}) = {}
    BY DEF Pairs
  <2>2. ChooseTwo(0) = 0
    BY DEF ChooseTwo
  <2> QED
    BY <2>1, <2>2, FS_EmptySet
<1>3. ASSUME NEW T \in SUBSET S, NEW x \in T, T \ {x} \in Good
      PROVE  T \in Good
  <2> DEFINE R == T \ {x}
             with(y) == IF y < x THEN <<y, x>> ELSE <<x, y>>
             f == [y \in R |-> with(y)]
             New == {with(y) : y \in R}
  <2>1. \A y \in R : y \in Nat /\ x \in Nat /\ y # x /\ y \in T
    OBVIOUS
  <2>2. Pairs(T) = Pairs(R) \cup New
    <3>1. ASSUME NEW p \in Pairs(T)
          PROVE  p \in Pairs(R) \cup New
      <4>1. PICK i \in T, j \in T : p = <<i, j>> /\ i < j
        <5>1. p \in T \X T /\ p[1] < p[2]
          BY DEF Pairs
        <5>2. p[1] \in T /\ p[2] \in T /\ p = <<p[1], p[2]>>
          BY <5>1
        <5> QED
          BY <5>1, <5>2
      <4>2. CASE i # x /\ j # x
        BY <4>1, <4>2 DEF Pairs
      <4>3. CASE i = x
        <5>1. j \in R /\ ~ (j < x)
          BY <4>1, <4>3
        <5>2. p = with(j)
          BY <4>1, <4>3, <5>1
        <5> QED
          BY <5>1, <5>2
      <4>4. CASE j = x
        <5>1. i \in R /\ i < x
          BY <4>1, <4>4
        <5>2. p = with(i)
          BY <4>1, <4>4, <5>1
        <5> QED
          BY <5>1, <5>2
      <4> QED
        BY <4>2, <4>3, <4>4
    <3>2. Pairs(R) \subseteq Pairs(T)
      BY DEF Pairs
    <3>3. ASSUME NEW y \in R
          PROVE  with(y) \in Pairs(T)
      <4>1. y < x \/ x < y
        BY <2>1
      <4>2. CASE y < x
        BY <2>1, <4>2, InPairs
      <4>3. CASE ~ y < x
        BY <2>1, <4>1, <4>3, InPairs
      <4> QED
        BY <4>2, <4>3
    <3> QED
      BY <3>1, <3>2, <3>3
  <2>3. Pairs(R) \cap New = {}
    <3> SUFFICES ASSUME NEW y \in R, with(y) \in Pairs(R) PROVE FALSE
      OBVIOUS
    <3>1. x \in R
      BY InPairs
    <3> QED
      BY <3>1
  <2>4. \A y, z \in R : with(y) = with(z) => y = z
    <3> TAKE y, z \in R
    <3>1. CASE y < x /\ z < x
      BY <3>1
    <3>2. CASE ~ y < x /\ ~ z < x
      BY <3>2
    <3>3. CASE y < x /\ ~ z < x
      BY <2>1, <3>3
    <3>4. CASE ~ y < x /\ z < x
      BY <2>1, <3>4
    <3> QED
      BY <3>1, <3>2, <3>3, <3>4
  <2>5. IsFiniteSet(R) /\ Cardinality(R) = Cardinality(T) - 1 /\ Cardinality(R) \in Nat
        /\ Cardinality(T) \in Nat
    BY <1>1, FS_RemoveElement
  <2>6. IsFiniteSet(New) /\ Cardinality(New) = Cardinality(R)
    <3> HIDE DEF with
    <3>1. f \in Bijection(R, New)
      BY <2>4 DEF Bijection, Injection, Surjection, IsInjective
    <3>2. ExistsBijection(R, New)
      BY <3>1 DEF ExistsBijection
    <3> HIDE DEF R, New
    <3> QED
      BY <2>5, <3>2, FS_Bijection
  <2>7. IsFiniteSet(Pairs(R)) /\ Cardinality(Pairs(R)) = ChooseTwo(Cardinality(R))
    BY <1>1, <1>3
  <2> HIDE DEF R, New
  <2>8. Cardinality(Pairs(T)) = Cardinality(Pairs(R)) + Cardinality(New)
    <3> DEFINE A == Pairs(R)
    <3>1. Cardinality(A \cup New) = Cardinality(A) + Cardinality(New) - Cardinality(A \cap New)
      BY <2>6, <2>7, FS_Union
    <3>2. Cardinality(A \cap New) = 0 /\ Cardinality(A) \in Nat /\ Cardinality(New) \in Nat
      BY <2>3, <2>5, <2>6, <2>7, FS_EmptySet, FS_CardinalityType
    <3> QED
      BY <2>2, <3>1, <3>2
  <2>9. ChooseTwo(Cardinality(T)) = ChooseTwo(Cardinality(R)) + Cardinality(R)
    <3> DEFINE n == Cardinality(T)
    <3>1. n \in Nat /\ n # 0 /\ Cardinality(R) = n - 1
      BY <2>5
    <3> HIDE DEF n
    <3>2. ChooseTwo(n) = ChooseTwo(n - 1) + (n - 1)
      BY <3>1, ChooseTwoStep
    <3> QED
      BY <3>1, <3>2 DEF n
  <2> QED
    BY <2>6, <2>7, <2>8, <2>9
<1>4. S \in Good
  <2>1. Good \in SUBSET (SUBSET S)
    OBVIOUS
  <2> HIDE DEF Good
  <2> QED
    BY <1>2, <1>3, <2>1, SumInduction
<1> QED
  BY <1>1, <1>4

\* The pairs of places whose labels are the same.
Same(labels) == {p \in Pairs(DOMAIN labels) : labels[p[1]] = labels[p[2]]}

\* The places of a label.
Places(labels, label) == {i \in DOMAIN labels : labels[i] = label}

\* pair_counts adds the pairs in every class: those are the pairs whose labels
\* are the same.
LEMMA SamePairsIs ==
    ASSUME NEW labels, DOMAIN labels \in SUBSET Nat, IsFiniteSet(DOMAIN labels)
    PROVE  SamePairs(labels) = Cardinality(Same(labels))
<1> DEFINE D == DOMAIN labels
           K == Range(labels)
           P == [k \in K |-> Pairs(Places(labels, k))]
           E == Pairs(D)
<1>1. IsFiniteSet(E)
  BY CountOfPairs
<1>2. IsFiniteSet(K)
  <2> DEFINE f == [i \in D |-> labels[i]]
  <2>1. f \in Surjection(D, K)
    BY DEF Surjection, Range
  <2> HIDE DEF f, D, K
  <2>2. IsFiniteSet(D)
    BY DEF D
  <2> QED
    BY <2>1, <2>2, FS_Surjection
<1>3. \A k \in K : Places(labels, k) \in SUBSET D /\ P[k] \in SUBSET E
  <2> TAKE k \in K
  <2>1. Places(labels, k) \in SUBSET D
    BY DEF Places
  <2> QED
    BY <2>1 DEF Pairs
<1>4. \A j, k \in K : j # k => P[j] \cap P[k] = {}
  <2> SUFFICES ASSUME NEW j \in K, NEW k \in K, NEW p \in P[j] \cap P[k]
               PROVE  j = k
    OBVIOUS
  <2>1. p \in Pairs(Places(labels, j)) /\ p \in Pairs(Places(labels, k))
    OBVIOUS
  <2>2. p[1] \in Places(labels, j) /\ p[1] \in Places(labels, k)
    BY <2>1 DEF Pairs
  <2> QED
    BY <2>2 DEF Places
<1>5. UNION {P[k] : k \in K} = Same(labels)
  <2>1. ASSUME NEW k \in K, NEW p \in P[k]
        PROVE  p \in Same(labels)
    <3>1. p \in Pairs(Places(labels, k))
      OBVIOUS
    <3>2. p \in E
      BY <1>3
    <3>3. p[1] \in Places(labels, k) /\ p[2] \in Places(labels, k)
      BY <3>1 DEF Pairs
    <3> QED
      BY <3>2, <3>3 DEF Places, Same
  <2>2. ASSUME NEW p \in Same(labels)
        PROVE  \E k \in K : p \in P[k]
    <3> DEFINE k == labels[p[1]]
    <3>1. /\ p \in D \X D /\ p[1] \in D /\ p[2] \in D /\ p[1] < p[2]
          /\ labels[p[2]] = k
      BY DEF Same, Pairs
    <3>2. k \in K
      BY <3>1 DEF Range
    <3>3. p \in Places(labels, k) \X Places(labels, k)
      <4>1. p[1] \in Places(labels, k) /\ p[2] \in Places(labels, k)
        BY <3>1 DEF Places
      <4>2. p = <<p[1], p[2]>>
        BY <3>1
      <4> QED
        BY <4>1, <4>2
    <3>4. p \in Pairs(Places(labels, k))
      BY <3>1, <3>3 DEF Pairs
    <3>5. P[k] = Pairs(Places(labels, k))
      BY <3>2
    <3> QED
      BY <3>2, <3>4, <3>5
  <2> HIDE DEF P, K
  <2> QED
    BY <2>1, <2>2
<1>6. \A k \in K : Cardinality(P[k]) = ChooseTwo(Cardinality(Places(labels, k)))
  <2> TAKE k \in K
  <2> DEFINE T == Places(labels, k)
  <2>1. T \in SUBSET D
    BY <1>3
  <2>2. T \in SUBSET Nat /\ IsFiniteSet(T)
    BY <2>1, FS_Subset
  <2>3. P[k] = Pairs(T)
    OBVIOUS
  <2> HIDE DEF T, P
  <2>4. Cardinality(Pairs(T)) = ChooseTwo(Cardinality(T))
    BY <2>2, CountOfPairs
  <2> QED
    BY <2>3, <2>4 DEF T
<1>7. SamePairs(labels) = SumFunction([k \in K |-> ChooseTwo(Cardinality(Places(labels, k)))])
  BY Zenon DEF SamePairs, Places
<1>8. P \in [K -> SUBSET E]
  BY <1>3
<1> HIDE DEF P, K, E
<1>9. [k \in K |-> ChooseTwo(Cardinality(Places(labels, k)))] = [k \in K |-> Cardinality(P[k])]
  BY <1>6
<1>10. SumFunction([k \in K |-> Cardinality(P[k])]) = Cardinality(UNION {P[k] : k \in K})
  BY <1>1, <1>2, <1>4, <1>8, CountOfParts
<1> QED
  BY <1>5, <1>7, <1>9, <1>10

\* Two partitions of the same places.
Labelled(t, p, n) == n \in Nat /\ DOMAIN t = 1..n /\ DOMAIN p = 1..n /\ Len(t) = n

\* The pairs that the two partitions put together and apart.
Counted(t, p, true, predicted) ==
    {q \in Pairs(DOMAIN t) : /\ (t[q[1]] = t[q[2]]) = true
                             /\ (p[q[1]] = p[q[2]]) = predicted}

\* They are those with the same label in both, in one only, or in none.
LEMMA CountedIs ==
    ASSUME NEW t, NEW p, DOMAIN p = DOMAIN t
    PROVE  /\ Counted(t, p, TRUE, TRUE) = Same(t) \cap Same(p)
           /\ Counted(t, p, FALSE, TRUE) = Same(p) \ Same(t)
           /\ Counted(t, p, TRUE, FALSE) = Same(t) \ Same(p)
           /\ Counted(t, p, FALSE, FALSE) = Pairs(DOMAIN t) \ (Same(t) \cup Same(p))
BY Zenon DEF Counted, Same

\* The counts of pairs are those of the four kinds, and there are n choose 2.
LEMMA PairCountsAre ==
    ASSUME NEW t, NEW p, NEW n, Labelled(t, p, n)
    PROVE  LET A == Same(t)
               B == Same(p)
               E == Pairs(DOMAIN t)
               c(S) == Cardinality(S)
           IN /\ PairCounts(t, p) = [true_positive |-> c(A \cap B),
                                     false_positive |-> c(B \ A),
                                     false_negative |-> c(A \ B),
                                     true_negative |-> c(E \ (A \cup B))]
              /\ SamePairs(t) = c(A) /\ SamePairs(p) = c(B)
              /\ SamePairs(Contingency(t, p)) = c(A \cap B)
              /\ ChooseTwo(Len(t)) = c(E)
              /\ IsFiniteSet(E) /\ A \in SUBSET E /\ B \in SUBSET E
<1> DEFINE A == Same(t)
           B == Same(p)
           D == DOMAIN t
           E == Pairs(D)
           x == Contingency(t, p)
           c(S) == Cardinality(S)
<1>1. /\ D = 1..n /\ D \in SUBSET Nat /\ IsFiniteSet(D) /\ Cardinality(D) = n
      /\ DOMAIN p = D /\ Len(t) = n /\ n \in Nat
  <2>1. D = 1..n /\ DOMAIN p = D /\ n \in Nat /\ Len(t) = n
    BY DEF Labelled
  <2> HIDE DEF D
  <2> QED
    BY <2>1, FS_Interval
<1>2. A \in SUBSET E /\ B \in SUBSET E
  BY <1>1 DEF Same
<1>3. DOMAIN x = D /\ \A i \in D : x[i] = <<t[i], p[i]>>
  BY DEF Contingency
<1>4. Same(x) = A \cap B
  <2>1. \A q \in E : q[1] \in D /\ q[2] \in D
    BY DEF Pairs
  <2>2. \A q \in E : x[q[1]] = x[q[2]] <=> t[q[1]] = t[q[2]] /\ p[q[1]] = p[q[2]]
    BY <1>3, <2>1
  <2> HIDE DEF x
  <2> QED
    BY Zenon, <1>1, <1>3, <2>2 DEF Same
<1>5. IsFiniteSet(E) /\ c(E) = ChooseTwo(Cardinality(D))
  <2> HIDE DEF D
  <2> QED
    BY <1>1, CountOfPairs
<1>6. SamePairs(t) = c(A)
  BY <1>1, SamePairsIs
<1>7. SamePairs(p) = c(B)
  BY <1>1, SamePairsIs
<1>8. SamePairs(x) = c(Same(x))
  <2> HIDE DEF x, D
  <2> QED
    BY <1>1, <1>3, SamePairsIs
<1>9. ChooseTwo(Len(t)) = c(E)
  BY <1>1, <1>5
<1> HIDE DEF A, B, E, D, x
<1>10. SamePairs(x) = c(A \cap B)
  BY <1>4, <1>8
<1>11. /\ c(B \ A) = c(B) - c(A \cap B)
       /\ c(A \ B) = c(A) - c(A \cap B)
       /\ c(E \ (A \cup B)) = c(E) - c(B) - c(A) + c(A \cap B)
  <2>1. Sized(E, A, B)
    BY Zenon, <1>2, <1>5, FourKinds
  <2> QED
    BY <2>1 DEF Sized
<1>12. PairCounts(t, p) = [true_positive |-> SamePairs(x),
                           false_positive |-> SamePairs(p) - SamePairs(x),
                           false_negative |-> SamePairs(t) - SamePairs(x),
                           true_negative |-> ChooseTwo(Len(t)) - SamePairs(p)
                                                 - SamePairs(t) + SamePairs(x)]
  BY Zenon DEF PairCounts, x
<1>13. PairCounts(t, p) = [true_positive |-> c(A \cap B),
                           false_positive |-> c(B \ A),
                           false_negative |-> c(A \ B),
                           true_negative |-> c(E \ (A \cup B))]
  BY Zenon, <1>6, <1>7, <1>9, <1>10, <1>11, <1>12
<1> QED
  BY Zenon, <1>2, <1>5, <1>6, <1>7, <1>9, <1>10, <1>13 DEF A, B, E, D, x

\* The labels of a target, and those of a prediction, number its paths.
LEMMA TargetLabels ==
    ASSUME NEW r \in DataRecord, ValidateRecord(r), PathsOf(r.groups) \in Seq(Seq(Nat))
    PROVE  LET t == TargetPartition(r).ok
               n == Len(r.paths)
           IN /\ n \in Nat /\ n # 0 /\ DOMAIN r.paths = 1..n
              /\ DOMAIN t = 1..n /\ Len(t) = n /\ t = [i \in 1..n |-> t[i]]
              /\ \A i \in 1..n : t[i] \in Nat
<1> DEFINE t == TargetPartition(r).ok
           n == Len(r.paths)
           ids == IdsOf(r.paths)
           groupsOf(id) == {g \in DOMAIN r.groups : id \in Range(r.groups[g].paths)}
           label(i) == Min(groupsOf(ids[i])) - 1
<1>1. r.paths \in Seq(DataPath) /\ r.groups \in Seq(DataGroup) /\ r.paths # << >>
  BY DEF DataRecord, ValidateRecord, ValidateObservation
<1>2. n \in Nat /\ n # 0 /\ DOMAIN r.paths = 1..n
  BY <1>1, LenProperties, EmptySeq
<1>3. DOMAIN ids = 1..n
  BY <1>2 DEF IdsOf
<1>4. /\ \A i \in DOMAIN ids : groupsOf(ids[i]) # {}
      /\ TargetPartition(r) = Ok([i \in DOMAIN ids |-> label(i)])
  BY ValidHasTarget
<1>5. t = [i \in 1..n |-> label(i)]
  <2> HIDE DEF label, ids, groupsOf
  <2> QED
    BY <1>3, <1>4 DEF Ok
<1>6. ASSUME NEW i \in 1..n
      PROVE  label(i) \in Nat
  <2> DEFINE S == groupsOf(ids[i])
  <2>1. S # {}
    BY <1>3, <1>4
  <2>2. DOMAIN r.groups = 1..Len(r.groups) /\ Len(r.groups) \in Nat
    BY <1>1, LenProperties
  <2>3. S \in SUBSET Nat /\ \A g \in S : g >= 1
    BY <2>2
  <2> HIDE DEF S
  <2>4. Min(S) \in S
    BY <2>1, <2>3, MinIs
  <2>5. Min(S) - 1 \in Nat
    <3> DEFINE x == Min(S)
    <3>1. x \in S
      BY <2>4
    <3> HIDE DEF x
    <3>2. x \in Nat /\ x >= 1
      BY <2>3, <3>1
    <3>3. x - 1 \in Nat
      BY <3>2
    <3> QED
      BY <3>3 DEF x
  <2> QED
    BY <2>5 DEF S
<1> HIDE DEF t, n, label
<1>7. /\ \A i \in 1..n : t[i] = label(i)
      /\ t = [i \in 1..n |-> t[i]]
  BY <1>5
<1>8. Len(t) = n /\ DOMAIN t = 1..n
  BY <1>2, <1>7, LenOfFunction
<1>9. \A i \in 1..n : t[i] \in Nat
  BY <1>6, <1>7
<1> QED
  BY <1>2, <1>7, <1>8, <1>9 DEF t, n

\* Every baseline labels all paths.
LEMMA PredictedLabels ==
    ASSUME NEW paths, NEW n \in Nat, DOMAIN paths = 1..n, NEW kind \in BaselineKinds
    PROVE  LET p == Predict(paths, kind) IN
           /\ DOMAIN p = 1..n /\ Len(p) = n /\ p = [i \in 1..n |-> p[i]]
           /\ \A i \in 1..n : p[i] \in Nat
<1> DEFINE p == Predict(paths, kind)
           keys == Column(paths, ParentDirectoryKey)
<1>1. DOMAIN keys = 1..n
  BY DEF Column
<1>2. ASSUME NEW i \in 1..n
      PROVE  LabelByKey(keys, i) \in Nat
  <2> DEFINE first == Min({j \in DOMAIN keys : keys[j] = keys[i]})
             before == {keys[j] : j \in 1..(first - 1)}
  <2> HIDE DEF keys
  <2>1. first \in 1..n
    <3> DEFINE S == {j \in DOMAIN keys : keys[j] = keys[i]}
    <3>1. S \in SUBSET Nat /\ S # {} /\ S \in SUBSET (1..n)
      BY <1>1
    <3> HIDE DEF S
    <3>2. Min(S) \in S
      BY <3>1, MinIs
    <3>3. Min(S) \in 1..n
      BY <3>1, <3>2
    <3> QED
      BY <3>3 DEF S
  <2> HIDE DEF first
  <2>2. IsFiniteSet(before)
    <3> DEFINE f == [j \in 1..(first - 1) |-> keys[j]]
    <3>1. f \in Surjection(1..(first - 1), before)
      BY DEF Surjection
    <3>2. IsFiniteSet(1..(first - 1))
      BY <2>1, FS_Interval
    <3> HIDE DEF f, before
    <3> QED
      BY <3>1, <3>2, FS_Surjection
  <2>3. Cardinality(before) \in Nat
    BY <2>2, FS_CardinalityType
  <2>4. LabelByKey(keys, i) = Cardinality(before)
    BY Zenon DEF LabelByKey, first
  <2> QED
    BY <2>3, <2>4
<1>3. p = [i \in 1..n |->
             CASE kind = "single-group" -> 0
               [] kind = "singleton" -> i - 1
               [] kind = "parent-directory" -> LabelByKey(keys, i)]
  BY DEF Predict
<1> HIDE DEF p, keys
<1>4. DOMAIN p = 1..n /\ p = [i \in 1..n |-> p[i]]
  BY <1>3
<1>5. \A i \in 1..n : p[i] \in Nat
  BY <1>2, <1>3 DEF BaselineKinds
<1>6. Len(p) = n
  BY <1>4, LenOfFunction
<1> QED
  BY <1>4, <1>5, <1>6 DEF p

\* What is compared is two partitions of the paths of a record.
LEMMA ComparisonsAre ==
    ASSUME DataIInv, NEW c \in Comparisons
    PROVE  \E n : n # 0 /\ Labelled(c[1], c[2], n)
<1>1. subject = "dataset" /\ sample # << >> /\ ValidateRecordSet(sample)
  BY DEF Comparisons
<1>2. PICK r \in Range(sample), kind \in BaselineKinds :
         c = <<TargetPartition(r).ok, Predict(r.paths, kind)>>
  BY <1>1 DEF Comparisons
<1>3. PICK k \in DOMAIN sample : r = sample[k]
  BY DEF Range
<1>4. r \in DataRecord /\ ValidateRecord(r) /\ PathsOf(r.groups) \in Seq(Seq(Nat))
  BY <1>1, <1>3, RecordsAreValid
<1> DEFINE n == Len(r.paths)
           t == TargetPartition(r).ok
           p == Predict(r.paths, kind)
<1>5. n \in Nat /\ n # 0 /\ DOMAIN r.paths = 1..n /\ DOMAIN t = 1..n /\ Len(t) = n
  BY <1>4, TargetLabels
<1>6. DOMAIN p = 1..n
  BY <1>5, PredictedLabels
<1>7. c[1] = t /\ c[2] = p
  BY <1>2
<1> QED
  BY <1>5, <1>6, <1>7 DEF Labelled

\* pair_counts, computed from class sizes, counts pairs of paths.
THEOREM PairCountsCountPairs == MCSpec => []PairCountsAreByPair
<1>1. DataIInv => PairCountsAreByPair
  <2> SUFFICES ASSUME DataIInv, NEW c \in Comparisons
               PROVE  LET count(true, predicted) ==
                              Cardinality(Counted(c[1], c[2], true, predicted))
                      IN PairCounts(c[1], c[2]) =
                            [true_positive |-> count(TRUE, TRUE),
                             false_positive |-> count(FALSE, TRUE),
                             false_negative |-> count(TRUE, FALSE),
                             true_negative |-> count(FALSE, FALSE)]
    BY Zenon DEF PairCountsAreByPair, Counted, Pairs
  <2> DEFINE t == c[1]
             p == c[2]
  <2>1. PICK n : Labelled(t, p, n)
    BY ComparisonsAre
  <2> HIDE DEF t, p
  <2>2. PairCounts(t, p) =
           [true_positive |-> Cardinality(Same(t) \cap Same(p)),
            false_positive |-> Cardinality(Same(p) \ Same(t)),
            false_negative |-> Cardinality(Same(t) \ Same(p)),
            true_negative |-> Cardinality(Pairs(DOMAIN t) \ (Same(t) \cup Same(p)))]
    BY Zenon, <2>1, PairCountsAre
  <2>3. DOMAIN p = DOMAIN t
    BY <2>1 DEF Labelled
  <2>4. /\ Counted(t, p, TRUE, TRUE) = Same(t) \cap Same(p)
        /\ Counted(t, p, FALSE, TRUE) = Same(p) \ Same(t)
        /\ Counted(t, p, TRUE, FALSE) = Same(t) \ Same(p)
        /\ Counted(t, p, FALSE, FALSE) = Pairs(DOMAIN t) \ (Same(t) \cup Same(p))
    BY <2>3, CountedIs
  <2> QED
    BY Zenon, <2>2, <2>4 DEF t, p
<1> QED
  BY DataAlways, <1>1, PTL

-----------------------------------------------------------------------------
(* What the scores say of a perfect prediction. *)

\* same_partition finds no pair that one of the two puts together.
LEMMA ExactIs ==
    ASSUME NEW t, NEW p, NEW n, Labelled(t, p, n)
    PROVE  SamePartition(t, p) <=> Same(t) = Same(p)
<1> DEFINE D == 1..n
<1>1. n \in Nat /\ DOMAIN t = D /\ DOMAIN p = D
  BY DEF Labelled
<1>2. SamePartition(t, p) <=> \A i, j \in D : t[i] = t[j] <=> p[i] = p[j]
  <2> DEFINE x == Contingency(t, p)
  <2>1. DOMAIN x = D /\ \A i \in D : x[i] = <<t[i], p[i]>>
    BY <1>1 DEF Contingency
  <2>2. \A i \in D : x[i][1] = t[i] /\ x[i][2] = p[i]
    BY <2>1
  <2> HIDE DEF x, D
  <2>3. SamePartition(t, p) <=>
           \A i, j \in D : x[i][1] = x[j][1] <=> x[i][2] = x[j][2]
    <3>1. Range(x) = {x[i] : i \in D}
      BY <2>1 DEF Range
    <3>2. SamePartition(t, p) <=> \A a, b \in Range(x) : a[1] = b[1] <=> a[2] = b[2]
      BY Zenon DEF SamePartition, x
    <3>3. ASSUME \A a, b \in Range(x) : a[1] = b[1] <=> a[2] = b[2],
                 NEW i \in D, NEW j \in D
          PROVE  x[i][1] = x[j][1] <=> x[i][2] = x[j][2]
      <4>1. x[i] \in Range(x) /\ x[j] \in Range(x)
        BY <3>1
      <4> QED
        BY Zenon, <3>3, <4>1
    <3>4. ASSUME \A i, j \in D : x[i][1] = x[j][1] <=> x[i][2] = x[j][2],
                 NEW a \in Range(x), NEW b \in Range(x)
          PROVE  a[1] = b[1] <=> a[2] = b[2]
      <4>1. PICK i \in D : a = x[i]
        BY <3>1
      <4>2. PICK j \in D : b = x[j]
        BY <3>1
      <4>3. x[i][1] = x[j][1] <=> x[i][2] = x[j][2]
        BY <3>4
      <4> QED
        BY Zenon, <4>1, <4>2, <4>3
    <3> QED
      BY Zenon, <3>2, <3>3, <3>4
  <2>4. ASSUME NEW i \in D, NEW j \in D
        PROVE  (x[i][1] = x[j][1] <=> x[i][2] = x[j][2]) <=> (t[i] = t[j] <=> p[i] = p[j])
    <3>1. x[i][1] = t[i] /\ x[j][1] = t[j] /\ x[i][2] = p[i] /\ x[j][2] = p[j]
      BY <2>2
    <3> QED
      BY Zenon, <3>1
  <2> QED
    BY Zenon, <2>3, <2>4
<1>3. ASSUME \A i, j \in D : t[i] = t[j] <=> p[i] = p[j]
      PROVE  Same(t) = Same(p)
  <2>1. \A q \in Pairs(D) : q[1] \in D /\ q[2] \in D
    BY DEF Pairs
  <2> HIDE DEF D
  <2> QED
    BY Zenon, <1>1, <1>3, <2>1 DEF Same
<1>4. ASSUME Same(t) = Same(p)
      PROVE  \A i, j \in D : t[i] = t[j] <=> p[i] = p[j]
  <2>1. ASSUME NEW i \in D, NEW j \in D, i < j
        PROVE  t[i] = t[j] <=> p[i] = p[j]
    <3> DEFINE q == <<i, j>>
    <3>1. q \in Pairs(D) /\ q[1] = i /\ q[2] = j
      BY <2>1, InPairs
    <3> HIDE DEF q, D
    <3>2. q \in Same(t) <=> t[i] = t[j]
      BY <1>1, <3>1 DEF Same
    <3>3. q \in Same(p) <=> p[i] = p[j]
      BY <1>1, <3>1 DEF Same
    <3> QED
      BY <1>4, <3>2, <3>3
  <2>2. \A i, j \in D : i < j \/ j < i \/ i = j
    BY <1>1
  <2> HIDE DEF D
  <2> QED
    BY Zenon, <2>1, <2>2
<1> QED
  BY <1>2, <1>3, <1>4

\* The adjusted Rand index in terms of the counts.
LEMMA IndexArithmetic ==
    ASSUME NEW b \in Nat, NEW fp \in Nat, NEW fn \in Nat, NEW e \in Nat
    PROVE  LET t == b + fn
               p == b + fp
               numerator == 2 * (b * e - t * p)
               denominator == (t + p) * e - 2 * t * p
           IN /\ denominator - numerator = (fn + fp) * e
              /\ numerator \in Int /\ denominator \in Int
              /\ (fn + fp) * e >= 0
              /\ e # 0 => ((fn + fp) * e = 0 <=> fn + fp = 0)
<1> DEFINE t == b + fn
           p == b + fp
           m == fn + fp
<1>1. (t + p) * e = 2 * (b * e) + m * e
  OBVIOUS
<1>2. 2 * (b * e - t * p) = 2 * (b * e) - 2 * t * p
  OBVIOUS
<1>3. m \in Nat /\ t \in Nat /\ p \in Nat /\ m * e \in Nat /\ b * e \in Nat /\ t * p \in Nat
  OBVIOUS
<1>4. e # 0 => (m * e = 0 <=> m = 0)
  OBVIOUS
<1> DEFINE x == m * e
           y == b * e
           z == t * p
<1>5. 2 * t * p = 2 * z
  OBVIOUS
<1>6. (t + p) * e - 2 * t * p = 2 * y + x - 2 * z
  BY <1>1, <1>5
<1>7. 2 * (b * e - t * p) = 2 * y - 2 * z
  BY <1>2, <1>5
<1>8. x \in Nat /\ y \in Nat /\ z \in Nat
  BY <1>3
<1> HIDE DEF x, y, z
<1>9. 2 * y + x - 2 * z - (2 * y - 2 * z) = x /\ x >= 0
      /\ 2 * y - 2 * z \in Int /\ 2 * y + x - 2 * z \in Int
  BY <1>8
<1> HIDE DEF m, t, p
<1> QED
  BY <1>4, <1>6, <1>7, <1>9 DEF x, m, t, p

\* F1, the harmonic mean of two ratios of the same numerator, where it is
\* defined: it is at most one, and one just where no pair is false.
LEMMA F1OfPerfection ==
    ASSUME NEW c, c.true_positive \in Nat,
           c.false_positive \in Nat, c.false_negative \in Nat, F1(c) # None
    PROVE  /\ F1(c)[1] = F1(c)[2] <=> c.false_positive + c.false_negative = 0
           /\ F1(c)[1] <= F1(c)[2]
<1> DEFINE b == c.true_positive
           x == c.false_positive
           y == c.false_negative
           f == F1(c)
<1>1. b \in Nat /\ x \in Nat /\ y \in Nat
  OBVIOUS
<1>2. /\ Precision(c) = IF b + x = 0 THEN None ELSE <<b, b + x>>
      /\ Recall(c) = IF b + y = 0 THEN None ELSE <<b, b + y>>
  BY DEF Precision, Recall, Ratio
<1>3. Precision(c) # None /\ Recall(c) # None
  BY Zenon DEF F1
<1> HIDE DEF b, x, y
<1>4. Precision(c) = <<b, b + x>> /\ Recall(c) = <<b, b + y>> /\ b + x # 0 /\ b + y # 0
  BY <1>2, <1>3
<1>5. f = IF b = 0 THEN <<0, 1>> ELSE <<2 * b * b, b * (b + y) + b * (b + x)>>
  BY <1>3, <1>4 DEF F1
<1> HIDE DEF f
<1>6. f[1] = f[2] <=> x + y = 0
  <2>1. CASE b = 0
    <3>1. x # 0
      BY <1>1, <1>4, <2>1
    <3> QED
      BY <1>1, <1>5, <2>1, <3>1
  <2>2. CASE b # 0
    <3>1. f[1] = 2 * b * b /\ f[2] = b * (b + y) + b * (b + x)
      BY <1>5, <2>2
    <3>2. b * (b + y) + b * (b + x) = 2 * b * b + b * (x + y)
      BY <1>1
    <3>3. b * (x + y) \in Nat /\ (b * (x + y) = 0 <=> x + y = 0) /\ 2 * b * b \in Nat
      BY <1>1, <2>2
    <3> QED
      BY <3>1, <3>2, <3>3
  <2> QED
    BY <2>1, <2>2
<1>7. f[1] <= f[2]
  <2>1. b * (b + y) + b * (b + x) = 2 * b * b + b * (x + y)
    BY <1>1
  <2>2. b * (x + y) \in Nat /\ 2 * b * b \in Nat
    BY <1>1
  <2>3. CASE b = 0
    BY <1>5, <2>3
  <2>4. CASE b # 0
    <3>1. f[1] = 2 * b * b /\ f[2] = b * (b + y) + b * (b + x)
      BY <1>5, <2>4
    <3> QED
      BY <2>1, <2>2, <3>1
  <2> QED
    BY <2>3, <2>4
<1> QED
  BY <1>6, <1>7 DEF f, x, y

\* The scores agree on what a perfect prediction is.
THEOREM ScoresAgreeOnPerfection == MCSpec => []ScoresAgree
<1>1. DataIInv => ScoresAgree
  <2> SUFFICES ASSUME DataIInv, NEW c \in Comparisons
               PROVE  LET exact == SamePartition(c[1], c[2])
                          counts == PairCounts(c[1], c[2])
                          ari == AdjustedRandIndex(c[1], c[2], exact)
                          f1 == F1(counts)
                      IN /\ exact <=> counts.false_positive + counts.false_negative = 0
                         /\ exact <=> ari[1] = ari[2]
                         /\ ari[1] <= ari[2]
                         /\ f1 # None => /\ exact <=> f1[1] = f1[2]
                                         /\ f1[1] <= f1[2]
    BY Zenon DEF ScoresAgree
  <2> DEFINE t == c[1]
             p == c[2]
             A == Same(t)
             B == Same(p)
             E == Pairs(DOMAIN t)
             exact == SamePartition(t, p)
             counts == PairCounts(t, p)
             ari == AdjustedRandIndex(t, p, exact)
             b == Cardinality(A \cap B)
             fp == Cardinality(B \ A)
             fn == Cardinality(A \ B)
             e == Cardinality(E)
  <2>1. PICK n : n # 0 /\ Labelled(t, p, n)
    BY ComparisonsAre
  <2> HIDE DEF t, p
  <2>2. /\ counts = [true_positive |-> b, false_positive |-> fp, false_negative |-> fn,
                     true_negative |-> Cardinality(E \ (A \cup B))]
        /\ SamePairs(t) = Cardinality(A) /\ SamePairs(p) = Cardinality(B)
        /\ SamePairs(Contingency(t, p)) = b
        /\ ChooseTwo(Len(t)) = e
        /\ IsFiniteSet(E) /\ A \in SUBSET E /\ B \in SUBSET E
    BY Zenon, <2>1, PairCountsAre
  <2>3. exact <=> A = B
    BY <2>1, ExactIs
  <2> HIDE DEF A, B, E
  <2>4. /\ b \in Nat /\ fp \in Nat /\ fn \in Nat /\ e \in Nat
        /\ Cardinality(A) = b + fn /\ Cardinality(B) = b + fp
    <3>1. Sized(E, A, B)
      BY Zenon, <2>2, FourKinds
    <3>2. IsFiniteSet(A) /\ IsFiniteSet(B)
      BY <2>2, FS_Subset
    <3>3. Cardinality(A) \in Nat /\ Cardinality(B) \in Nat
      BY <3>2, FS_CardinalityType
    <3> QED
      BY <3>1, <3>3 DEF Sized
  <2>5. A = B <=> fp + fn = 0
    <3>1. IsFiniteSet(A \ B) /\ IsFiniteSet(B \ A)
      <4>1. A \ B \in SUBSET E /\ B \ A \in SUBSET E
        BY <2>2
      <4> QED
        BY <2>2, <4>1, FS_Subset
    <3>2. (fn = 0 <=> A \ B = {}) /\ (fp = 0 <=> B \ A = {})
      BY <3>1, FS_EmptySet
    <3>3. A = B <=> A \ B = {} /\ B \ A = {}
      OBVIOUS
    <3>4. fp + fn = 0 <=> fp = 0 /\ fn = 0
      <4> HIDE DEF fp, fn
      <4> QED
        BY <2>4
    <3> QED
      BY <3>2, <3>3, <3>4
  <2>6. exact <=> counts.false_positive + counts.false_negative = 0
    <3>1. counts.false_positive = fp /\ counts.false_negative = fn
      BY <2>2
    <3> QED
      BY <2>3, <2>5, <3>1
  <2> DEFINE T == b + fn
             P == b + fp
             numerator == 2 * (b * e - T * P)
             denominator == (T + P) * e - 2 * T * P
  <2>7. ari = IF Len(t) < 2 \/ denominator = 0
              THEN <<IF exact THEN 1 ELSE 0, 1>> ELSE <<numerator, denominator>>
    <3> HIDE DEF b, e, fn, fp, counts
    <3>1. ari = IF Len(t) < 2 \/ (SamePairs(t) + SamePairs(p)) * ChooseTwo(Len(t))
                                     - 2 * SamePairs(t) * SamePairs(p) = 0
                THEN <<IF exact THEN 1 ELSE 0, 1>>
                ELSE <<2 * (SamePairs(Contingency(t, p)) * ChooseTwo(Len(t))
                               - SamePairs(t) * SamePairs(p)),
                       (SamePairs(t) + SamePairs(p)) * ChooseTwo(Len(t))
                           - 2 * SamePairs(t) * SamePairs(p)>>
      BY Zenon DEF AdjustedRandIndex
    <3>2. SamePairs(t) = T /\ SamePairs(p) = P
      BY <2>2, <2>4
    <3> HIDE DEF T, P, ari, exact
    <3> QED
      BY Zenon, <2>2, <3>1, <3>2
  <2>8. Len(t) >= 2 => e # 0
    <3>1. n \in Nat /\ Len(t) = n
      BY <2>1 DEF Labelled
    <3>2. n >= 2 => ChooseTwo(n) # 0
      <4> SUFFICES ASSUME n >= 2 PROVE n * (n - 1) >= 2
        BY <3>1 DEF ChooseTwo
      <4> QED
        BY <3>1
    <3> QED
      BY <2>2, <3>1, <3>2
  <2>9. /\ denominator - numerator = (fn + fp) * e
        /\ numerator \in Int /\ denominator \in Int
        /\ (fn + fp) * e >= 0
        /\ e # 0 => ((fn + fp) * e = 0 <=> fn + fp = 0)
    <3> HIDE DEF b, e, fn, fp
    <3> QED
      BY <2>4, IndexArithmetic
  <2>10. exact <=> fn + fp = 0
    <3> HIDE DEF fn, fp, exact
    <3> QED
      BY <2>3, <2>4, <2>5
  <2>11. (exact <=> ari[1] = ari[2]) /\ ari[1] <= ari[2]
    <3> HIDE DEF ari
    <3>1. CASE Len(t) < 2 \/ denominator = 0
      <4>1. ari[1] = (IF exact THEN 1 ELSE 0) /\ ari[2] = 1
        BY <2>7, <3>1
      <4> QED
        BY <4>1
    <3>2. CASE ~ (Len(t) < 2 \/ denominator = 0)
      <4>1. ari[1] = numerator /\ ari[2] = denominator
        BY <2>7, <3>2
      <4>2. e # 0
        BY <2>1, <2>8, <3>2 DEF Labelled
      <4> DEFINE x == (fn + fp) * e
      <4>3. x >= 0 /\ x \in Int /\ denominator - numerator = x /\ (x = 0 <=> exact)
        <5> HIDE DEF e, fn, fp, numerator, denominator, exact
        <5> QED
          BY <2>4, <2>9, <2>10, <4>2
      <4> HIDE DEF numerator, denominator, x, exact
      <4> QED
        BY <2>9, <4>1, <4>3
    <3> QED
      BY <3>1, <3>2
  <2> DEFINE f1 == F1(counts)
  <2>12. f1 # None => (exact <=> f1[1] = f1[2]) /\ f1[1] <= f1[2]
    <3> SUFFICES ASSUME f1 # None PROVE (exact <=> f1[1] = f1[2]) /\ f1[1] <= f1[2]
      OBVIOUS
    <3>1. /\ counts.true_positive \in Nat
          /\ counts.false_positive \in Nat /\ counts.false_negative \in Nat
      <4> HIDE DEF b, fp, fn
      <4> QED
        BY <2>2, <2>4
    <3> HIDE DEF counts, exact
    <3>2. /\ f1[1] = f1[2] <=> counts.false_positive + counts.false_negative = 0
          /\ f1[1] <= f1[2]
      BY <3>1, F1OfPerfection
    <3> HIDE DEF f1
    <3> QED
      BY <2>6, <3>2, Zenon
  <2> QED
    BY Zenon, <2>6, <2>11, <2>12 DEF t, p, f1
<1> QED
  BY DataAlways, <1>1, PTL

-----------------------------------------------------------------------------
(* What the segments of a report add up to. *)

\* A number of groups is a natural number.
LEMMA GroupCountType ==
    ASSUME NEW labels, NEW n \in Nat, labels = [i \in 1..n |-> labels[i]],
           \A i \in 1..n : labels[i] \in Nat
    PROVE  GroupCount(labels) \in Nat
<1>1. CASE labels = << >>
  BY <1>1 DEF GroupCount
<1>2. CASE labels # << >>
  <2> DEFINE R == Range(labels)
  <2>1. DOMAIN labels = 1..n /\ n # 0
    <3>1. DOMAIN labels = 1..n
      OBVIOUS
    <3>2. CASE n = 0
      <4>1. labels = << >>
        <5>1. 1..n = {} /\ DOMAIN << >> = {}
          BY <3>2
        <5>2. labels = [i \in {} |-> labels[i]]
          BY <5>1
        <5> QED
          BY <5>2
      <4> QED
        BY <1>2, <4>1
    <3> QED
      BY <3>1, <3>2
  <2>2. GroupCount(labels) = Max(R) + 1
    BY <1>2 DEF GroupCount
  <2>3. CASE R # {}
    <3>1. R \in SUBSET Nat
      BY <2>1 DEF Range
    <3>2. IsFiniteSet(R)
      <4> DEFINE f == [i \in 1..n |-> labels[i]]
      <4>1. f \in Surjection(1..n, R)
        BY <2>1 DEF Surjection, Range
      <4>2. IsFiniteSet(1..n)
        BY Zenon, IntervalIsFinite
      <4> HIDE DEF f, R
      <4> QED
        BY <4>1, <4>2, FS_Surjection
    <3> HIDE DEF R
    <3>3. \E x \in R : \A y \in R : y <= x
      BY <2>3, <3>1, <3>2, GreatestOfFinite
    <3>4. \E x \in R : \A y \in R : x >= y
      BY <3>1, <3>3
    <3>5. Max(R) \in R
      BY <3>4, Zenon DEF Max
    <3> DEFINE x == Max(R)
    <3>6. x \in Nat
      BY <3>1, <3>5
    <3> HIDE DEF x
    <3>7. x + 1 \in Nat
      BY <3>6
    <3> QED
      BY <2>2, <3>7 DEF x, R
  <2>4. CASE R = {}
    <3>1. labels[1] \in R
      BY <2>1 DEF Range
    <3> QED
      BY <2>4, <3>1
  <2> QED
    BY <2>2, <2>3, <2>4
<1> QED
  BY <1>1, <1>2

\* What a sample is scored by: numbers of its own.
Scored(s) ==
    /\ \A kind \in PairKinds : s.pair_counts[kind] \in Nat
    /\ s.group_count_error \in Nat

\* A record that is accepted is scored by natural numbers.
LEMMA SamplesAreScored ==
    ASSUME NEW r \in DataRecord, ValidateRecord(r),
           PathsOf(r.groups) \in Seq(Seq(Nat)), NEW kind \in BaselineKinds
    PROVE  Scored(ScoreSample(r, TargetPartition(r).ok, Predict(r.paths, kind)))
<1> DEFINE t == TargetPartition(r).ok
           p == Predict(r.paths, kind)
           n == Len(r.paths)
           s == ScoreSample(r, t, p)
           error == GroupCount(t) - GroupCount(p)
<1>1. /\ n \in Nat /\ DOMAIN r.paths = 1..n /\ DOMAIN t = 1..n /\ Len(t) = n
      /\ t = [i \in 1..n |-> t[i]] /\ \A i \in 1..n : t[i] \in Nat
  BY TargetLabels
<1>2. /\ DOMAIN p = 1..n /\ p = [i \in 1..n |-> p[i]]
      /\ \A i \in 1..n : p[i] \in Nat
  BY <1>1, PredictedLabels
<1>3. s.pair_counts = PairCounts(t, p) /\ s.group_count_error = Max({error, -error})
  <2> HIDE DEF t, p
  <2> QED
    BY DEF ScoreSample
<1> HIDE DEF t, p, n, s
<1>4. GroupCount(t) \in Nat /\ GroupCount(p) \in Nat
  BY <1>1, <1>2, GroupCountType
<1>5. Max({error, -error}) \in Nat
  <2>1. error \in Int
    BY <1>4
  <2> HIDE DEF error
  <2>2. \E x \in {error, -error} : \A y \in {error, -error} : x >= y
    <3>1. CASE error >= 0
      BY <2>1, <3>1
    <3>2. CASE ~ error >= 0
      BY <2>1, <3>2
    <3> QED
      BY <3>1, <3>2
  <2> DEFINE S == {error, -error}
             x == Max(S)
  <2>3. x \in S /\ \A y \in S : x >= y
    BY <2>2, Zenon DEF Max
  <2> HIDE DEF x
  <2>4. x \in Nat
    BY <2>1, <2>3
  <2> QED
    BY <2>4 DEF x
<1>6. Labelled(t, p, n)
  BY <1>1, <1>2 DEF Labelled
<1>7. \A k \in PairKinds : PairCounts(t, p)[k] \in Nat
  <2> DEFINE A == Same(t)
             B == Same(p)
             E == Pairs(DOMAIN t)
  <2>1. /\ PairCounts(t, p) = [true_positive |-> Cardinality(A \cap B),
                               false_positive |-> Cardinality(B \ A),
                               false_negative |-> Cardinality(A \ B),
                               true_negative |-> Cardinality(E \ (A \cup B))]
        /\ IsFiniteSet(E) /\ A \in SUBSET E /\ B \in SUBSET E
    BY Zenon, <1>6, PairCountsAre
  <2> HIDE DEF A, B, E
  <2>2. Sized(E, A, B)
    BY Zenon, <2>1, FourKinds
  <2>3. /\ Cardinality(A \cap B) \in Nat /\ Cardinality(B \ A) \in Nat
        /\ Cardinality(A \ B) \in Nat /\ Cardinality(E \ (A \cup B)) \in Nat
    BY <2>2 DEF Sized
  <2> QED
    BY <2>1, <2>3 DEF PairKinds
<1>8. Scored(s)
  BY <1>3, <1>5, <1>7 DEF Scored
<1> QED
  BY <1>8 DEF s, t, p

\* The segments of some samples, by their keys.
LEMMA SegmentIs ==
    ASSUME NEW samples, NEW by
    PROVE  LET key == [i \in DOMAIN samples |-> SegmentKey(by, samples[i])]
               K == Keys(DOMAIN samples, key)
           IN /\ DOMAIN Segment(samples, by) = K
              /\ \A k \in K : Segment(samples, by)[k] =
                    AggregateMetrics(samples, WithKey(DOMAIN samples, key, k))
<1> DEFINE E == DOMAIN samples
           key == [i \in E |-> SegmentKey(by, samples[i])]
           K == Keys(E, key)
           col == Column(samples, LAMBDA s : SegmentKey(by, s))
<1>1. col = key
  BY DEF Column
<1>2. Segment(samples, by) =
         [k \in Range(col) |-> AggregateMetrics(samples, Having(k, samples, by))]
  BY DEF Segment
<1>3. Range(key) = K
  BY DEF Range, Keys
<1>4. \A k : Having(k, samples, by) = WithKey(E, key, k)
  BY DEF Having, WithKey
<1> HIDE DEF key, K, col, E
<1> QED
  BY <1>1, <1>2, <1>3, <1>4 DEF key, K, E

\* What the metrics of some samples are.
MeasuredBy(m, samples, chosen) ==
    /\ m.samples = Cardinality(chosen)
    /\ m.exact = Cardinality({i \in chosen : samples[i].exact})
    /\ m.group_count_error = SumFunction([i \in chosen |-> samples[i].group_count_error])
    /\ \A kind \in PairKinds :
          m.pair_counts[kind] = SumFunction([i \in chosen |-> samples[i].pair_counts[kind]])

\* AggregateMetrics measures the samples that are chosen.
LEMMA MetricsAre ==
    ASSUME NEW samples, NEW chosen
    PROVE  MeasuredBy(AggregateMetrics(samples, chosen), samples, chosen)
BY DEF AggregateMetrics, MeasuredBy

\* The metrics of the segments add up to those of the whole.
AddsUp(segments, whole) ==
    LET K == DOMAIN segments IN
    /\ SumFunction([k \in K |-> segments[k].samples]) = whole.samples
    /\ SumFunction([k \in K |-> segments[k].exact]) = whole.exact
    /\ SumFunction([k \in K |-> segments[k].group_count_error]) = whole.group_count_error
    /\ \A kind \in PairKinds :
          SumFunction([k \in K |-> segments[k].pair_counts[kind]]) = whole.pair_counts[kind]

\* The segments of scored samples add up to the metrics of all of them.
LEMMA SegmentsAddUpTo ==
    ASSUME NEW samples, IsFiniteSet(DOMAIN samples),
           \A i \in DOMAIN samples : Scored(samples[i]), NEW by
    PROVE  AddsUp(Segment(samples, by), AggregateMetrics(samples, DOMAIN samples))
<1> DEFINE E == DOMAIN samples
           key == [i \in E |-> SegmentKey(by, samples[i])]
           K == Keys(E, key)
           segments == Segment(samples, by)
           whole == AggregateMetrics(samples, E)
           H(k) == WithKey(E, key, k)
<1>1. /\ DOMAIN segments = K
      /\ \A k \in K : segments[k] = AggregateMetrics(samples, H(k))
  BY SegmentIs
<1>2. IsFiniteSet(E)
  OBVIOUS
<1> HIDE DEF E, key, K, segments, whole
<1>0. /\ \A k \in K : MeasuredBy(segments[k], samples, H(k))
      /\ MeasuredBy(whole, samples, E)
  <2>1. ASSUME NEW k \in K
        PROVE  MeasuredBy(segments[k], samples, H(k))
    <3>1. segments[k] = AggregateMetrics(samples, H(k))
      BY <1>1
    <3> QED
      BY Zenon, <3>1, MetricsAre
  <2>2. MeasuredBy(whole, samples, E)
    BY MetricsAre DEF whole
  <2> QED
    BY <2>1, <2>2
<1>3. SumFunction([k \in K |-> segments[k].samples]) = whole.samples
  <2>1. \A k \in K : segments[k].samples = Cardinality(H(k) \cap E)
    <3>1. \A k : H(k) \cap E = H(k)
      BY DEF WithKey
    <3>2. \A k \in K : segments[k].samples = Cardinality(H(k))
      BY Zenon, <1>0 DEF MeasuredBy
    <3> QED
      BY <3>1, <3>2
  <2>2. [k \in K |-> segments[k].samples] = [k \in K |-> Cardinality(H(k) \cap E)]
    BY <2>1
  <2>3. SumFunction([k \in K |-> Cardinality(H(k) \cap E)]) = Cardinality(E)
    BY <1>2, KeysCount DEF K
  <2>4. whole.samples = Cardinality(E)
    BY Zenon, <1>0 DEF MeasuredBy
  <2> QED
    BY <2>2, <2>3, <2>4
<1>4. SumFunction([k \in K |-> segments[k].exact]) = whole.exact
  <2> DEFINE S == {i \in E : samples[i].exact}
  <2>1. \A k \in K : segments[k].exact = Cardinality(H(k) \cap S)
    <3>1. \A k : H(k) \cap S = {i \in H(k) : samples[i].exact}
      BY DEF WithKey
    <3>2. \A k \in K : segments[k].exact = Cardinality({i \in H(k) : samples[i].exact})
      BY Zenon, <1>0 DEF MeasuredBy
    <3> HIDE DEF S
    <3> QED
      BY <3>1, <3>2
  <2>2. [k \in K |-> segments[k].exact] = [k \in K |-> Cardinality(H(k) \cap S)]
    <3> HIDE DEF S
    <3> QED
      BY <2>1
  <2>3. SumFunction([k \in K |-> Cardinality(H(k) \cap S)]) = Cardinality(S)
    <3>1. S \in SUBSET E
      OBVIOUS
    <3> HIDE DEF S
    <3> QED
      BY <1>2, <3>1, KeysCount DEF K
  <2>4. whole.exact = Cardinality(S)
    BY Zenon, <1>0 DEF MeasuredBy
  <2> QED
    BY <2>2, <2>3, <2>4
<1>5. SumFunction([k \in K |-> segments[k].group_count_error]) = whole.group_count_error
  <2> DEFINE f == [i \in E |-> samples[i].group_count_error]
  <2>1. f \in [E -> Nat]
    BY DEF Scored, E
  <2>2. \A i \in E : f[i] = samples[i].group_count_error
    OBVIOUS
  <2> HIDE DEF f
  <2>3. \A k \in K : segments[k].group_count_error = SumFunction([i \in H(k) |-> f[i]])
    <3> TAKE k \in K
    <3>1. segments[k].group_count_error
             = SumFunction([i \in H(k) |-> samples[i].group_count_error])
      BY Zenon, <1>0 DEF MeasuredBy
    <3>2. \A i \in H(k) : f[i] = samples[i].group_count_error
      BY <2>2 DEF WithKey
    <3>3. [i \in H(k) |-> samples[i].group_count_error] = [i \in H(k) |-> f[i]]
      BY <3>2
    <3> QED
      BY <3>1, <3>3
  <2>4. [k \in K |-> segments[k].group_count_error]
            = [k \in K |-> SumFunction([i \in H(k) |-> f[i]])]
    BY <2>3
  <2>5. SumFunction([k \in K |-> SumFunction([i \in H(k) |-> f[i]])])
            = SumFunction([i \in E |-> f[i]])
    <3>1. KeySum(E, key, f) = SumFunction([i \in E |-> f[i]])
      BY <1>2, <2>1, KeysAddUp
    <3> QED
      BY Zenon, <3>1 DEF KeySum, K
  <2>6. whole.group_count_error = SumFunction([i \in E |-> f[i]])
    <3>1. whole.group_count_error = SumFunction([i \in E |-> samples[i].group_count_error])
      BY Zenon, <1>0 DEF MeasuredBy
    <3>2. [i \in E |-> samples[i].group_count_error] = [i \in E |-> f[i]]
      BY <2>2
    <3> QED
      BY <3>1, <3>2
  <2> QED
    BY <2>4, <2>5, <2>6
<1>6. ASSUME NEW kind \in PairKinds
      PROVE  SumFunction([k \in K |-> segments[k].pair_counts[kind]]) = whole.pair_counts[kind]
  <2> DEFINE f == [i \in E |-> samples[i].pair_counts[kind]]
  <2>1. f \in [E -> Nat]
    BY DEF Scored, E
  <2>2. \A i \in E : f[i] = samples[i].pair_counts[kind]
    OBVIOUS
  <2> HIDE DEF f
  <2>3. \A k \in K : segments[k].pair_counts[kind] = SumFunction([i \in H(k) |-> f[i]])
    <3> TAKE k \in K
    <3>1. segments[k].pair_counts[kind]
             = SumFunction([i \in H(k) |-> samples[i].pair_counts[kind]])
      BY Zenon, <1>0 DEF MeasuredBy
    <3>2. \A i \in H(k) : f[i] = samples[i].pair_counts[kind]
      BY <2>2 DEF WithKey
    <3>3. [i \in H(k) |-> samples[i].pair_counts[kind]] = [i \in H(k) |-> f[i]]
      BY <3>2
    <3> QED
      BY <3>1, <3>3
  <2>4. [k \in K |-> segments[k].pair_counts[kind]]
            = [k \in K |-> SumFunction([i \in H(k) |-> f[i]])]
    BY <2>3
  <2>5. SumFunction([k \in K |-> SumFunction([i \in H(k) |-> f[i]])])
            = SumFunction([i \in E |-> f[i]])
    <3>1. KeySum(E, key, f) = SumFunction([i \in E |-> f[i]])
      BY <1>2, <2>1, KeysAddUp
    <3> QED
      BY Zenon, <3>1 DEF KeySum, K
  <2>6. whole.pair_counts[kind] = SumFunction([i \in E |-> f[i]])
    <3>1. whole.pair_counts[kind] = SumFunction([i \in E |-> samples[i].pair_counts[kind]])
      BY Zenon, <1>0 DEF MeasuredBy
    <3>2. [i \in E |-> samples[i].pair_counts[kind]] = [i \in E |-> f[i]]
      BY <2>2
    <3> QED
      BY <3>1, <3>2
  <2> QED
    BY <2>4, <2>5, <2>6
<1> QED
  BY Zenon, <1>1, <1>3, <1>4, <1>5, <1>6 DEF AddsUp, segments, whole, E

\* Every segmentation of a report accounts for every sample once.
THEOREM SegmentsAccountForAll == MCSpec => []SegmentsAddUp
<1>1. DataIInv => SegmentsAddUp
  <2> SUFFICES ASSUME DataIInv, NEW report \in Reports \ {Failure}, NEW by \in Segmentations
               PROVE  AddsUp(report.ok.segments[by], report.ok.aggregate)
    BY DEF SegmentsAddUp, AddsUp
  <2>1. subject = "dataset" /\ sample # << >> /\ ValidateRecordSet(sample)
    BY ReportIs
  <2>2. PICK kind \in BaselineKinds :
           LET samples == Column(sample, LAMBDA r :
                         ScoreSample(r, TargetPartition(r).ok,
                                     Predict(r.paths, kind)))
           IN report = Ok([samples |-> samples,
                         aggregate |-> AggregateMetrics(samples, DOMAIN samples),
                         segments |-> [s \in Segmentations |-> Segment(samples, s)]])
    BY ReportIs
  <2> DEFINE score(r) == ScoreSample(r, TargetPartition(r).ok,
                                          Predict(r.paths, kind))
             samples == [i \in DOMAIN sample |-> score(sample[i])]
  <2>3. report = Ok([samples |-> samples,
                     aggregate |-> AggregateMetrics(samples, DOMAIN samples),
                     segments |-> [s \in Segmentations |-> Segment(samples, s)]])
    BY <2>2 DEF Column
  <2>4. IsFiniteSet(DOMAIN samples)
    <3>1. DOMAIN sample = 1..Len(sample) /\ Len(sample) \in Nat
      BY <2>1, LenProperties DEF DataIInv
    <3>2. IsFiniteSet(DOMAIN sample)
      BY <3>1, IntervalIsFinite
    <3> QED
      BY <3>2
  <2>5. \A i \in DOMAIN samples : Scored(samples[i])
    <3> TAKE i \in DOMAIN samples
    <3>1. i \in DOMAIN sample /\ samples[i] = score(sample[i])
      OBVIOUS
    <3>2. /\ sample[i] \in DataRecord /\ ValidateRecord(sample[i])
          /\ PathsOf(sample[i].groups) \in Seq(Seq(Nat))
      BY <2>1, <3>1, RecordsAreValid
    <3>3. Scored(score(sample[i]))
      BY <3>2, SamplesAreScored
    <3> QED
      BY <3>1, <3>3
  <2> HIDE DEF samples
  <2>6. /\ report.ok.segments[by] = Segment(samples, by)
        /\ report.ok.aggregate = AggregateMetrics(samples, DOMAIN samples)
    BY <2>3 DEF Ok
  <2> QED
    BY Zenon, <2>4, <2>5, <2>6, SegmentsAddUpTo
<1> QED
  BY DataAlways, <1>1, PTL
=============================================================================
