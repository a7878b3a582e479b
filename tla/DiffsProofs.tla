---------------------------- MODULE DiffsProofs ----------------------------
(***************************************************************************)
(* The closed forms of EffectiveDiffs, from which the other proofs reason, *)
(* are what the loops over insertion-ordered dicts of app/graph/diffs.py   *)
(* compute, for every list of attempts.                                    *)
(***************************************************************************)
EXTENDS DiffsByDict, InductionProofs, SequenceTheorems

Result == [task : DTask, files : SUBSET DPath]

Items(V) == [key : DTask, value : V]

Dicts == UNION {[P -> Nat] : P \in SUBSET DPath}

-----------------------------------------------------------------------------
(* `latest'.                                                               *)

\* Assignment to a key: in place if the key is there, at the end otherwise.
LEMMA SetItemForm ==
  ASSUME NEW V, NEW d \in Seq(Items(V)), NEW k \in DTask, NEW v \in V
  PROVE  /\ SetItem(d, k, v) \in Seq(Items(V))
         /\ \/ /\ \E i \in 1..Len(d) : d[i].key = k
               /\ Len(SetItem(d, k, v)) = Len(d)
               /\ \A i \in 1..Len(d) :
                    SetItem(d, k, v)[i] = IF d[i].key = k THEN Item(k, v) ELSE d[i]
            \/ /\ \A i \in 1..Len(d) : d[i].key # k
               /\ SetItem(d, k, v) = Append(d, Item(k, v))
<1>1. DOMAIN d = 1..Len(d) /\ Len(d) \in Nat /\ Item(k, v) \in Items(V)
  BY DEF Item, Items
<1>2. CASE \E i \in 1..Len(d) : d[i].key = k
  <2> DEFINE e == [i \in 1..Len(d) |-> IF d[i].key = k THEN Item(k, v) ELSE d[i]]
  <2>1. SetItem(d, k, v) = e
    BY <1>1, <1>2 DEF SetItem
  <2>2. e \in [1..Len(d) -> Items(V)]
    BY <1>1
  <2>3. e \in Seq(Items(V)) /\ Len(e) = Len(d)
    BY <1>1, <2>2, SeqDef, LenProperties
  <2>4. \A i \in 1..Len(d) : e[i] = IF d[i].key = k THEN Item(k, v) ELSE d[i]
    OBVIOUS
  <2> HIDE DEF e
  <2> QED BY <1>2, <2>1, <2>3, <2>4, ZenonT(30)
<1>3. CASE ~ \E i \in 1..Len(d) : d[i].key = k
  <2>1. SetItem(d, k, v) = Append(d, Item(k, v))
    BY <1>1, <1>3 DEF SetItem
  <2>2. Append(d, Item(k, v)) \in Seq(Items(V))
    BY <1>1, AppendProperties
  <2> QED BY <1>3, <2>1, <2>2, Zenon
<1> QED BY <1>2, <1>3

\* The loop obeys its equations.
LEMMA LatestUnfold ==
  ASSUME NEW rs \in Seq(Result)
  PROVE  /\ LatestLoop(rs) \in [0..Len(rs) -> Seq(Items(1..Len(rs)))]
         /\ LatestLoop(rs)[0] = <<>>
         /\ \A n \in 1..Len(rs) :
              LatestLoop(rs)[n] = SetItem(LatestLoop(rs)[n - 1], rs[n].task, n)
<1> DEFINE N == Len(rs)
           S == Seq(Items(1..N))
           loop == LatestLoop(rs)
           step == [n \in 1..N |-> [d \in S |-> SetItem(d, rs[n].task, n)]]
           Equation(f) ==
             f = [n \in 0..N |-> IF n = 0 THEN <<>> ELSE SetItem(f[n - 1], rs[n].task, n)]
<1>1. N \in Nat /\ <<>> \in S
  OBVIOUS
<1>2. step \in [1..N -> [S -> S]]
  <2>1. ASSUME NEW n \in 1..N, NEW d \in S
        PROVE  SetItem(d, rs[n].task, n) \in S
    <3>1. rs[n] \in Result
      BY ElementOfSeq
    <3>2. rs[n].task \in DTask
      BY <3>1 DEF Result
    <3> QED BY <3>2, SetItemForm
  <2> HIDE DEF S, N
  <2> QED BY <2>1
<1>3. PICK f : Recurs(f, S, <<>>, step, N)
  <2> HIDE DEF S, step, N
  <2> QED BY <1>1, <1>2, Recursion
<1>4. ASSUME NEW n \in 1..N PROVE f[n] = SetItem(f[n - 1], rs[n].task, n)
  <2>1. n - 1 \in 0..N
    BY <1>1
  <2>2. f[n - 1] \in S
    BY <1>3, <2>1 DEF Recurs
  <2>3. f[n] = step[n][f[n - 1]]
    BY <1>3 DEF Recurs
  <2> HIDE DEF S, N
  <2> QED BY <2>2, <2>3
<1>5. Equation(f)
  <2> HIDE DEF S, step
  <2> QED BY <1>3, <1>4 DEF Recurs
<1>6. Equation(loop)
  BY <1>5, Zenon DEF LatestLoop
<1>7. /\ loop = [n \in 0..N |-> loop[n]]
      /\ loop[0] = <<>>
      /\ \A n \in 1..N : loop[n] = SetItem(loop[n - 1], rs[n].task, n)
  <2>1. ASSUME NEW n \in 0..N
        PROVE  loop[n] = IF n = 0 THEN <<>> ELSE SetItem(loop[n - 1], rs[n].task, n)
    BY <1>6, Zenon
  <2>2. loop = [n \in 0..N |-> loop[n]]
    BY <1>6, Zenon
  <2> HIDE DEF loop
  <2> QED BY <1>1, <2>1, <2>2
<1> HIDE DEF loop, Equation
<1>8. Recurs(loop, S, <<>>, step, N)
  <2>1. \A n \in 1..N : loop[n - 1] \in S => loop[n] = step[n][loop[n - 1]]
    <3> HIDE DEF S, N
    <3> QED BY <1>7
  <2> HIDE DEF S, step, N
  <2> QED BY <1>1, <1>2, <1>7, <2>1, RecursionStays
<1> QED BY <1>7, <1>8 DEF Recurs, loop

\* What `latest' is after n results: it has every task seen, each with its last
\* attempt, in the order of their first attempts.
LatestIs(d, rs, n) ==
  /\ \A k \in 1..n : \E i \in 1..Len(d) : d[i].key = rs[k].task
  /\ \A i \in 1..Len(d) :
       /\ d[i].value \in 1..n
       /\ rs[d[i].value].task = d[i].key
       /\ \A j \in 1..n : rs[j].task = d[i].key => j <= d[i].value
  /\ \A i, j \in 1..Len(d) : i < j =>
       \E h \in 1..n : /\ rs[h].task = d[i].key
                       /\ \A g \in 1..h : rs[g].task # d[j].key

\* One more result keeps it so.
LEMMA LatestStep ==
  ASSUME NEW rs \in Seq(Result), NEW n \in 0..(Len(rs) - 1),
         NEW d \in Seq(Items(1..Len(rs))), LatestIs(d, rs, n)
  PROVE  LatestIs(SetItem(d, rs[n + 1].task, n + 1), rs, n + 1)
<1> DEFINE k == rs[n + 1].task
           e == SetItem(d, k, n + 1)
<1>1. Len(rs) \in Nat /\ n \in Nat /\ n + 1 \in 1..Len(rs) /\ Len(d) \in Nat
  OBVIOUS
<1>2. rs[n + 1] \in Result
  BY <1>1, ElementOfSeq
<1>3. k \in DTask
  BY <1>2 DEF Result
<1>4. Item(k, n + 1).key = k /\ Item(k, n + 1).value = n + 1
  BY DEF Item
<1>5. \/ /\ \E i \in 1..Len(d) : d[i].key = k
         /\ Len(e) = Len(d)
         /\ \A i \in 1..Len(d) : e[i] = IF d[i].key = k THEN Item(k, n + 1) ELSE d[i]
      \/ /\ \A i \in 1..Len(d) : d[i].key # k
         /\ e = Append(d, Item(k, n + 1))
  <2> DEFINE V == 1..Len(rs)
             v == n + 1
  <2>1. d \in Seq(Items(V)) /\ k \in DTask /\ v \in V
    BY <1>1, <1>3
  <2>2. e = SetItem(d, k, v)
    OBVIOUS
  <2> HIDE DEF k, V, v, e
  <2>3. \/ /\ \E i \in 1..Len(d) : d[i].key = k
           /\ Len(e) = Len(d)
           /\ \A i \in 1..Len(d) : e[i] = IF d[i].key = k THEN Item(k, v) ELSE d[i]
        \/ /\ \A i \in 1..Len(d) : d[i].key # k
           /\ e = Append(d, Item(k, v))
    BY <2>1, <2>2, SetItemForm
  <2> QED BY <2>3, Zenon DEF v
<1> HIDE DEF e
<1>6. CASE /\ \E i \in 1..Len(d) : d[i].key = k
           /\ Len(e) = Len(d)
           /\ \A i \in 1..Len(d) : e[i] = IF d[i].key = k THEN Item(k, n + 1) ELSE d[i]
  <2>1. \A i \in 1..Len(d) :
          /\ e[i].key = d[i].key
          /\ d[i].key = k => e[i].value = n + 1
          /\ d[i].key # k => e[i].value = d[i].value
    BY <1>4, <1>6
  <2>2. ASSUME NEW j \in 1..(n + 1)
        PROVE  \E i \in 1..Len(e) : e[i].key = rs[j].task
    <3>1. CASE j = n + 1
      BY <1>6, <2>1, <3>1
    <3>2. CASE j # n + 1
      <4>1. j \in 1..n
        BY <1>1, <3>2
      <4>2. PICK i \in 1..Len(d) : d[i].key = rs[j].task
        BY <4>1 DEF LatestIs
      <4> QED BY <1>6, <2>1, <4>2
    <3> QED BY <3>1, <3>2
  <2>3. ASSUME NEW i \in 1..Len(e)
        PROVE  /\ e[i].value \in 1..(n + 1)
               /\ rs[e[i].value].task = e[i].key
               /\ \A j \in 1..(n + 1) : rs[j].task = e[i].key => j <= e[i].value
    <3>1. CASE d[i].key = k
      BY <1>1, <1>6, <2>1, <3>1
    <3>2. CASE d[i].key # k
      <4>1. /\ d[i].value \in 1..n /\ rs[d[i].value].task = d[i].key
            /\ \A j \in 1..n : rs[j].task = d[i].key => j <= d[i].value
        BY <1>6 DEF LatestIs
      <4>2. e[i].value = d[i].value /\ e[i].key = d[i].key
        BY <1>6, <2>1, <3>2
      <4>3. \A j \in 1..(n + 1) : rs[j].task = d[i].key => j \in 1..n
        BY <1>1, <3>2
      <4> QED BY <1>1, <4>1, <4>2, <4>3
    <3> QED BY <3>1, <3>2
  <2>4. ASSUME NEW i \in 1..Len(e), NEW j \in 1..Len(e), i < j
        PROVE  \E h \in 1..(n + 1) : /\ rs[h].task = e[i].key
                                     /\ \A g \in 1..h : rs[g].task # e[j].key
    <3>1. PICK h \in 1..n : rs[h].task = d[i].key /\ \A g \in 1..h : rs[g].task # d[j].key
      BY <1>6, <2>4 DEF LatestIs
    <3>2. h \in 1..(n + 1) /\ e[i].key = d[i].key /\ e[j].key = d[j].key
      BY <1>1, <1>6, <2>1
    <3> QED BY <3>1, <3>2
  <2> QED BY <2>2, <2>3, <2>4 DEF LatestIs, e
<1>7. CASE /\ \A i \in 1..Len(d) : d[i].key # k
           /\ e = Append(d, Item(k, n + 1))
  <2>1. /\ Len(e) = Len(d) + 1 /\ e[Len(d) + 1] = Item(k, n + 1)
        /\ \A i \in 1..Len(d) : e[i] = d[i]
    BY <1>7, AppendProperties
  <2>2. \A i \in 1..Len(e) : i = Len(d) + 1 \/ i \in 1..Len(d)
    BY <1>1, <2>1
  <2>3. \A g \in 1..n : rs[g].task # k
    <3>1. \A g \in 1..n : \E i \in 1..Len(d) : d[i].key = rs[g].task
      BY DEF LatestIs
    <3> HIDE DEF k
    <3> QED BY <1>7, <3>1
  <2>4. ASSUME NEW j \in 1..(n + 1)
        PROVE  \E i \in 1..Len(e) : e[i].key = rs[j].task
    <3>1. CASE j = n + 1
      BY <1>1, <1>4, <2>1, <3>1
    <3>2. CASE j # n + 1
      <4>1. j \in 1..n
        BY <1>1, <3>2
      <4>2. PICK i \in 1..Len(d) : d[i].key = rs[j].task
        BY <4>1 DEF LatestIs
      <4>3. i \in 1..Len(e) /\ e[i].key = rs[j].task
        BY <1>1, <2>1, <4>2
      <4> QED BY <4>3
    <3> QED BY <3>1, <3>2
  <2>5. ASSUME NEW i \in 1..Len(e)
        PROVE  /\ e[i].value \in 1..(n + 1)
               /\ rs[e[i].value].task = e[i].key
               /\ \A j \in 1..(n + 1) : rs[j].task = e[i].key => j <= e[i].value
    <3>1. CASE i = Len(d) + 1
      BY <1>1, <1>4, <2>1, <3>1
    <3>2. CASE i \in 1..Len(d)
      <4>1. /\ d[i].value \in 1..n /\ rs[d[i].value].task = d[i].key
            /\ \A j \in 1..n : rs[j].task = d[i].key => j <= d[i].value
        BY <3>2 DEF LatestIs
      <4>2. e[i] = d[i] /\ d[i].key # k
        BY <1>7, <2>1, <3>2
      <4>3. \A j \in 1..(n + 1) : rs[j].task = d[i].key => j \in 1..n
        BY <1>1, <4>2
      <4> QED BY <1>1, <4>1, <4>2, <4>3
    <3> QED BY <2>2, <3>1, <3>2
  <2>6. ASSUME NEW i \in 1..Len(e), NEW j \in 1..Len(e), i < j
        PROVE  \E h \in 1..(n + 1) : /\ rs[h].task = e[i].key
                                     /\ \A g \in 1..h : rs[g].task # e[j].key
    <3>1. i \in 1..Len(d) /\ e[i] = d[i]
      BY <1>1, <2>1, <2>6
    <3>2. CASE j = Len(d) + 1
      <4>1. d[i].value \in 1..n /\ rs[d[i].value].task = d[i].key
        BY <3>1 DEF LatestIs
      <4>2. \A g \in 1..d[i].value : g \in 1..n
        BY <1>1, <4>1
      <4>3. e[j].key = k
        BY <1>4, <2>1, <3>2
      <4>4. d[i].value \in 1..(n + 1)
        BY <1>1, <4>1
      <4> QED BY <2>3, <3>1, <4>1, <4>2, <4>3, <4>4
    <3>3. CASE j \in 1..Len(d)
      <4>1. PICK h \in 1..n : /\ rs[h].task = d[i].key
                              /\ \A g \in 1..h : rs[g].task # d[j].key
        BY <2>6, <3>1, <3>3 DEF LatestIs
      <4>2. h \in 1..(n + 1) /\ e[j] = d[j]
        BY <1>1, <2>1, <3>3
      <4> QED BY <3>1, <4>1, <4>2
    <3> QED BY <2>2, <3>2, <3>3
  <2> QED BY <2>4, <2>5, <2>6 DEF LatestIs, e
<1> QED BY <1>5, <1>6, <1>7

\* So it is at the end of the loop.
LEMMA LatestCorrect ==
  ASSUME NEW rs \in Seq(Result)
  PROVE  /\ LatestResultsByTask(rs) \in Seq(Items(1..Len(rs)))
         /\ LatestIs(LatestResultsByTask(rs), rs, Len(rs))
<1> DEFINE loop == LatestLoop(rs)
           T == {n \in 0..Len(rs) : LatestIs(loop[n], rs, n)}
<1>1. /\ loop \in [0..Len(rs) -> Seq(Items(1..Len(rs)))]
      /\ loop[0] = <<>>
      /\ \A n \in 1..Len(rs) : loop[n] = SetItem(loop[n - 1], rs[n].task, n)
  BY LatestUnfold
<1> HIDE DEF loop
<1>2. Len(rs) \in Nat /\ 0 \in 0..Len(rs)
  OBVIOUS
<1>3. 0 \in T
  BY <1>1, <1>2 DEF LatestIs
<1>4. ASSUME NEW n \in 0..(Len(rs) - 1), n \in T
      PROVE  n + 1 \in T
  <2>1. n + 1 \in 1..Len(rs) /\ (n + 1) - 1 = n /\ n \in 0..Len(rs)
    BY <1>2
  <2>2. loop[n] \in Seq(Items(1..Len(rs))) /\ LatestIs(loop[n], rs, n)
    BY <1>1, <1>4, <2>1
  <2>3. LatestIs(SetItem(loop[n], rs[n + 1].task, n + 1), rs, n + 1)
    BY <2>2, LatestStep
  <2>4. loop[n + 1] = SetItem(loop[n], rs[n + 1].task, n + 1)
    BY <1>1, <2>1
  <2> QED BY <2>1, <2>3, <2>4
<1>5. \A n \in 0..Len(rs) : n \in T
  <2> HIDE DEF T
  <2> QED BY <1>2, <1>3, <1>4, UpToInduction
<1>6. Len(rs) \in T
  BY <1>2, <1>5
<1> QED BY <1>1, <1>2, <1>6 DEF LatestResultsByTask, loop

-----------------------------------------------------------------------------
(* `by_path'.                                                              *)

\* Item i ships and its result wrote p.
Writes(rs, succ, items, i, p) ==
  IsEffective(items[i], succ) /\ p \in rs[items[i].value].files

\* What `by_path' is after n items: it has the paths they wrote, each from the
\* last of them that wrote it.
ByPathIs(dict, rs, succ, items, n) ==
  /\ DOMAIN dict = {p \in DPath : \E i \in 1..n : Writes(rs, succ, items, i, p)}
  /\ \A p \in DOMAIN dict :
       \E i \in 1..n :
         /\ Writes(rs, succ, items, i, p) /\ dict[p] = items[i].value
         /\ \A j \in 1..n : Writes(rs, succ, items, j, p) => j <= i

\* One statement of the loop's body.
ByPathBody(rs, succ, items, n, dict) ==
  IF IsEffective(items[n], succ)
  THEN SetItems(dict, rs[items[n].value].files, items[n].value)
  ELSE dict

\* It makes a dict of a dict.
LEMMA ByPathBodyType ==
  ASSUME NEW rs \in Seq(Result), NEW succ, NEW items \in Seq(Items(1..Len(rs))),
         NEW n \in 1..Len(items), NEW dict \in Dicts
  PROVE  ByPathBody(rs, succ, items, n, dict) \in Dicts
<1>1. items[n] \in Items(1..Len(rs))
  BY ElementOfSeq
<1>2. items[n].value \in 1..Len(rs)
  BY <1>1 DEF Items
<1>3. rs[items[n].value] \in Result
  BY <1>2, ElementOfSeq
<1>4. rs[items[n].value].files \in SUBSET DPath
  BY <1>3 DEF Result
<1>5. PICK P \in SUBSET DPath : dict \in [P -> Nat]
  BY DEF Dicts
<1> DEFINE v == items[n].value
           Q == P \cup rs[v].files
<1>6. v \in Nat /\ Q \in SUBSET DPath
  BY <1>2, <1>4
<1>7. SetItems(dict, rs[v].files, v) \in [Q -> Nat]
  BY <1>5, <1>6 DEF SetItems
<1>8. SetItems(dict, rs[v].files, v) \in Dicts
  BY <1>6, <1>7 DEF Dicts
<1> QED BY <1>8 DEF ByPathBody

\* The loop obeys its equations.
LEMMA ByPathUnfold ==
  ASSUME NEW rs \in Seq(Result), NEW succ, NEW items \in Seq(Items(1..Len(rs)))
  PROVE  /\ ByPathLoop(rs, succ, items) \in [0..Len(items) -> Dicts]
         /\ ByPathLoop(rs, succ, items)[0] = EmptyDict
         /\ \A n \in 1..Len(items) :
              ByPathLoop(rs, succ, items)[n]
                = ByPathBody(rs, succ, items, n, ByPathLoop(rs, succ, items)[n - 1])
<1> DEFINE N == Len(items)
           loop == ByPathLoop(rs, succ, items)
           step == [n \in 1..N |-> [d \in Dicts |-> ByPathBody(rs, succ, items, n, d)]]
           Equation(f) ==
             f = [n \in 0..N |->
                    IF n = 0 THEN EmptyDict
                    ELSE IF IsEffective(items[n], succ)
                    THEN SetItems(f[n - 1], rs[items[n].value].files, items[n].value)
                    ELSE f[n - 1]]
<1>1. N \in Nat
  OBVIOUS
<1>2. EmptyDict \in Dicts
  <2>1. EmptyDict \in [{} -> Nat] /\ {} \in SUBSET DPath
    BY DEF EmptyDict
  <2> QED BY <2>1 DEF Dicts
<1>3. step \in [1..N -> [Dicts -> Dicts]]
  BY ByPathBodyType
<1>4. PICK f : Recurs(f, Dicts, EmptyDict, step, N)
  <2> HIDE DEF step, N
  <2> QED BY <1>1, <1>2, <1>3, Recursion
<1>5. ASSUME NEW n \in 1..N PROVE f[n] = ByPathBody(rs, succ, items, n, f[n - 1])
  <2>1. n - 1 \in 0..N
    BY <1>1
  <2>2. f[n - 1] \in Dicts
    BY <1>4, <2>1 DEF Recurs
  <2>3. f[n] = step[n][f[n - 1]]
    BY <1>4 DEF Recurs
  <2> HIDE DEF N
  <2> QED BY <2>2, <2>3
<1>6. Equation(f)
  <2>1. f = [n \in 0..N |-> f[n]] /\ f[0] = EmptyDict
    BY <1>4 DEF Recurs
  <2>2. ASSUME NEW n \in 0..N
        PROVE  f[n] = IF n = 0 THEN EmptyDict
                      ELSE IF IsEffective(items[n], succ)
                      THEN SetItems(f[n - 1], rs[items[n].value].files, items[n].value)
                      ELSE f[n - 1]
    <3>1. n = 0 \/ n \in 1..N
      BY <1>1
    <3> HIDE DEF N
    <3> QED BY <1>5, <2>1, <3>1 DEF ByPathBody
  <2> HIDE DEF N
  <2> QED BY <2>1, <2>2, Zenon
<1>7. Equation(loop)
  BY <1>6, Zenon DEF ByPathLoop
<1>8. /\ loop = [n \in 0..N |-> loop[n]]
      /\ loop[0] = EmptyDict
      /\ \A n \in 1..N : loop[n] = ByPathBody(rs, succ, items, n, loop[n - 1])
  <2>1. ASSUME NEW n \in 0..N
        PROVE  loop[n] = IF n = 0 THEN EmptyDict
                         ELSE ByPathBody(rs, succ, items, n, loop[n - 1])
    BY <1>7, Zenon DEF ByPathBody
  <2>2. loop = [n \in 0..N |-> loop[n]]
    BY <1>7, Zenon
  <2>3. 0 \in 0..N /\ \A n \in 1..N : n \in 0..N /\ n # 0
    BY <1>1
  <2> HIDE DEF loop, N, Equation
  <2> QED BY <2>1, <2>2, <2>3
<1> HIDE DEF loop, Equation
<1>9. Recurs(loop, Dicts, EmptyDict, step, N)
  <2>1. \A n \in 1..N : loop[n - 1] \in Dicts => loop[n] = step[n][loop[n - 1]]
    <3> HIDE DEF N
    <3> QED BY <1>8
  <2> HIDE DEF step, N
  <2> QED BY <1>1, <1>2, <1>3, <1>8, <2>1, RecursionStays
<1> QED BY <1>8, <1>9 DEF Recurs, loop

\* One more item keeps it so.
LEMMA ByPathStep ==
  ASSUME NEW rs \in Seq(Result), NEW succ, NEW items \in Seq(Items(1..Len(rs))),
         NEW n \in 0..(Len(items) - 1), NEW dict,
         ByPathIs(dict, rs, succ, items, n)
  PROVE  ByPathIs(ByPathBody(rs, succ, items, n + 1, dict), rs, succ, items, n + 1)
<1> DEFINE W(i, p) == Writes(rs, succ, items, i, p)
           new == ByPathBody(rs, succ, items, n + 1, dict)
           it == items[n + 1]
           written == rs[it.value].files
<1>1. Len(items) \in Nat /\ n \in Nat /\ n + 1 \in 1..Len(items) /\ n + 1 \in 1..(n + 1)
  OBVIOUS
<1>2. written \subseteq DPath
  <2>1. it \in Items(1..Len(rs))
    BY <1>1, ElementOfSeq
  <2>2. it.value \in 1..Len(rs)
    BY <2>1 DEF Items
  <2>3. rs[it.value] \in Result
    BY <2>2, ElementOfSeq
  <2> QED BY <2>3 DEF Result
<1>3. \A i \in 1..(n + 1) : i = n + 1 \/ i \in 1..n
  BY <1>1
<1>4. \A i \in 1..n : i \in 1..(n + 1) /\ i <= n + 1
  BY <1>1
<1>5. /\ DOMAIN dict = {p \in DPath : \E i \in 1..n : W(i, p)}
      /\ \A p \in DOMAIN dict :
           \E i \in 1..n : /\ W(i, p) /\ dict[p] = items[i].value
                           /\ \A j \in 1..n : W(j, p) => j <= i
  BY DEF ByPathIs
<1>6. CASE ~ IsEffective(it, succ)
  <2>1. new = dict /\ \A p : ~ W(n + 1, p)
    BY <1>6 DEF ByPathBody, Writes
  <2> HIDE DEF W, new
  <2>2. DOMAIN new = {p \in DPath : \E i \in 1..(n + 1) : W(i, p)}
    BY <1>3, <1>4, <1>5, <2>1
  <2>3. ASSUME NEW p \in DOMAIN new
        PROVE  \E i \in 1..(n + 1) : /\ W(i, p) /\ new[p] = items[i].value
                                     /\ \A j \in 1..(n + 1) : W(j, p) => j <= i
    <3>1. PICK i \in 1..n : /\ W(i, p) /\ dict[p] = items[i].value
                            /\ \A j \in 1..n : W(j, p) => j <= i
      BY <1>5, <2>1
    <3> QED BY <1>3, <1>4, <2>1, <3>1
  <2> QED BY <2>2, <2>3 DEF ByPathIs, W, new
<1>7. CASE IsEffective(it, succ)
  <2>1. /\ new = [p \in DOMAIN dict \cup written |->
                    IF p \in written THEN it.value ELSE dict[p]]
        /\ \A p : W(n + 1, p) <=> p \in written
    BY <1>7 DEF ByPathBody, SetItems, Writes
  <2> HIDE DEF W, new, written
  <2>2. DOMAIN new = {p \in DPath : \E i \in 1..(n + 1) : W(i, p)}
    <3>1. DOMAIN new = DOMAIN dict \cup written
      BY <2>1
    <3> QED BY <1>1, <1>2, <1>3, <1>4, <1>5, <2>1, <3>1
  <2>3. ASSUME NEW p \in DOMAIN new
        PROVE  \E i \in 1..(n + 1) : /\ W(i, p) /\ new[p] = items[i].value
                                     /\ \A j \in 1..(n + 1) : W(j, p) => j <= i
    <3>1. CASE p \in written
      <4>1. W(n + 1, p) /\ new[p] = items[n + 1].value
        BY <2>1, <3>1
      <4>2. \A j \in 1..(n + 1) : j <= n + 1
        BY <1>1
      <4> QED BY <1>1, <4>1, <4>2
    <3>2. CASE p \notin written
      <4>1. p \in DOMAIN dict /\ new[p] = dict[p] /\ ~ W(n + 1, p)
        BY <2>1, <3>2
      <4>2. PICK i \in 1..n : /\ W(i, p) /\ dict[p] = items[i].value
                              /\ \A j \in 1..n : W(j, p) => j <= i
        BY <1>5, <4>1
      <4> QED BY <1>3, <1>4, <4>1, <4>2
    <3> QED BY <3>1, <3>2
  <2> QED BY <2>2, <2>3 DEF ByPathIs, W, new
<1> QED BY <1>6, <1>7

\* So it is at the end of the loop.
LEMMA ByPathCorrect ==
  ASSUME NEW rs \in Seq(Result), NEW succ
  PROVE  LET items == LatestResultsByTask(rs)
         IN  ByPathIs(DiffsByPath(rs, succ), rs, succ, items, Len(items))
<1> DEFINE items == LatestResultsByTask(rs)
           loop == ByPathLoop(rs, succ, items)
           T == {n \in 0..Len(items) : ByPathIs(loop[n], rs, succ, items, n)}
<1>1. items \in Seq(Items(1..Len(rs)))
  BY LatestCorrect
<1> HIDE DEF items
<1>2. /\ loop \in [0..Len(items) -> Dicts]
      /\ loop[0] = EmptyDict
      /\ \A n \in 1..Len(items) : loop[n] = ByPathBody(rs, succ, items, n, loop[n - 1])
  BY <1>1, ByPathUnfold
<1> HIDE DEF loop
<1>3. Len(items) \in Nat /\ 0 \in 0..Len(items)
  BY <1>1
<1>4. 0 \in T
  <2>1. DOMAIN EmptyDict = {}
    BY DEF EmptyDict
  <2> QED BY <1>2, <1>3, <2>1 DEF ByPathIs
<1>5. ASSUME NEW n \in 0..(Len(items) - 1), n \in T
      PROVE  n + 1 \in T
  <2>1. n + 1 \in 1..Len(items) /\ (n + 1) - 1 = n /\ n + 1 \in 0..Len(items)
    BY <1>3
  <2>2. ByPathIs(ByPathBody(rs, succ, items, n + 1, loop[n]), rs, succ, items, n + 1)
    BY <1>1, <1>5, ByPathStep
  <2>3. loop[n + 1] = ByPathBody(rs, succ, items, n + 1, loop[n])
    BY <1>2, <2>1
  <2> QED BY <2>1, <2>2, <2>3
<1>6. \A n \in 0..Len(items) : n \in T
  <2> HIDE DEF T
  <2> QED BY <1>3, <1>4, <1>5, UpToInduction
<1>7. Len(items) \in T
  BY <1>3, <1>6
<1> QED BY <1>7 DEF DiffsByPath, loop, items

-----------------------------------------------------------------------------
(* The closed form.                                                        *)

\* Of two tasks one started first.
LEMMA StartedOrder ==
  ASSUME NEW rs \in Seq(Result), NEW j \in 1..Len(rs), NEW k \in 1..Len(rs),
         StartedBefore(rs, j, k)
  PROVE  j # k /\ ~ StartedBefore(rs, k, j)
<1>1. DOMAIN rs = 1..Len(rs) /\ Len(rs) \in Nat
  OBVIOUS
<1>2. PICK i \in 1..Len(rs) : /\ rs[i].task = rs[j].task
                              /\ \A h \in 1..i : rs[h].task # rs[k].task
  BY <1>1 DEF StartedBefore
<1>3. j # k
  BY <1>2
<1>4. ASSUME StartedBefore(rs, k, j) PROVE FALSE
  <2>1. PICK g \in 1..Len(rs) : /\ rs[g].task = rs[k].task
                                /\ \A h \in 1..g : rs[h].task # rs[j].task
    BY <1>1, <1>4 DEF StartedBefore
  <2>2. i \in 1..g \/ g \in 1..i
    BY <1>1
  <2> QED BY <1>2, <2>1, <2>2
<1> QED BY <1>3, <1>4

\* The items of `latest' are the latest attempts, in the order of StartedBefore.
LEMMA ItemsAreLatest ==
  ASSUME NEW rs \in Seq(Result)
  PROVE  LET items == LatestResultsByTask(rs)
         IN  /\ Len(items) \in Nat
             /\ \A i \in 1..Len(items) :
                  /\ items[i].value \in 1..Len(rs)
                  /\ IsLatest(rs, items[i].value)
                  /\ items[i].key = rs[items[i].value].task
             /\ \A k \in 1..Len(rs) :
                  IsLatest(rs, k) => \E i \in 1..Len(items) : items[i].value = k
             /\ \A i, j \in 1..Len(items) :
                  i < j => StartedBefore(rs, items[i].value, items[j].value)
<1> DEFINE items == LatestResultsByTask(rs)
           N == Len(rs)
<1>1. items \in Seq(Items(1..N)) /\ LatestIs(items, rs, N)
  BY LatestCorrect
<1>2. DOMAIN rs = 1..N /\ N \in Nat
  OBVIOUS
<1> HIDE DEF items
<1>3. Len(items) \in Nat
  BY <1>1
<1>4. ASSUME NEW i \in 1..Len(items)
      PROVE  /\ items[i].value \in 1..N /\ IsLatest(rs, items[i].value)
             /\ items[i].key = rs[items[i].value].task
  <2>1. /\ items[i].value \in 1..N /\ rs[items[i].value].task = items[i].key
        /\ \A j \in 1..N : rs[j].task = items[i].key => j <= items[i].value
    BY <1>1 DEF LatestIs
  <2>2. IsLatest(rs, items[i].value)
    BY <1>2, <2>1 DEF IsLatest
  <2> QED BY <2>1, <2>2
<1>5. ASSUME NEW k \in 1..N, IsLatest(rs, k)
      PROVE  \E i \in 1..Len(items) : items[i].value = k
  <2>1. PICK i \in 1..Len(items) : items[i].key = rs[k].task
    BY <1>1 DEF LatestIs
  <2>2. /\ items[i].value \in 1..N /\ rs[items[i].value].task = items[i].key
        /\ k <= items[i].value
    BY <1>1, <2>1 DEF LatestIs
  <2>3. items[i].value > k => rs[items[i].value].task # rs[k].task
    BY <1>2, <1>5, <2>2 DEF IsLatest
  <2> QED BY <2>1, <2>2, <2>3
<1>6. ASSUME NEW i \in 1..Len(items), NEW j \in 1..Len(items), i < j
      PROVE  StartedBefore(rs, items[i].value, items[j].value)
  <2>1. PICK h \in 1..N : /\ rs[h].task = items[i].key
                          /\ \A g \in 1..h : rs[g].task # items[j].key
    BY <1>1, <1>6 DEF LatestIs
  <2> QED BY <1>2, <1>4, <2>1 DEF StartedBefore
<1> QED BY <1>3, <1>4, <1>5, <1>6 DEF items

\* The diffs of the closed form are the items of by_path, and its paths those of
\* the attempts that survive.
LEMMA ClosedForm ==
  ASSUME NEW rs \in Seq(Result), NEW succ
  PROVE  LET by_path == DiffsByPath(rs, succ)
         IN  /\ EffectiveDiffs(rs, succ)
                  = {[path |-> p, content |-> by_path[p]] : p \in DOMAIN by_path}
             /\ DOMAIN by_path = UNION {rs[k].files : k \in EffectiveResults(rs, succ)}
<1> DEFINE items == LatestResultsByTask(rs)
           N == Len(items)
           by_path == DiffsByPath(rs, succ)
           W(i, p) == Writes(rs, succ, items, i, p)
           eff == EffectiveResults(rs, succ)
           Wins(k, p) ==
             /\ k \in eff /\ p \in rs[k].files
             /\ \A j \in eff : p \in rs[j].files => ~ StartedBefore(rs, k, j)
<1>1. /\ N \in Nat
      /\ \A i \in 1..N : /\ items[i].value \in 1..Len(rs)
                         /\ IsLatest(rs, items[i].value)
                         /\ items[i].key = rs[items[i].value].task
      /\ \A k \in 1..Len(rs) : IsLatest(rs, k) => \E i \in 1..N : items[i].value = k
      /\ \A i, j \in 1..N : i < j => StartedBefore(rs, items[i].value, items[j].value)
  BY ItemsAreLatest
<1>2. /\ DOMAIN by_path = {p \in DPath : \E i \in 1..N : W(i, p)}
      /\ \A p \in DOMAIN by_path :
           \E i \in 1..N : /\ W(i, p) /\ by_path[p] = items[i].value
                           /\ \A j \in 1..N : W(j, p) => j <= i
  BY ByPathCorrect DEF ByPathIs
<1> HIDE DEF items, by_path, N
<1>3. DOMAIN rs = 1..Len(rs) /\ \A k \in 1..Len(rs) : rs[k].files \subseteq DPath
  <2>1. \A k \in 1..Len(rs) : rs[k] \in Result
    BY ElementOfSeq
  <2> QED BY <2>1 DEF Result
<1>4. \A k \in eff : k \in 1..Len(rs)
  BY <1>3 DEF EffectiveResults
<1>5. \A i \in 1..N : \A p : W(i, p) <=>
          items[i].value \in eff /\ p \in rs[items[i].value].files
  BY <1>1, <1>3 DEF Writes, IsEffective, EffectiveResults
<1>6. \A k \in eff : \E i \in 1..N : items[i].value = k
  BY <1>1, <1>3 DEF EffectiveResults
<1> HIDE DEF W, eff
<1>7. DOMAIN by_path = UNION {rs[k].files : k \in eff}
  <2>1. ASSUME NEW p \in DOMAIN by_path PROVE \E k \in eff : p \in rs[k].files
    BY <1>2, <1>5, <2>1
  <2>2. ASSUME NEW k \in eff, NEW p \in rs[k].files PROVE p \in DOMAIN by_path
    <3>1. p \in DPath
      BY <1>3, <1>4
    <3>2. PICK i \in 1..N : items[i].value = k
      BY <1>6
    <3>3. W(i, p)
      BY <1>5, <3>2
    <3> QED BY <1>2, <3>1, <3>3
  <2> QED BY <2>1, <2>2
<1>8. ASSUME NEW p, NEW k, Wins(k, p)
      PROVE  p \in DOMAIN by_path /\ by_path[p] = k
  <2>1. p \in DOMAIN by_path
    BY <1>7, <1>8
  <2>2. PICK i \in 1..N : /\ W(i, p) /\ by_path[p] = items[i].value
                          /\ \A j \in 1..N : W(j, p) => j <= i
    BY <1>2, <2>1
  <2>3. PICK h \in 1..N : items[h].value = k
    BY <1>6, <1>8
  <2>4. W(h, p)
    BY <1>5, <1>8, <2>3
  <2>5. h <= i
    BY <2>2, <2>4
  <2>6. ~ (h < i)
    BY <1>1, <1>5, <1>8, <2>2, <2>3
  <2>7. h = i
    BY <1>1, <2>5, <2>6
  <2> QED BY <2>1, <2>2, <2>3, <2>7
<1>9. ASSUME NEW p \in DOMAIN by_path
      PROVE  Wins(by_path[p], p)
  <2>1. PICK i \in 1..N : /\ W(i, p) /\ by_path[p] = items[i].value
                          /\ \A j \in 1..N : W(j, p) => j <= i
    BY <1>2
  <2> DEFINE k == items[i].value
  <2>2. k \in eff /\ p \in rs[k].files
    BY <1>5, <2>1
  <2>3. ASSUME NEW j \in eff, p \in rs[j].files, StartedBefore(rs, k, j)
        PROVE  FALSE
    <3>1. PICK h \in 1..N : items[h].value = j
      BY <1>6
    <3>2. W(h, p)
      BY <1>5, <2>3, <3>1
    <3>3. h <= i
      BY <2>1, <3>2
    <3>4. j # k /\ ~ StartedBefore(rs, j, k)
      BY <1>4, <2>2, <2>3, StartedOrder
    <3>5. h < i
      BY <1>1, <3>1, <3>3, <3>4
    <3> QED BY <1>1, <3>1, <3>4, <3>5
  <2> QED BY <2>1, <2>2, <2>3
<1>10. EffectiveDiffs(rs, succ)
         = UNION {{[path |-> p, content |-> k] :
                     p \in {q \in rs[k].files :
                              \A j \in eff : q \in rs[j].files => ~ StartedBefore(rs, k, j)}} :
                  k \in eff}
  BY DEF EffectiveDiffs, eff
<1>11. ASSUME NEW d \in EffectiveDiffs(rs, succ)
       PROVE  d \in {[path |-> p, content |-> by_path[p]] : p \in DOMAIN by_path}
  <2>1. PICK k \in eff, p \in DPath : Wins(k, p) /\ d = [path |-> p, content |-> k]
    BY <1>3, <1>4, <1>10
  <2>2. p \in DOMAIN by_path /\ by_path[p] = k
    BY <1>8, <2>1
  <2> QED BY <2>1, <2>2
<1>12. ASSUME NEW p \in DOMAIN by_path
       PROVE  [path |-> p, content |-> by_path[p]] \in EffectiveDiffs(rs, succ)
  BY <1>9, <1>10
<1>13. EffectiveDiffs(rs, succ)
         = {[path |-> p, content |-> by_path[p]] : p \in DOMAIN by_path}
  BY <1>11, <1>12
<1> QED BY <1>7, <1>13 DEF by_path, eff

-----------------------------------------------------------------------------
(* The specification.                                                      *)

DictTypeOK == results \in Seq(Result) /\ succeeded \in SUBSET DTask

\* The list holds attempts.
LEMMA DictTypeCorrect == DictSpec => []DictTypeOK
<1>1. DictInit => DictTypeOK
  BY DEF DictInit, DictTypeOK
<1>2. DictTypeOK /\ [DictNext]_dvars => DictTypeOK'
  <2> SUFFICES ASSUME DictTypeOK, [DictNext]_dvars PROVE DictTypeOK'
    OBVIOUS
  <2>1. ASSUME NEW t \in DTask, NEW files \in SUBSET DPath, Attempt(t, files)
        PROVE  DictTypeOK'
    <3>1. [task |-> t, files |-> files] \in Result
      BY DEF Result
    <3> QED BY <2>1, <3>1, AppendProperties DEF Attempt, DictTypeOK
  <2>2. CASE UNCHANGED dvars
    BY <2>2 DEF dvars, DictTypeOK
  <2> QED BY <2>1, <2>2 DEF DictNext, Full
<1> QED BY <1>1, <1>2, PTL DEF DictSpec

\* effective_diffs and its dicts ship the same files by the same authors,
\* whatever the attempts were and however many.
THEOREM DictsAgree == DictSpec => []ClosedFormAgrees
<1>1. DictTypeOK => ClosedFormAgrees
  BY ClosedForm DEF DictTypeOK, ClosedFormAgrees
<1> QED BY <1>1, DictTypeCorrect, PTL

\* effective_diffs and stale_paths never ship a path twice, lose one, or remove
\* one that ships.
THEOREM PathsShippedOnce == DictSpec => []EveryPathOnce
<1>1. ASSUME DictTypeOK PROVE EveryPathOnce
  <2> DEFINE by_path == DiffsByPath(results, succeeded)
             diffs == EffectiveDiffs(results, succeeded)
             live == UNION {results[k].files : k \in EffectiveResults(results, succeeded)}
  <2>1. /\ diffs = {[path |-> p, content |-> by_path[p]] : p \in DOMAIN by_path}
        /\ DOMAIN by_path = live
    BY <1>1, ClosedForm DEF DictTypeOK
  <2> HIDE DEF by_path, live
  <2> HIDE DEF diffs
  <2>2. PathsOf(diffs) = live
    <3>1. \A d \in diffs : \E p \in live : d.path = p
      BY <2>1
    <3>2. ASSUME NEW p \in live PROVE \E d \in diffs : d.path = p
      <4>1. [path |-> p, content |-> by_path[p]] \in diffs
        BY <2>1
      <4> QED BY <4>1
    <3> QED BY <3>1, <3>2 DEF PathsOf
  <2>3. \A d, e \in diffs : d.path = e.path => d = e
    BY <2>1
  <2>4. StalePaths(results, succeeded) = EverWritten(results) \ live
    BY <2>2 DEF StalePaths, diffs
  <2> QED BY <2>2, <2>3, <2>4 DEF EveryPathOnce, live, diffs
<1> QED BY <1>1, DictTypeCorrect, PTL
=============================================================================
