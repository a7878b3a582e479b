--------------------------- MODULE PlanningProofs ---------------------------
(***************************************************************************)
(* Planning for every source repository and every answer of the model:     *)
(* ids, task ids and plans, from any names and slugs.                      *)
(***************************************************************************)
EXTENDS Planning, InductionProofs, SequenceTheorems, FiniteSetTheorems

-----------------------------------------------------------------------------
(* _assign_id.                                                             *)

\* Suffixes make ids, and different suffixes different ids.
LEMMA SuffixedIds ==
  ASSUME NEW kind \in Kind, NEW name \in Name
  PROVE  /\ Base(kind, name) \in UnitId
         /\ \A n \in Nat : WithSuffix(Base(kind, name), n) \in UnitId
         /\ \A n, m \in Nat :
              WithSuffix(Base(kind, name), n) = WithSuffix(Base(kind, name), m) => n = m
<1> DEFINE slug == Slugify[name]
<1>1. slug \in Seq(Word) /\ slug # <<>>
  <2>1. slug \in Slug
    BY PlanningAssumption
  <2> HIDE DEF slug
  <2>2. slug \in Seq(Word) /\ (slug = <<EmptyWord>> \/ slug # <<>>)
    BY <2>1 DEF Slug
  <2>3. \A x : <<x>> # <<>>
    OBVIOUS
  <2> QED BY <2>2, <2>3, Zenon
<1> HIDE DEF slug
<1>2. Base(kind, name) = [kind |-> kind, slug |-> slug]
  BY DEF Base, slug
<1>3. \A n : WithSuffix(Base(kind, name), n) = [kind |-> kind, slug |-> Append(slug, Numeral(n))]
  BY <1>2 DEF WithSuffix
<1>4. ASSUME NEW n \in Nat PROVE Numeral(n) \in Word /\ Numeral(n).number = n
  <2>1. "" \in Texts
    BY PlanningAssumption DEF FixedTexts
  <2> QED BY <2>1 DEF Numeral, Word
<1>5. ASSUME NEW n \in Nat
      PROVE  /\ Append(slug, Numeral(n)) \in Seq(Word)
             /\ Append(slug, Numeral(n)) # <<>>
             /\ Append(slug, Numeral(n))[Len(slug) + 1] = Numeral(n)
  <2>1. Numeral(n) \in Word
    BY <1>4
  <2>2. /\ Append(slug, Numeral(n)) \in Seq(Word)
        /\ Append(slug, Numeral(n)) # <<>>
    BY <1>1, <2>1, AppendProperties
  <2>3. Append(slug, Numeral(n))[Len(slug) + 1] = Numeral(n)
    BY <1>1, <2>1, AppendProperties
  <2> QED BY <2>2, <2>3
<1>6. ASSUME NEW n \in Nat PROVE WithSuffix(Base(kind, name), n) \in UnitId
  <2> DEFINE w == Append(slug, Numeral(n))
  <2>1. w \in Seq(Word) /\ w # <<>> /\ WithSuffix(Base(kind, name), n) = [kind |-> kind, slug |-> w]
    BY <1>3, <1>5
  <2> HIDE DEF w
  <2> QED BY <2>1 DEF UnitId
<1>7. ASSUME NEW n \in Nat, NEW m \in Nat,
             WithSuffix(Base(kind, name), n) = WithSuffix(Base(kind, name), m)
      PROVE  n = m
  <2>1. Append(slug, Numeral(n)) = Append(slug, Numeral(m))
    BY <1>3, <1>7
  <2>2. Numeral(n) = Numeral(m)
    BY <1>5, <2>1
  <2> QED BY <1>4, <2>2
<1>8. Base(kind, name) \in UnitId
  BY <1>1, <1>2 DEF UnitId
<1> QED BY <1>6, <1>7, <1>8

\* The loop over suffixes ends, with an id that nobody has: one more suffix is
\* tried than there are ids in use.
LEMMA AssignedIdIsNew ==
  ASSUME NEW kind \in Kind, NEW name \in Name, NEW used, IsFiniteSet(used)
  PROVE  AssignId(kind, name, used) \in UnitId \ used
<1> DEFINE base == Base(kind, name)
           N == Cardinality(used)
           tried == 2..(N + 2)
           free == {n \in tried : WithSuffix(base, n) \notin used}
           least == CHOOSE n \in free : \A m \in free : n <= m
<1>1. N \in Nat
  BY FS_CardinalityType
<1>2. /\ base \in UnitId
      /\ \A n \in Nat : WithSuffix(base, n) \in UnitId
      /\ \A n, m \in Nat : WithSuffix(base, n) = WithSuffix(base, m) => n = m
  BY SuffixedIds
<1> HIDE DEF base, N
<1>3. free # {}
  <2> SUFFICES ASSUME free = {} PROVE FALSE
    OBVIOUS
  <2> DEFINE f == [n \in tried |-> WithSuffix(base, n)]
  <2>1. f \in [tried -> used]
    OBVIOUS
  <2>2. IsFiniteSet(tried) /\ Cardinality(tried) = N + 1
    BY <1>1, FS_Interval
  <2>3. Cardinality(used) < Cardinality(tried)
    BY <1>1, <2>2 DEF N
  <2> HIDE DEF f, tried
  <2>4. \E n, m \in tried : n # m /\ f[n] = f[m]
    BY <2>1, <2>2, <2>3, FS_PigeonHole
  <2> USE DEF f, tried
  <2>5. tried \subseteq Nat
    BY <1>1
  <2> QED BY <1>2, <2>4, <2>5
<1>4. free \subseteq Nat
  BY <1>1
<1>5. \E n \in free : \A m \in free : n <= m
  <2> HIDE DEF free
  <2> QED BY <1>3, <1>4, LeastNumber
<1>6. least \in free
  <2> HIDE DEF free
  <2> QED BY <1>5
<1>7. WithSuffix(base, least) \in UnitId \ used
  <2> HIDE DEF least
  <2> QED BY <1>2, <1>4, <1>6
<1>8. AssignId(kind, name, used) = IF base \notin used THEN base ELSE WithSuffix(base, least)
  BY DEF AssignId, base, N
<1> HIDE DEF least
<1> QED BY <1>2, <1>7, <1>8

-----------------------------------------------------------------------------
(* pending_units.                                                          *)

\* UnitIdsAreUnique, of any list.
UniqueIds(pus) == \A i, j \in DOMAIN pus : pus[i].id = pus[j].id => i = j

\* used_ids is finite.
LEMMA IdsAreFinite ==
  ASSUME NEW pus \in Seq(PendingUnit)
  PROVE  IsFiniteSet(Ids(pus))
<1> DEFINE N == Len(pus)
           f == [i \in 1..N |-> pus[i].id]
<1>1. N \in Nat /\ DOMAIN pus = 1..N
  OBVIOUS
<1>2. f \in Surjection(1..N, Ids(pus))
  BY <1>1 DEF Ids, Surjection
<1>3. IsFiniteSet(1..N)
  BY <1>1, FS_Interval
<1> HIDE DEF f, N
<1> QED BY <1>2, <1>3, FS_Surjection

\* A unit more, with an id of its own.
LEMMA AddUnitKeepsIdsUnique ==
  ASSUME NEW pus \in Seq(PendingUnit), NEW raw \in RawExtractedUnit,
         NEW path \in {Tree[i].path : i \in DOMAIN Tree}
  PROVE  /\ AddUnit(pus, raw, path) \in Seq(PendingUnit)
         /\ UniqueIds(pus) => UniqueIds(AddUnit(pus, raw, path))
<1> DEFINE id == AssignId(raw.kind, raw.name, Ids(pus))
           pu == [id |-> id, raw |-> raw, path |-> path]
           N == Len(pus)
           new == Append(pus, pu)
<1>1. raw.kind \in Kind /\ raw.name \in Name
  BY DEF RawExtractedUnit
<1>2. id \in UnitId \ Ids(pus)
  BY <1>1, AssignedIdIsNew, IdsAreFinite
<1> HIDE DEF id
<1>3. pu \in PendingUnit /\ pu.id = id
  BY <1>2 DEF PendingUnit
<1>4. N \in Nat /\ DOMAIN pus = 1..N
  OBVIOUS
<1> HIDE DEF pu
<1>5. /\ new \in Seq(PendingUnit) /\ Len(new) = N + 1 /\ DOMAIN new = 1..(N + 1)
      /\ new[N + 1] = pu /\ \A i \in 1..N : new[i] = pus[i]
  BY <1>3, <1>4, AppendProperties
<1>6. \A i \in 1..N : pus[i].id # id
  BY <1>2, <1>4 DEF Ids
<1>7. \A i \in 1..(N + 1) : i = N + 1 \/ i \in 1..N
  BY <1>4
<1> HIDE DEF new, N
<1>8. ASSUME UniqueIds(pus), NEW i \in 1..(N + 1), NEW j \in 1..(N + 1),
             new[i].id = new[j].id
      PROVE  i = j
  <2>1. CASE i = N + 1
    BY <1>3, <1>5, <1>6, <1>7, <1>8, <2>1
  <2>2. CASE j = N + 1
    BY <1>3, <1>5, <1>6, <1>7, <1>8, <2>2
  <2>3. CASE i \in 1..N /\ j \in 1..N
    BY <1>4, <1>5, <1>8, <2>3 DEF UniqueIds
  <2> QED BY <1>7, <2>1, <2>2, <2>3
<1>9. AddUnit(pus, raw, path) = new
  BY DEF AddUnit, new, pu, id
<1>10. UniqueIds(pus) => UniqueIds(new)
  BY <1>5, <1>8 DEF UniqueIds
<1> QED BY <1>5, <1>9, <1>10

\* The loop over the units of a file obeys its equations.
LEMMA AddUnitsUnfold ==
  ASSUME NEW pus \in Seq(PendingUnit), NEW raws \in Seq(RawExtractedUnit),
         NEW path \in {Tree[i].path : i \in DOMAIN Tree}
  PROVE  /\ AddUnitsLoop(pus, raws, path) \in [0..Len(raws) -> Seq(PendingUnit)]
         /\ AddUnitsLoop(pus, raws, path)[0] = pus
         /\ \A n \in 1..Len(raws) :
              AddUnitsLoop(pus, raws, path)[n]
                = AddUnit(AddUnitsLoop(pus, raws, path)[n - 1], raws[n], path)
<1> DEFINE N == Len(raws)
           S == Seq(PendingUnit)
           loop == AddUnitsLoop(pus, raws, path)
           body == [n \in 1..N |-> [d \in S |-> AddUnit(d, raws[n], path)]]
           Equation(f) ==
             f = [n \in 0..N |-> IF n = 0 THEN pus ELSE AddUnit(f[n - 1], raws[n], path)]
<1>1. N \in Nat /\ pus \in S
  OBVIOUS
<1>2. body \in [1..N -> [S -> S]]
  <2>1. ASSUME NEW n \in 1..N, NEW d \in S
        PROVE  AddUnit(d, raws[n], path) \in S
    <3>1. raws[n] \in RawExtractedUnit
      BY ElementOfSeq
    <3> QED BY <3>1, AddUnitKeepsIdsUnique
  <2> HIDE DEF S, N
  <2> QED BY <2>1
<1>3. PICK f : Recurs(f, S, pus, body, N)
  <2> HIDE DEF S, body, N
  <2> QED BY <1>1, <1>2, Recursion
<1>4. ASSUME NEW n \in 1..N PROVE f[n] = AddUnit(f[n - 1], raws[n], path)
  <2>1. n - 1 \in 0..N
    BY <1>1
  <2>2. f[n - 1] \in S
    BY <1>3, <2>1 DEF Recurs
  <2>3. f[n] = body[n][f[n - 1]]
    BY <1>3 DEF Recurs
  <2> HIDE DEF S, N
  <2> QED BY <2>2, <2>3
<1>5. Equation(f)
  <2> HIDE DEF S, body
  <2> QED BY <1>3, <1>4 DEF Recurs
<1>6. Equation(loop)
  BY <1>5, Zenon DEF AddUnitsLoop
<1>7. /\ loop = [n \in 0..N |-> loop[n]]
      /\ loop[0] = pus
      /\ \A n \in 1..N : loop[n] = AddUnit(loop[n - 1], raws[n], path)
  <2>1. ASSUME NEW n \in 0..N
        PROVE  loop[n] = IF n = 0 THEN pus ELSE AddUnit(loop[n - 1], raws[n], path)
    BY <1>6, Zenon
  <2>2. loop = [n \in 0..N |-> loop[n]]
    BY <1>6, Zenon
  <2>3. 0 \in 0..N /\ \A n \in 1..N : n \in 0..N /\ n # 0
    BY <1>1
  <2> HIDE DEF loop, N, S, Equation
  <2> QED BY <2>1, <2>2, <2>3
<1> HIDE DEF loop, Equation
<1>8. Recurs(loop, S, pus, body, N)
  <2>1. \A n \in 1..N : loop[n - 1] \in S => loop[n] = body[n][loop[n - 1]]
    <3> HIDE DEF S, N
    <3> QED BY <1>7
  <2> HIDE DEF S, body, N
  <2> QED BY <1>1, <1>2, <1>7, <2>1, RecursionStays
<1> QED BY <1>7, <1>8 DEF Recurs, loop

\* However many units a file has, they get ids of their own.
LEMMA AddUnitsKeepsIdsUnique ==
  ASSUME NEW pus \in Seq(PendingUnit), NEW raws \in Seq(RawExtractedUnit),
         NEW path \in {Tree[i].path : i \in DOMAIN Tree}
  PROVE  /\ AddUnits(pus, raws, path) \in Seq(PendingUnit)
         /\ UniqueIds(pus) => UniqueIds(AddUnits(pus, raws, path))
<1> DEFINE N == Len(raws)
           loop == AddUnitsLoop(pus, raws, path)
           T == {n \in 0..N : UniqueIds(loop[n])}
<1>1. /\ loop \in [0..N -> Seq(PendingUnit)]
      /\ loop[0] = pus
      /\ \A n \in 1..N : loop[n] = AddUnit(loop[n - 1], raws[n], path)
  BY AddUnitsUnfold
<1>2. N \in Nat
  OBVIOUS
<1> HIDE DEF loop
<1>3. ASSUME UniqueIds(pus) PROVE UniqueIds(loop[N])
  <2>1. 0 \in T
    BY <1>1, <1>2, <1>3
  <2>2. ASSUME NEW n \in 0..(N - 1), n \in T
        PROVE  n + 1 \in T
    <3>1. n + 1 \in 1..N /\ (n + 1) - 1 = n /\ n \in 0..N /\ n + 1 \in 0..N
      BY <1>2
    <3>2. raws[n + 1] \in RawExtractedUnit
      BY <3>1, ElementOfSeq
    <3>3. loop[n] \in Seq(PendingUnit) /\ UniqueIds(loop[n])
      BY <1>1, <2>2, <3>1
    <3>4. loop[n + 1] = AddUnit(loop[n], raws[n + 1], path)
      BY <1>1, <3>1
    <3> QED BY <3>1, <3>2, <3>3, <3>4, AddUnitKeepsIdsUnique
  <2>3. \A n \in 0..N : n \in T
    <3> HIDE DEF T, N
    <3> QED BY <1>2, <2>1, <2>2, UpToInduction
  <2> QED BY <1>2, <2>3
<1>4. loop[N] \in Seq(PendingUnit)
  BY <1>1, <1>2
<1> QED BY <1>3, <1>4 DEF AddUnits, loop

-----------------------------------------------------------------------------
(* The inductive invariant.                                                *)

\* Every call was for a file of its own, before all that are left.
CallsPerFile == step = "extract" => \A i \in files : calls < i

\* What the nodes hand on.
Handed ==
  /\ step \in {"synthesis", "planned", "failed"} =>
       units = [i \in DOMAIN pending |-> SemanticUnit(pending, pending[i])]
  /\ step = "planned" => units # <<>> /\ plan = MergeTaskLists(RunSynthesis(units))

PlanInv == TypeOK /\ UnitIdsAreUnique /\ CallsPerFile /\ Handed /\ ExtractionOvershoot

\* The loop has a file as long as there is one.
LEMMA NextFileIsLeast ==
  ASSUME TypeOK, files # {}
  PROVE  /\ NextFile \in files /\ NextFile \in 1..Len(Tree)
         /\ \A j \in files : NextFile <= j
<1>1. files \subseteq 1..Len(Tree) /\ files \subseteq Nat
  BY PlanningAssumption DEF TypeOK
<1>2. \E i \in files : \A j \in files : i <= j
  BY <1>1, LeastNumber
<1> QED BY <1>1, <1>2 DEF NextFile

\* It holds at the start.
LEMMA PlanInvInit == Init => PlanInv
<1> SUFFICES ASSUME Init PROVE PlanInv
  OBVIOUS
<1>1. Len(Tree) \in Nat /\ DOMAIN Tree = 1..Len(Tree)
  BY PlanningAssumption
<1>2. files \subseteq DOMAIN Tree
  BY DEF Init, DiscoverFiles
<1>3. TypeOK
  BY <1>1, <1>2 DEF Init, TypeOK
<1>4. UnitIdsAreUnique
  BY DEF Init, UnitIdsAreUnique
<1>5. CallsPerFile
  BY <1>1, <1>2 DEF Init, CallsPerFile
<1>6. Handed /\ ExtractionOvershoot
  BY DEF Init, Handed, ExtractionOvershoot
<1> QED BY <1>3, <1>4, <1>5, <1>6 DEF PlanInv

\* A call for the next file, whatever comes of it, is within the count, and the
\* others are still after it.
LEMMA OneMoreCall ==
  ASSUME TypeOK, CallsPerFile, step = "extract", files # {}
  PROVE  /\ calls + 1 \in 0..Len(Tree)
         /\ \A i \in files \ {NextFile} : calls + 1 < i
<1>1. /\ NextFile \in files /\ NextFile \in 1..Len(Tree)
      /\ \A j \in files : NextFile <= j
  BY NextFileIsLeast
<1>2. calls \in Nat /\ calls < NextFile /\ Len(Tree) \in Nat /\ files \subseteq Nat
  BY <1>1, PlanningAssumption DEF TypeOK, CallsPerFile
<1> QED BY <1>1, <1>2

\* Every step keeps it.
LEMMA PlanInvStep == PlanInv /\ [Next]_vars => PlanInv'
<1> SUFFICES ASSUME PlanInv, [Next]_vars PROVE PlanInv'
  OBVIOUS
<1> USE DEF PlanInv
<1>1. CASE BudgetStops
  BY <1>1 DEF BudgetStops, TypeOK, UnitIdsAreUnique, CallsPerFile, Handed,
              ExtractionOvershoot
<1>2. ASSUME files # {}, NEW response \in ExtractionResponses(Tree[NextFile].path),
             ExtractFile(response)
      PROVE  PlanInv'
  <2> DEFINE path == Tree[NextFile].path
  <2>1. NextFile \in DOMAIN Tree
    BY <1>2, NextFileIsLeast, PlanningAssumption
  <2>2. path \in {Tree[i].path : i \in DOMAIN Tree} /\ path \in DOMAIN Answers
    BY <2>1, PlanningAssumption
  <2>3. response.cost_usd \in CallCosts /\ response.units \in Answers[path]
    BY <1>2 DEF ExtractionResponses, ExtractFile
  <2>4. response.units \in Seq(RawExtractedUnit)
    BY <2>2, <2>3, PlanningAssumption
  <2>5. /\ pending' \in Seq(PendingUnit)
        /\ UniqueIds(pending) => UniqueIds(pending')
    <3>1. pending' = AddUnits(pending, response.units, path) /\ pending \in Seq(PendingUnit)
      BY <1>2 DEF ExtractFile, TypeOK
    <3> HIDE DEF path
    <3> QED BY <2>2, <2>4, <3>1, AddUnitsKeepsIdsUnique
  <2>6. UnitIdsAreUnique'
    BY <2>5 DEF UnitIdsAreUnique, UniqueIds
  <2>7. calls + 1 \in 0..Len(Tree) /\ \A i \in files \ {NextFile} : calls + 1 < i
    BY <1>2, OneMoreCall DEF ExtractFile
  <2>8. TypeOK'
    <3>1. total_cost \in Nat /\ response.cost_usd \in Nat
      BY <2>3, PlanningAssumption, Zenon DEF TypeOK
    <3> QED BY <1>2, <2>5, <2>7, <3>1 DEF ExtractFile, TypeOK
  <2>9. CallsPerFile'
    BY <1>2, <2>7 DEF ExtractFile, CallsPerFile
  <2>10. Handed'
    BY <1>2 DEF ExtractFile, Handed
  <2>11. ExtractionOvershoot'
    <3>1. /\ total_cost < RemainingUsd /\ total_cost \in Nat /\ RemainingUsd \in Nat
          /\ response.cost_usd \in Nat
          /\ total_cost' = total_cost + response.cost_usd
      BY <1>2, <2>3, PlanningAssumption DEF ExtractFile, WithinBudget, TypeOK
    <3>2. total_cost' < RemainingUsd + response.cost_usd
      BY <3>1
    <3> QED BY <2>3, <3>2 DEF ExtractionOvershoot
  <2> QED BY <2>6, <2>8, <2>9, <2>10, <2>11
<1>3. ASSUME files # {}, NEW response \in ExtractionResponses(Tree[NextFile].path),
             UnparsedAnswer(response)
      PROVE  PlanInv'
  <2>1. response.cost_usd \in CallCosts
    BY <1>3 DEF ExtractionResponses
  <2>2. calls + 1 \in 0..Len(Tree)
    BY <1>3, OneMoreCall DEF UnparsedAnswer
  <2>3. /\ total_cost < RemainingUsd /\ total_cost \in Nat /\ RemainingUsd \in Nat
        /\ response.cost_usd \in Nat
        /\ total_cost' = total_cost + response.cost_usd
    BY <1>3, <2>1, PlanningAssumption DEF UnparsedAnswer, WithinBudget, TypeOK
  <2>4. total_cost' < RemainingUsd + response.cost_usd /\ total_cost' \in Nat
    BY <2>3
  <2>5. TypeOK'
    BY <1>3, <2>2, <2>4 DEF UnparsedAnswer, TypeOK
  <2>6. UnitIdsAreUnique' /\ CallsPerFile' /\ Handed'
    BY <1>3 DEF UnparsedAnswer, UnitIdsAreUnique, CallsPerFile, Handed
  <2>7. ExtractionOvershoot'
    BY <2>1, <2>4 DEF ExtractionOvershoot
  <2> QED BY <2>5, <2>6, <2>7
<1>4. CASE ExtractionFails
  <2>1. calls + 1 \in 0..Len(Tree) /\ \A i \in files \ {NextFile} : calls + 1 < i
    BY <1>4, OneMoreCall DEF ExtractionFails
  <2>2. TypeOK' /\ CallsPerFile'
    BY <1>4, <2>1 DEF ExtractionFails, TypeOK, CallsPerFile
  <2>3. UnitIdsAreUnique' /\ Handed'
    BY <1>4 DEF ExtractionFails, UnitIdsAreUnique, Handed
  <2>4. PICK cost \in CallCosts : cost \in Nat
    BY PlanningAssumption
  <2>5. total_cost' < RemainingUsd + cost
    BY <1>4, <2>4, PlanningAssumption DEF ExtractionFails, WithinBudget, TypeOK
  <2>6. ExtractionOvershoot'
    BY <2>5 DEF ExtractionOvershoot
  <2> QED BY <2>2, <2>3, <2>6
<1>5. CASE ResolveReferences
  BY <1>5 DEF ResolveReferences, TypeOK, UnitIdsAreUnique, CallsPerFile, Handed,
              ExtractionOvershoot
<1>6. CASE Synthesis
  <2>1. TypeOK' /\ UnitIdsAreUnique' /\ CallsPerFile' /\ ExtractionOvershoot'
    BY <1>6 DEF Synthesis, TypeOK, UnitIdsAreUnique, CallsPerFile, ExtractionOvershoot
  <2>2. Handed'
    BY <1>6 DEF Synthesis, Handed
  <2> QED BY <2>1, <2>2
<1>7. CASE UNCHANGED vars
  BY <1>7 DEF vars, TypeOK, UnitIdsAreUnique, CallsPerFile, Handed, ExtractionOvershoot
<1> QED BY <1>1, <1>2, <1>3, <1>4, <1>5, <1>6, <1>7 DEF Next, Stopped

\* So it always holds.
LEMMA PlanInvariant == Spec => []PlanInv
  BY PlanInvInit, PlanInvStep, PTL DEF Spec

\* run_comprehension makes no more calls than there are source files and keeps
\* its lists in shape.
THEOREM PlanningTypes == Spec => []TypeOK
<1>1. PlanInv => TypeOK
  BY DEF PlanInv
<1> QED BY <1>1, PlanInvariant, PTL

\* _assign_id: no two units share an id, whatever the names of the repository
\* are and however their slugs collide.
THEOREM UniqueUnitIds == Spec => []UnitIdsAreUnique
<1>1. PlanInv => UnitIdsAreUnique
  BY DEF PlanInv
<1> QED BY <1>1, PlanInvariant, PTL

\* The extraction loop passes the budget that remains by less than one call.
THEOREM ExtractionOvershootsByOneCall == Spec => []ExtractionOvershoot
<1>1. PlanInv => ExtractionOvershoot
  BY DEF PlanInv
<1> QED BY <1>1, PlanInvariant, PTL

-----------------------------------------------------------------------------
(* Target paths and task ids.                                              *)

TargetPath == [dir : {d \in Seq(Word) : Len(d) = 2}, module : Slug]

\* The words the code itself contains are words, and only one is empty.
LEMMA TextsAreWords ==
  /\ \A t \in FixedTexts : Text(t) \in Word
  /\ \A t \in FixedTexts : t # "" => Text(t) # EmptyWord
<1>1. ASSUME NEW t \in FixedTexts PROVE Text(t) \in Word
  <2>1. t \in Texts
    BY PlanningAssumption
  <2> QED BY <2>1 DEF Text, Word
<1>2. ASSUME NEW t \in FixedTexts, t # "" PROVE Text(t) # EmptyWord
  <2>1. Text(t).text = t /\ EmptyWord.text = ""
    BY DEF Text, EmptyWord
  <2> QED BY <1>2, <2>1, Zenon
<1> QED BY <1>1, <1>2

\* Lists of words put together.
LEMMA JoinedWords ==
  ASSUME NEW s \in Seq(Word), NEW t \in Seq(Word)
  PROVE  /\ Len(s) \in Nat /\ Len(t) \in Nat
         /\ s \o t \in Seq(Word) /\ Len(s \o t) = Len(s) + Len(t)
         /\ \A i \in 1..Len(s) : (s \o t)[i] = s[i]
         /\ \A i \in 1..Len(t) : (s \o t)[Len(s) + i] = t[i]
<1>1. Len(s) \in Nat /\ Len(t) \in Nat
  BY LenProperties
<1>2. /\ s \o t \in Seq(Word) /\ Len(s \o t) = Len(s) + Len(t)
      /\ \A i \in 1..(Len(s) + Len(t)) :
           (s \o t)[i] = IF i <= Len(s) THEN s[i] ELSE t[i - Len(s)]
  BY ConcatProperties, Zenon
<1> DEFINE st == s \o t
<1>3. \A i \in 1..Len(s) : i \in 1..(Len(s) + Len(t)) /\ i <= Len(s)
  BY <1>1
<1>4. \A i \in 1..Len(t) : /\ Len(s) + i \in 1..(Len(s) + Len(t))
                           /\ ~ (Len(s) + i <= Len(s)) /\ (Len(s) + i) - Len(s) = i
  BY <1>1
<1> HIDE DEF st
<1>5. \A i \in 1..Len(s) : st[i] = s[i]
  BY <1>2, <1>3, Zenon DEF st
<1>6. ASSUME NEW i \in 1..Len(t) PROVE st[Len(s) + i] = t[i]
  <2>1. st[Len(s) + i] = t[(Len(s) + i) - Len(s)]
    BY <1>2, <1>4, Zenon DEF st
  <2> QED BY <1>4, <2>1
<1> QED BY <1>1, <1>2, <1>5, <1>6, Zenon DEF st

\* Lists of one and of two words.
LEMMA ShortLists ==
  /\ \A x \in Word : <<x>> \in Seq(Word) /\ Len(<<x>>) = 1 /\ <<x>>[1] = x
  /\ \A x, y \in Word : <<x, y>> \in Seq(Word) /\ Len(<<x, y>>) = 2 /\ <<x, y>>[1] = x
  OBVIOUS

\* A slug is a non-empty list of words.
LEMMA SlugIsWords ==
  ASSUME NEW w \in Slug
  PROVE  /\ w \in Seq(Word) /\ w # <<>>
         /\ w = <<EmptyWord>> \/ w[1] # EmptyWord
<1>1. w \in Seq(Word) /\ (w = <<EmptyWord>> \/ (w # <<>> /\ w[1] # EmptyWord))
  BY DEF Slug
<1>2. \A x : <<x>> # <<>>
  OBVIOUS
<1> QED BY <1>1, <1>2, Zenon

\* Words in a longer slug.
LEMMA WordsOfAList ==
  ASSUME NEW w \in Seq(Word), w # <<>>
  PROVE  Words(w) \in Seq(Word)
  BY HeadTailProperties DEF Words

\* No two slugs look the same within a longer one.
LEMMA WordsTellSlugsApart ==
  ASSUME NEW v \in Slug, NEW w \in Slug, Words(v) = Words(w)
  PROVE  v = w
<1> DEFINE empty == <<EmptyWord>>
<1>1. ASSUME NEW u \in Slug
      PROVE  \/ u = empty /\ Words(u) = <<>>
             \/ Words(u) = u /\ u # <<>>
  <2>1. u # <<>> /\ (u = empty \/ u[1] # EmptyWord)
    BY SlugIsWords
  <2>2. CASE u[1] # EmptyWord
    BY <2>1, <2>2 DEF Words
  <2>3. CASE u = empty
    <3>1. \A x : Tail(<<x>>) = <<>> /\ <<x>>[1] = x
      OBVIOUS
    <3>2. Tail(u) = <<>> /\ u[1] = EmptyWord
      BY <2>3, <3>1, Zenon
    <3> QED BY <2>3, <3>2 DEF Words
  <2> QED BY <2>1, <2>2, <2>3
<1> HIDE DEF empty
<1> QED BY <1>1

\* slugify(unit.id) is a slug.
LEMMA IdSlugIsSlug ==
  ASSUME NEW id \in UnitId
  PROVE  IdSlug(id) \in Slug
<1> DEFINE front == IF id.kind = "data_model" THEN <<Text("data"), Text("model")>>
                    ELSE <<Text(id.kind)>>
           rest == Words(id.slug)
<1>1. id.kind \in Kind /\ id.slug \in Seq(Word) /\ id.slug # <<>>
  BY DEF UnitId
<1>2. rest \in Seq(Word)
  BY <1>1, WordsOfAList
<1>3. /\ id.kind \in FixedTexts /\ id.kind # ""
      /\ "data" \in FixedTexts /\ "model" \in FixedTexts /\ "data" # ""
  BY <1>1 DEF FixedTexts, Kind
<1>4. /\ Text("data") \in Word /\ Text("model") \in Word /\ Text(id.kind) \in Word
      /\ Text("data") # EmptyWord /\ Text(id.kind) # EmptyWord
  BY <1>3, TextsAreWords
<1>5. front \in Seq(Word) /\ Len(front) \in Nat /\ Len(front) > 0 /\ front[1] # EmptyWord
  <2>1. CASE id.kind = "data_model"
    <3>1. front = <<Text("data"), Text("model")>>
      BY <2>1
    <3>2. front \in Seq(Word) /\ Len(front) = 2 /\ front[1] # EmptyWord
      BY <1>4, <3>1, ShortLists, Zenon
    <3> HIDE DEF front
    <3> QED BY <3>2
  <2>2. CASE id.kind # "data_model"
    <3>1. front = <<Text(id.kind)>>
      BY <2>2
    <3>2. front \in Seq(Word) /\ Len(front) = 1 /\ front[1] # EmptyWord
      BY <1>4, <3>1, ShortLists, Zenon
    <3> HIDE DEF front
    <3> QED BY <3>2
  <2> QED BY <2>1, <2>2
<1> HIDE DEF front, rest
<1>6. /\ front \o rest \in Seq(Word) /\ Len(front \o rest) = Len(front) + Len(rest)
      /\ Len(rest) \in Nat /\ (front \o rest)[1] = front[1]
  <2>1. 1 \in 1..Len(front)
    BY <1>5
  <2> QED BY <1>2, <2>1, <1>5, JoinedWords, Zenon
<1>7. front \o rest # <<>>
  <2>1. Len(<<>>) = 0
    OBVIOUS
  <2>2. Len(front \o rest) > 0
    BY <1>5, <1>6
  <2> QED BY <2>1, <2>2
<1>8. IdSlug(id) = front \o rest
  BY DEF IdSlug, front, rest
<1> QED BY <1>5, <1>6, <1>7, <1>8 DEF Slug

\* Every kind has a directory of two parts.
LEMMA DirsAreWords ==
  ASSUME NEW kind \in Kind
  PROVE  KindToDir[kind] \in Seq(Word) /\ Len(KindToDir[kind]) = 2
<1>1. ASSUME NEW name \in {"routers", "services", "repositories", "schemas",
                           "middleware", "core", "utils"}
      PROVE  AppDir(name) \in Seq(Word) /\ Len(AppDir(name)) = 2
  <2>1. "app" \in FixedTexts /\ name \in FixedTexts
    BY DEF FixedTexts
  <2>2. Text("app") \in Word /\ Text(name) \in Word
    BY <2>1, TextsAreWords
  <2> QED BY <2>2 DEF AppDir
<1>2. \E name \in {"routers", "services", "repositories", "schemas",
                   "middleware", "core", "utils"} : KindToDir[kind] = AppDir(name)
  BY DEF Kind, KindToDir
<1> QED BY <1>1, <1>2

\* suggest_target_path names a file in one of the directories.
LEMMA TargetPaths ==
  ASSUME NEW pus \in Seq(PendingUnit), NEW i \in DOMAIN pus
  PROVE  SuggestTargetPath(SemanticUnit(pus, pus[i])) \in TargetPath
<1> DEFINE pu == pus[i]
           unit == SemanticUnit(pus, pu)
<1>1. pu \in PendingUnit
  BY ElementOfSeq
<1>2. /\ unit.id = pu.id /\ unit.kind = pu.raw.kind /\ unit.path = pu.path
      /\ unit.payload = pu.raw.payload
  BY DEF SemanticUnit
<1>3. /\ unit.id \in UnitId /\ unit.kind \in Kind /\ unit.payload.name \in Name
      /\ unit.path \in {Tree[j].path : j \in DOMAIN Tree}
  BY <1>1, <1>2 DEF PendingUnit, RawExtractedUnit, Payload
<1> HIDE DEF unit
<1>4. FileOf(unit.path).stem \in Slug
  <2>1. \E j \in DOMAIN Tree : Tree[j].path = unit.path
    BY <1>3
  <2>2. (CHOOSE j \in DOMAIN Tree : Tree[j].path = unit.path) \in DOMAIN Tree
    BY <2>1
  <2> QED BY <2>2, PlanningAssumption DEF FileOf
<1>5. <<Text("router")>> \in Slug
  <2>1. "router" \in FixedTexts /\ "router" # ""
    BY DEF FixedTexts
  <2>2. Text("router") \in Word /\ Text("router") # EmptyWord
    BY <2>1, TextsAreWords
  <2>3. \A x \in Word : <<x>> \in Seq(Word) /\ <<x>> # <<>> /\ <<x>>[1] = x
    OBVIOUS
  <2>4. /\ <<Text("router")>> \in Seq(Word) /\ <<Text("router")>> # <<>>
        /\ <<Text("router")>>[1] # EmptyWord
    BY <2>2, <2>3, Zenon
  <2> QED BY <2>4, Zenon DEF Slug
<1>6. Slugify[unit.payload.name] \in Slug /\ IdSlug(unit.id) \in Slug
  BY <1>3, IdSlugIsSlug, PlanningAssumption
<1>7. ModuleNameFor(unit) \in Slug
  BY <1>4, <1>5, <1>6 DEF ModuleNameFor
<1>8. KindToDir[unit.kind] \in Seq(Word) /\ Len(KindToDir[unit.kind]) = 2
  BY <1>3, DirsAreWords
<1>9. \A d \in {e \in Seq(Word) : Len(e) = 2}, w \in Slug :
        [dir |-> d, module |-> w] \in TargetPath
  BY DEF TargetPath
<1>10. SuggestTargetPath(unit) \in TargetPath
  BY <1>7, <1>8, <1>9 DEF SuggestTargetPath
<1> QED BY <1>10 DEF unit

\* Two files never get the same task id.
LEMMA TaskIdsTellPathsApart ==
  ASSUME NEW p \in TargetPath, NEW q \in TargetPath, TaskId(p) = TaskId(q)
  PROVE  p = q
<1> DEFINE py == <<Text("py")>>
           v == Words(p.module)
           w == Words(q.module)
<1>1. /\ p = [dir |-> p.dir, module |-> p.module] /\ q = [dir |-> q.dir, module |-> q.module]
      /\ p.dir \in Seq(Word) /\ Len(p.dir) = 2 /\ q.dir \in Seq(Word) /\ Len(q.dir) = 2
      /\ p.module \in Slug /\ q.module \in Slug
  BY DEF TargetPath
<1>2. v \in Seq(Word) /\ w \in Seq(Word)
  BY <1>1, SlugIsWords, WordsOfAList
<1>3. py \in Seq(Word) /\ Len(py) = 1
  <2>1. "py" \in FixedTexts
    BY DEF FixedTexts
  <2>2. Text("py") \in Word
    BY <2>1, TextsAreWords
  <2> QED BY <2>2
<1> HIDE DEF py, v, w
<1> DEFINE a == p.dir \o v
           b == q.dir \o w
<1>4. /\ a \in Seq(Word) /\ Len(a) = 2 + Len(v) /\ Len(v) \in Nat
      /\ a[1] = p.dir[1] /\ a[2] = p.dir[2] /\ \A i \in 1..Len(v) : a[2 + i] = v[i]
  <2>1. /\ Len(v) \in Nat /\ a \in Seq(Word) /\ Len(a) = Len(p.dir) + Len(v)
        /\ \A i \in 1..Len(p.dir) : a[i] = p.dir[i]
        /\ \A i \in 1..Len(v) : a[Len(p.dir) + i] = v[i]
    BY <1>1, <1>2, JoinedWords, Zenon
  <2>2. Len(p.dir) = 2 /\ 1 \in 1..2 /\ 2 \in 1..2
    BY <1>1
  <2> HIDE DEF a
  <2> QED BY <2>1, <2>2, Zenon
<1>5. /\ b \in Seq(Word) /\ Len(b) = 2 + Len(w) /\ Len(w) \in Nat
      /\ b[1] = q.dir[1] /\ b[2] = q.dir[2] /\ \A i \in 1..Len(w) : b[2 + i] = w[i]
  <2>1. /\ Len(w) \in Nat /\ b \in Seq(Word) /\ Len(b) = Len(q.dir) + Len(w)
        /\ \A i \in 1..Len(q.dir) : b[i] = q.dir[i]
        /\ \A i \in 1..Len(w) : b[Len(q.dir) + i] = w[i]
    BY <1>1, <1>2, JoinedWords, Zenon
  <2>2. Len(q.dir) = 2 /\ 1 \in 1..2 /\ 2 \in 1..2
    BY <1>1
  <2> HIDE DEF b
  <2> QED BY <2>1, <2>2, Zenon
<1> HIDE DEF a, b
<1>6. a \o py = b \o py
  BY DEF TaskId, a, b, v, w, py
<1>7. Len(a \o py) = Len(a) + 1 /\ \A i \in 1..Len(a) : (a \o py)[i] = a[i]
  <2>1. Len(a \o py) = Len(a) + Len(py) /\ \A i \in 1..Len(a) : (a \o py)[i] = a[i]
    BY <1>3, <1>4, JoinedWords, Zenon
  <2> QED BY <1>3, <2>1, Zenon
<1>8. Len(b \o py) = Len(b) + 1 /\ \A i \in 1..Len(b) : (b \o py)[i] = b[i]
  <2>1. Len(b \o py) = Len(b) + Len(py) /\ \A i \in 1..Len(b) : (b \o py)[i] = b[i]
    BY <1>3, <1>5, JoinedWords, Zenon
  <2> QED BY <1>3, <2>1, Zenon
<1>9. Len(a) = Len(b) /\ \A i \in 1..Len(a) : a[i] = b[i]
  BY <1>4, <1>5, <1>6, <1>7, <1>8
<1>10. a = b
  BY <1>4, <1>5, <1>9, SeqEqual
<1>11. p.dir = q.dir
  <2>1. \A i \in 1..Len(p.dir) : p.dir[i] = q.dir[i]
    BY <1>1, <1>4, <1>5, <1>10
  <2> QED BY <1>1, <2>1, SeqEqual
<1>12. v = w
  BY <1>2, <1>4, <1>5, <1>10, SeqEqual
<1>13. p.module = q.module
  BY <1>1, <1>12, WordsTellSlugsApart DEF v, w
<1> QED BY <1>1, <1>11, <1>13

-----------------------------------------------------------------------------
(* The plan.                                                               *)

\* The units that the second pass of run_comprehension makes of pending_units.
Resolve(pus) == [i \in DOMAIN pus |-> SemanticUnit(pus, pus[i])]

\* The task a unit goes to.
PathOf(us, i) == SuggestTargetPath(us[i])
TaskFor(us, i) == TaskId(PathOf(us, i))

\* Ids of units are those of the pending units, paths are paths, and task ids
\* tell paths apart.
LEMMA ResolvedUnits ==
  ASSUME NEW pus \in Seq(PendingUnit)
  PROVE  LET us == Resolve(pus)
         IN  /\ DOMAIN us = 1..Len(pus) /\ DOMAIN pus = 1..Len(pus) /\ Len(pus) \in Nat
             /\ \A i \in 1..Len(pus) : /\ us[i] = SemanticUnit(pus, pus[i])
                                       /\ us[i].id = pus[i].id
             /\ \A i, j \in 1..Len(pus) :
                  TaskFor(us, i) = TaskFor(us, j) => PathOf(us, i) = PathOf(us, j)
<1> DEFINE us == Resolve(pus)
           N == Len(pus)
<1>1. DOMAIN pus = 1..N /\ N \in Nat
  OBVIOUS
<1>2. DOMAIN us = 1..N /\ \A i \in 1..N : us[i] = SemanticUnit(pus, pus[i])
  BY <1>1 DEF Resolve
<1>3. \A i : SemanticUnit(pus, pus[i]).id = pus[i].id
  BY DEF SemanticUnit
<1> HIDE DEF us
<1>4. ASSUME NEW i \in 1..N, NEW j \in 1..N, TaskFor(us, i) = TaskFor(us, j)
      PROVE  PathOf(us, i) = PathOf(us, j)
  <2>1. PathOf(us, i) \in TargetPath /\ PathOf(us, j) \in TargetPath
    BY <1>1, <1>2, TargetPaths DEF PathOf
  <2> QED BY <1>4, <2>1, TaskIdsTellPathsApart DEF TaskFor
<1> QED BY <1>1, <1>2, <1>3, <1>4 DEF us

\* The reducer keeps a task whose id no other has.
LEMMA MergeKeepsATask ==
  ASSUME NEW tasks, DOMAIN tasks \subseteq Nat, NEW n \in DOMAIN tasks,
         \A m \in DOMAIN tasks : tasks[m].id = tasks[n].id => m = n
  PROVE  MergeTaskLists(tasks)[tasks[n].id] = tasks[n]
<1> DEFINE id == tasks[n].id
           P == {m \in DOMAIN tasks : tasks[m].id = id}
           last == CHOOSE k \in P : \A m \in P : m <= k
<1>1. id \in {tasks[m].id : m \in DOMAIN tasks}
  OBVIOUS
<1>2. MergeTaskLists(tasks)[id] = tasks[last]
  BY <1>1, Zenon DEF MergeTaskLists
<1>3. P = {n} /\ n <= n
  OBVIOUS
<1>4. last = n
  <2> HIDE DEF P
  <2> QED BY <1>3
<1> HIDE DEF last
<1> QED BY <1>2, <1>4

\* The stored plan has the tasks of the units, and each is what run_synthesis
\* made of the path: the reducer replaces none.
LEMMA StoredPlan ==
  ASSUME NEW pus \in Seq(PendingUnit)
  PROVE  LET us == Resolve(pus)
             stored == MergeTaskLists(RunSynthesis(us))
         IN  /\ DOMAIN stored = {TaskFor(us, i) : i \in 1..Len(pus)}
             /\ \A i \in 1..Len(pus) :
                  /\ stored[TaskFor(us, i)].target_file = PathOf(us, i)
                  /\ stored[TaskFor(us, i)].source_unit_ids
                       = {us[j].id : j \in {k \in 1..Len(pus) : PathOf(us, k) = PathOf(us, i)}}
                  /\ stored[TaskFor(us, i)].depends_on_task_ids
                       = DependsOnTaskIds(us, PathOf(us, i))
<1> DEFINE us == Resolve(pus)
           N == Len(pus)
           firsts == {i \in 1..N : \A j \in 1..(i - 1) : PathOf(us, j) # PathOf(us, i)}
           task == [n \in firsts |->
                      [id              |-> TaskFor(us, n),
                       target_file     |-> PathOf(us, n),
                       source_unit_ids |->
                         {us[i].id : i \in {j \in 1..N : PathOf(us, j) = PathOf(us, n)}},
                       depends_on_task_ids |-> DependsOnTaskIds(us, PathOf(us, n))]]
           stored == MergeTaskLists(RunSynthesis(us))
<1>1. /\ DOMAIN us = 1..N /\ N \in Nat
      /\ \A i, j \in 1..N : TaskFor(us, i) = TaskFor(us, j) => PathOf(us, i) = PathOf(us, j)
  BY ResolvedUnits
<1> HIDE DEF us, N
<1>2. RunSynthesis(us) = task
  <2> DEFINE pathOf == [i \in 1..N |-> SuggestTargetPath(us[i])]
             F == {i \in 1..N : \A j \in 1..(i - 1) : pathOf[j] # pathOf[i]}
  <2>1. RunSynthesis(us)
          = [n \in F |->
               [id              |-> TaskId(pathOf[n]),
                target_file     |-> pathOf[n],
                source_unit_ids |-> {us[i].id : i \in {j \in 1..N : pathOf[j] = pathOf[n]}},
                depends_on_task_ids |-> DependsOnTaskIds(us, pathOf[n])]]
    BY <1>1, Zenon DEF RunSynthesis
  <2>2. \A i \in 1..N : pathOf[i] = PathOf(us, i)
    BY DEF PathOf
  <2>3. \A i \in 1..N : \A j \in 1..(i - 1) : j \in 1..N
    BY <1>1
  <2> HIDE DEF pathOf
  <2>4. F = firsts
    BY <2>2, <2>3
  <2>5. \A n \in firsts :
          {us[i].id : i \in {j \in 1..N : pathOf[j] = pathOf[n]}}
            = {us[i].id : i \in {j \in 1..N : PathOf(us, j) = PathOf(us, n)}}
    BY <2>2
  <2>6. \A n \in firsts : pathOf[n] = PathOf(us, n)
    BY <2>2
  <2> HIDE DEF firsts, F
  <2> QED BY <2>1, <2>4, <2>5, <2>6 DEF TaskFor
<1>3. ASSUME NEW i \in 1..N
      PROVE  \E n \in firsts : PathOf(us, n) = PathOf(us, i)
  <2> DEFINE S == {j \in 1..N : PathOf(us, j) = PathOf(us, i)}
  <2>1. S \subseteq Nat /\ S # {}
    OBVIOUS
  <2>2. PICK n \in S : \A m \in S : n <= m
    <3> HIDE DEF S
    <3> QED BY <2>1, LeastNumber
  <2>3. \A j \in 1..(n - 1) : j \in 1..N /\ ~ (n <= j)
    BY <1>1, <2>2
  <2> QED BY <2>2, <2>3
<1>4. ASSUME NEW n \in firsts, NEW m \in firsts, PathOf(us, n) = PathOf(us, m)
      PROVE  n = m
  <2>1. n \in 1..(m - 1) \/ m \in 1..(n - 1) \/ n = m
    BY <1>1
  <2> QED BY <1>4, <2>1
<1>5. firsts \subseteq 1..N
  OBVIOUS
<1> HIDE DEF firsts
<1>6. /\ DOMAIN task = firsts
      /\ \A n \in firsts :
           /\ task[n].id = TaskFor(us, n) /\ task[n].target_file = PathOf(us, n)
           /\ task[n].source_unit_ids
                = {us[i].id : i \in {j \in 1..N : PathOf(us, j) = PathOf(us, n)}}
           /\ task[n].depends_on_task_ids = DependsOnTaskIds(us, PathOf(us, n))
  OBVIOUS
<1> HIDE DEF task
<1>7. DOMAIN stored = {TaskFor(us, i) : i \in 1..N}
  <2>1. DOMAIN stored = {task[n].id : n \in DOMAIN task}
    BY <1>2, Zenon DEF MergeTaskLists
  <2>2. {task[n].id : n \in DOMAIN task} = {TaskFor(us, n) : n \in firsts}
    BY <1>6
  <2>3. {TaskFor(us, n) : n \in firsts} = {TaskFor(us, i) : i \in 1..N}
    BY <1>3, <1>5 DEF TaskFor
  <2> QED BY <2>1, <2>2, <2>3, Zenon
<1>8. ASSUME NEW i \in 1..N
      PROVE  \E n \in firsts : /\ PathOf(us, n) = PathOf(us, i)
                               /\ stored[TaskFor(us, i)] = task[n]
  <2>1. PICK n \in firsts : PathOf(us, n) = PathOf(us, i)
    BY <1>3
  <2>2. ASSUME NEW m \in DOMAIN task, task[m].id = task[n].id PROVE m = n
    <3>1. m \in firsts /\ TaskFor(us, m) = TaskFor(us, n)
      BY <1>6, <2>2, Zenon
    <3>2. PathOf(us, m) = PathOf(us, n)
      BY <1>1, <1>5, <3>1
    <3> QED BY <1>4, <3>1, <3>2, Zenon
  <2>3. DOMAIN task \subseteq Nat /\ n \in DOMAIN task
    BY <1>1, <1>5, <1>6
  <2>4. MergeTaskLists(task)[task[n].id] = task[n]
    BY <2>2, <2>3, MergeKeepsATask
  <2>5. task[n].id = TaskFor(us, i)
    BY <1>6, <2>1 DEF TaskFor
  <2> QED BY <1>2, <2>1, <2>4, <2>5
<1> HIDE DEF stored
<1>9. ASSUME NEW i \in 1..N
      PROVE  /\ stored[TaskFor(us, i)].target_file = PathOf(us, i)
             /\ stored[TaskFor(us, i)].source_unit_ids
                  = {us[j].id : j \in {k \in 1..N : PathOf(us, k) = PathOf(us, i)}}
             /\ stored[TaskFor(us, i)].depends_on_task_ids
                  = DependsOnTaskIds(us, PathOf(us, i))
  <2>1. PICK n \in firsts : PathOf(us, n) = PathOf(us, i) /\ stored[TaskFor(us, i)] = task[n]
    BY <1>8
  <2>2. /\ task[n].target_file = PathOf(us, n)
        /\ task[n].source_unit_ids
             = {us[j].id : j \in {k \in 1..N : PathOf(us, k) = PathOf(us, n)}}
        /\ task[n].depends_on_task_ids = DependsOnTaskIds(us, PathOf(us, n))
    BY <1>6
  <2> QED BY <2>1, <2>2
<1> QED BY <1>7, <1>9 DEF us, N, stored

\* A unit is in the task of its path and in no other.
LEMMA UnitsOfATask ==
  ASSUME NEW pus \in Seq(PendingUnit), UniqueIds(pus),
         NEW i \in 1..Len(pus), NEW k \in 1..Len(pus)
  PROVE  LET us == Resolve(pus)
         IN  pus[i].id \in MergeTaskLists(RunSynthesis(us))[TaskFor(us, k)].source_unit_ids
               <=> PathOf(us, i) = PathOf(us, k)
<1> DEFINE us == Resolve(pus)
           N == Len(pus)
           source == MergeTaskLists(RunSynthesis(us))[TaskFor(us, k)].source_unit_ids
<1>1. DOMAIN pus = 1..N /\ \A j \in 1..N : us[j].id = pus[j].id
  BY ResolvedUnits
<1>2. source = {us[j].id : j \in {h \in 1..N : PathOf(us, h) = PathOf(us, k)}}
  BY StoredPlan
<1> HIDE DEF us, source
<1>3. \A j \in 1..N : us[j].id = us[i].id => j = i
  BY <1>1 DEF UniqueIds
<1>4. us[i].id \in source <=> PathOf(us, i) = PathOf(us, k)
  BY <1>2, <1>3
<1> QED BY <1>1, <1>4 DEF us, source

\* synthesis.py: no unit is lost or planned twice, and no two tasks write one
\* file, for every repository and all answers of the model.
THEOREM UnitsPlannedOnce == Spec => []EveryUnitIsPlannedOnce
<1>1. ASSUME PlanInv, step = "planned" PROVE EveryUnitIsPlannedOnce
  <2> DEFINE N == Len(pending)
             us == Resolve(pending)
  <2>1. pending \in Seq(PendingUnit) /\ UniqueIds(pending)
    BY <1>1 DEF PlanInv, TypeOK, UnitIdsAreUnique, UniqueIds
  <2>2. units = us /\ plan = MergeTaskLists(RunSynthesis(us))
    BY <1>1 DEF PlanInv, Handed, Resolve
  <2>3. /\ DOMAIN plan = {TaskFor(us, i) : i \in 1..N}
        /\ \A i \in 1..N : plan[TaskFor(us, i)].target_file = PathOf(us, i)
    BY <2>1, <2>2, StoredPlan
  <2>4. DOMAIN units = 1..N /\ \A i \in 1..N : units[i].id = pending[i].id
    BY <2>1, <2>2, ResolvedUnits
  <2>5. \A i, k \in 1..N : pending[i].id \in plan[TaskFor(us, k)].source_unit_ids
                             <=> PathOf(us, i) = PathOf(us, k)
    BY <2>1, <2>2, UnitsOfATask
  <2> HIDE DEF us, N
  <2>6. ASSUME NEW i \in DOMAIN units
        PROVE  Cardinality({t \in DOMAIN plan : units[i].id \in plan[t].source_unit_ids}) = 1
    <3> DEFINE holders == {t \in DOMAIN plan : units[i].id \in plan[t].source_unit_ids}
    <3>1. i \in 1..N /\ units[i].id = pending[i].id
      BY <2>4
    <3>2. TaskFor(us, i) \in holders
      BY <2>3, <2>5, <3>1
    <3>3. ASSUME NEW t \in holders PROVE t = TaskFor(us, i)
      <4>1. PICK k \in 1..N : t = TaskFor(us, k)
        BY <2>3
      <4>2. PathOf(us, i) = PathOf(us, k)
        BY <2>5, <3>1, <4>1
      <4> QED BY <4>1, <4>2 DEF TaskFor
    <3> HIDE DEF holders
    <3>4. holders = {TaskFor(us, i)}
      BY <3>2, <3>3
    <3> QED BY <3>4, FS_Singleton DEF holders
  <2>7. ASSUME NEW t \in DOMAIN plan, NEW u \in DOMAIN plan,
               plan[t].target_file = plan[u].target_file
        PROVE  t = u
    <3>1. PICK i \in 1..N : t = TaskFor(us, i)
      BY <2>3
    <3>2. PICK k \in 1..N : u = TaskFor(us, k)
      BY <2>3
    <3>3. PathOf(us, i) = PathOf(us, k)
      BY <2>3, <2>7, <3>1, <3>2
    <3> QED BY <3>1, <3>2, <3>3 DEF TaskFor
  <2> QED BY <2>6, <2>7 DEF EveryUnitIsPlannedOnce
<1>2. PlanInv => EveryUnitIsPlannedOnce
  BY <1>1 DEF EveryUnitIsPlannedOnce
<1> QED BY <1>2, PlanInvariant, PTL

\* A name that some unit bears is resolved to the id of one that bears it.
LEMMA NameToIdIsAnId ==
  ASSUME NEW pus \in Seq(PendingUnit), NEW name, Bearers(pus, name) # {}
  PROVE  \E b \in 1..Len(pus) : NameToId(pus, name) = pus[b].id
<1> DEFINE B == Bearers(pus, name)
           first == CHOOSE i \in B : \A j \in B : i <= j
<1>1. B \subseteq 1..Len(pus) /\ B \subseteq Nat
  BY DEF Bearers
<1>2. NameToId(pus, name) = pus[first].id
  BY DEF NameToId
<1> HIDE DEF B
<1>3. \E i \in B : \A j \in B : i <= j
  BY <1>1, LeastNumber DEF B
<1>4. first \in B
  BY <1>3
<1> HIDE DEF first
<1> QED BY <1>1, <1>2, <1>4

\* A unit depends on the units its payload names, itself excepted.
LEMMA DependenciesOfAUnit ==
  ASSUME NEW pus \in Seq(PendingUnit), NEW i \in 1..Len(pus)
  PROVE  /\ ReferencedNames(pus[i].raw.payload) \subseteq Name
         /\ \A id : id \in Resolve(pus)[i].depends_on_unit_ids <=>
              \E n \in ReferencedNames(pus[i].raw.payload) :
                 Bearers(pus, n) # {} /\ id = NameToId(pus, n) /\ id # pus[i].id
<1> DEFINE pu == pus[i]
           refs == ReferencedNames(pu.raw.payload)
<1>1. pu \in PendingUnit
  BY ElementOfSeq
<1>2. pu.raw.payload \in Payload
  BY <1>1 DEF PendingUnit, RawExtractedUnit
<1>3. pu.raw.payload.refs \subseteq Name
  BY <1>2 DEF Payload
<1>4. refs \subseteq Name
  BY <1>3 DEF ReferencedNames
<1>5. Resolve(pus)[i].depends_on_unit_ids
        = {NameToId(pus, n) : n \in {m \in refs : Resolves(pus, pu, m)}}
  <2>1. Resolve(pus)[i] = SemanticUnit(pus, pu)
    BY ResolvedUnits
  <2> QED BY <2>1 DEF SemanticUnit
<1> HIDE DEF refs
<1>6. \A id : id \in Resolve(pus)[i].depends_on_unit_ids <=>
        \E n \in refs : Bearers(pus, n) # {} /\ id = NameToId(pus, n) /\ id # pu.id
  BY <1>5 DEF Resolves
<1> QED BY <1>4, <1>6 DEF refs

\* What run_synthesis stores is a plan as the pipeline needs it: dependencies
\* within the plan, none on itself, and exactly those the references call for.
THEOREM AdmissiblePlans == Spec => []PlanIsAdmissible
<1>1. ASSUME PlanInv, step = "planned" PROVE PlanIsAdmissible
  <2> DEFINE N == Len(pending)
             us == Resolve(pending)
             Names(i) == ReferencedNames(pending[i].raw.payload)
  <2>1. pending \in Seq(PendingUnit) /\ UniqueIds(pending)
    BY <1>1 DEF PlanInv, TypeOK, UnitIdsAreUnique, UniqueIds
  <2>2. units = us /\ units # <<>> /\ plan = MergeTaskLists(RunSynthesis(us))
    BY <1>1 DEF PlanInv, Handed, Resolve
  <2>3. /\ DOMAIN plan = {TaskFor(us, i) : i \in 1..N}
        /\ \A i \in 1..N : plan[TaskFor(us, i)].depends_on_task_ids
                             = DependsOnTaskIds(us, PathOf(us, i))
    BY <2>1, <2>2, StoredPlan
  <2>4. /\ DOMAIN us = 1..N /\ DOMAIN pending = 1..N /\ N \in Nat
        /\ \A i \in 1..N : us[i].id = pending[i].id
        /\ \A i, j \in 1..N : TaskFor(us, i) = TaskFor(us, j) => PathOf(us, i) = PathOf(us, j)
    BY <2>1, ResolvedUnits
  <2>5. \A i, k \in 1..N : pending[i].id \in plan[TaskFor(us, k)].source_unit_ids
                             <=> PathOf(us, i) = PathOf(us, k)
    BY <2>1, <2>2, UnitsOfATask
  <2>6. \A i, j \in 1..N : pending[i].id = pending[j].id => i = j
    BY <2>1, <2>4 DEF UniqueIds
  <2>7. \A i \in 1..N :
          /\ Names(i) \subseteq Name
          /\ \A id : id \in us[i].depends_on_unit_ids <=>
               \E n \in Names(i) : /\ Bearers(pending, n) # {}
                                   /\ id = NameToId(pending, n) /\ id # pending[i].id
    BY <2>1, DependenciesOfAUnit
  <2>8. \A n : Bearers(pending, n) # {} => \E b \in 1..N : NameToId(pending, n) = pending[b].id
    BY <2>1, NameToIdIsAnId
  <2>9. plan # <<>>
    <3>1. N # 0
      <4> SUFFICES ASSUME N = 0 PROVE FALSE
        OBVIOUS
      <4>1. pending = <<>>
        BY <2>1, EmptySeq
      <4>2. units = [i \in DOMAIN pending |-> SemanticUnit(pending, pending[i])]
        BY <2>2 DEF Resolve
      <4>3. units = <<>>
        BY <4>1, <4>2
      <4> QED BY <2>2, <4>3
    <3>2. 1 \in 1..N
      BY <2>4, <3>1
    <3>3. DOMAIN plan # {}
      BY <2>3, <3>2
    <3> QED BY <3>3
  <2> HIDE DEF us, N, Names
  <2>10. ASSUME NEW b \in 1..N PROVE TaskOf(pending[b].id) = TaskFor(us, b)
    <3> DEFINE holders == {t \in DOMAIN plan : pending[b].id \in plan[t].source_unit_ids}
    <3>1. TaskFor(us, b) \in DOMAIN plan /\ pending[b].id \in plan[TaskFor(us, b)].source_unit_ids
      BY <2>3, <2>5
    <3>2. ASSUME NEW t \in DOMAIN plan, pending[b].id \in plan[t].source_unit_ids
          PROVE  t = TaskFor(us, b)
      <4>1. PICK k \in 1..N : t = TaskFor(us, k)
        BY <2>3
      <4>2. PathOf(us, b) = PathOf(us, k)
        BY <2>5, <3>2, <4>1
      <4> QED BY <4>1, <4>2 DEF TaskFor
    <3> QED BY <3>1, <3>2 DEF TaskOf
  <2>11. ASSUME NEW t \in DOMAIN plan
         PROVE  plan[t].depends_on_task_ids =
                  {TaskOf(NameToId(pending, n)) :
                     n \in {m \in Name :
                              \E i \in DOMAIN pending :
                                /\ pending[i].id \in plan[t].source_unit_ids
                                /\ m \in ReferencedNames(pending[i].raw.payload)
                                /\ Bearers(pending, m) # {}}} \ {t}
    <3>1. PICK k \in 1..N : t = TaskFor(us, k)
      BY <2>3
    <3> DEFINE needed == {j \in 1..N : \E i \in 1..N : /\ PathOf(us, i) = PathOf(us, k)
                                                       /\ us[j].id \in us[i].depends_on_unit_ids}
               named == {m \in Name : \E i \in 1..N : /\ PathOf(us, i) = PathOf(us, k)
                                                      /\ m \in Names(i)
                                                      /\ Bearers(pending, m) # {}}
    <3>2. plan[t].depends_on_task_ids = {TaskFor(us, j) : j \in needed} \ {t}
      BY <2>3, <2>4, <3>1 DEF DependsOnTaskIds, TaskFor, PathOf
    <3>3. {m \in Name :
             \E i \in DOMAIN pending :
               /\ pending[i].id \in plan[t].source_unit_ids
               /\ m \in ReferencedNames(pending[i].raw.payload)
               /\ Bearers(pending, m) # {}} = named
      BY <2>4, <2>5, <3>1 DEF Names
    <3>4. ASSUME NEW j \in needed
          PROVE  \E n \in named : TaskOf(NameToId(pending, n)) = TaskFor(us, j)
      <4>1. PICK i \in 1..N : PathOf(us, i) = PathOf(us, k) /\ us[j].id \in us[i].depends_on_unit_ids
        OBVIOUS
      <4>2. PICK n \in Names(i) : Bearers(pending, n) # {} /\ us[j].id = NameToId(pending, n)
        BY <2>7, <4>1
      <4>3. n \in named
        BY <2>7, <4>1, <4>2
      <4>4. NameToId(pending, n) = pending[j].id
        BY <2>4, <4>2
      <4> QED BY <2>10, <4>3, <4>4
    <3>5. ASSUME NEW n \in named, TaskOf(NameToId(pending, n)) # t
          PROVE  \E j \in needed : TaskOf(NameToId(pending, n)) = TaskFor(us, j)
      <4>1. PICK i \in 1..N : /\ PathOf(us, i) = PathOf(us, k) /\ n \in Names(i)
                              /\ Bearers(pending, n) # {}
        OBVIOUS
      <4>2. PICK b \in 1..N : NameToId(pending, n) = pending[b].id
        BY <2>8, <4>1
      <4>3. TaskOf(NameToId(pending, n)) = TaskFor(us, b)
        BY <2>10, <4>2
      <4>4. b # i
        BY <3>1, <3>5, <4>1, <4>3 DEF TaskFor
      <4>5. pending[b].id # pending[i].id
        BY <2>6, <4>4
      <4>6. us[b].id \in us[i].depends_on_unit_ids
        BY <2>4, <2>7, <4>1, <4>2, <4>5
      <4>7. b \in needed
        BY <4>1, <4>6
      <4> QED BY <4>3, <4>7
    <3> HIDE DEF needed, named
    <3>6. {TaskFor(us, j) : j \in needed} \ {t}
            = {TaskOf(NameToId(pending, n)) : n \in named} \ {t}
      BY <3>4, <3>5
    <3> QED BY <3>2, <3>3, <3>6
  <2> QED BY <2>9, <2>11 DEF PlanIsAdmissible
<1>2. PlanInv => PlanIsAdmissible
  BY <1>1 DEF PlanIsAdmissible
<1> QED BY <1>2, PlanInvariant, PTL
=============================================================================
