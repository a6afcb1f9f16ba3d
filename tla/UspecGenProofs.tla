--------------------------- MODULE UspecGenProofs ---------------------------
(***************************************************************************)
(* Theorems about node merging (UhbMerge) and the specification writer     *)
(* (UspecGen), for every set of designs, every reading of the verdict      *)
(* files and every order of the nodes of a stage.                          *)
(***************************************************************************)
EXTENDS UspecGen, FiniteSetTheorems, SequenceTheorems, TLAPS

-----------------------------------------------------------------------------
(* The design.                                                             *)

(* What DesignOK says of the stages, one fact per conjunct.                *)
Staged ==
  /\ Len(design.uhb) \in Nat \ {0} /\ Instns = 1 .. Len(design.uhb)
  /\ \A i \in Instns : Len(design.uhb[i]) \in Nat /\ DOMAIN design.uhb[i] = 1 .. Len(design.uhb[i])
  /\ \A i \in Instns : \A t \in DOMAIN design.uhb[i] : design.uhb[i][t] # {} /\ IsFiniteSet(design.uhb[i][t])
OneStage ==
  \A i, j \in Instns : \A t \in DOMAIN design.uhb[i] : \A u \in DOMAIN design.uhb[j] : \A n \in design.uhb[i][t] :
    n \in design.uhb[j][u] => t = u
MemoriesKnown ==
  \A i, j \in Instns : \A m \in DOMAIN design.loc[i] : \A t \in DOMAIN design.uhb[j] :
    m \in design.uhb[j][t] => m \in DOMAIN design.loc[j]

(* A design in order is staged, has one stage per node and agrees on its   *)
(* memories.                                                               *)
LEMMA DesignFacts ==
  ASSUME DesignOK(design)
  PROVE  Staged /\ OneStage /\ MemoriesKnown
<1> DEFINE E == (SUBSET Elements(design)) \ {{}}
<1>1. design.uhb # << >> /\ design.uhb \in Seq(Seq(E))
  BY DEF DesignOK
<1>2. \A i \in DOMAIN design.uhb : \A t \in DOMAIN design.uhb[i] :
        /\ IsFiniteSet(design.uhb[i][t])
        /\ \A j \in DOMAIN design.uhb : \A u \in DOMAIN design.uhb[j] :
             design.uhb[i][t] \cap design.uhb[j][u] # {} => t = u
  BY DEF DesignOK
<1>3. MemoriesKnown
  BY DEF DesignOK, MemoriesKnown, Instns
<1>4. {} \notin E
  OBVIOUS
<1> HIDE DEF E
<1>5. Len(design.uhb) \in Nat \ {0} /\ Instns = 1 .. Len(design.uhb)
  BY <1>1, LenProperties, EmptySeq DEF Instns
<1>6. \A i \in Instns : design.uhb[i] \in Seq(E)
  BY <1>1, <1>5, ElementOfSeq
<1>7. \A i \in Instns : Len(design.uhb[i]) \in Nat /\ DOMAIN design.uhb[i] = 1 .. Len(design.uhb[i])
  BY <1>6, LenProperties
<1>8. \A i \in Instns : \A t \in DOMAIN design.uhb[i] : design.uhb[i][t] \in E
  BY <1>6, <1>7, ElementOfSeq
<1>9. Staged
  BY <1>2, <1>4, <1>5, <1>7, <1>8 DEF Staged, Instns
<1>10. OneStage
  <2> SUFFICES ASSUME NEW i \in Instns, NEW j \in Instns, NEW t \in DOMAIN design.uhb[i],
                      NEW u \in DOMAIN design.uhb[j], NEW n \in design.uhb[i][t], n \in design.uhb[j][u]
               PROVE  t = u
    BY DEF OneStage
  <2>1. design.uhb[i][t] \cap design.uhb[j][u] # {}
    OBVIOUS
  <2> QED
    BY <1>2, <2>1 DEF Instns
<1> QED
  BY <1>3, <1>9, <1>10

(* The order of the updates of one element by two instructions.            *)
SpatialItem(i, j, t, n) ==
  IF Orders!IsMem(i, n)
  THEN Orders!Item(<<"inferred">>, "spatial", i, j, n, n, Orders!IsLocal(n))
  ELSE Orders!Item(<<"pcr", i, j, Orders!StagePcr(t)>>, "spatial", i, j, n, n, TRUE)

(* The orders of the three bins: of one element and two updates, of two    *)
(* elements of a stage, of two accesses of a memory, of a flow through one.*)
OfElement(it) ==
  \E i, j \in Instns : \E t \in DOMAIN design.uhb[i] \cap DOMAIN design.uhb[j] :
    \E n \in design.uhb[i][t] \cap design.uhb[j][t] : it = SpatialItem(i, j, t, n)
OfStage(it) ==
  \E i, j \in Instns : \E t \in DOMAIN design.uhb[i] \cap DOMAIN design.uhb[j] :
    \E n1 \in design.uhb[i][t], n2 \in design.uhb[j][t] :
      /\ n1 # n2 /\ ~ SharedMem(i, n1) /\ ~ SharedMem(j, n2)
      /\ it = Orders!Item(<<"pcr", i, j, Orders!StagePcr(t)>>, "temporal", i, j, n1, n2, TRUE)
OfAccess(it) ==
  \E i, j \in Instns : \E m \in DOMAIN design.loc[i] \cap DOMAIN design.loc[j] :
    \E a \in design.loc[i][m], b \in design.loc[j][m] :
      \E n1 \in DownPool(i, m, a), n2 \in DownPool(j, m, b) :
        ~ IsLocal(m) /\ it = Orders!Item(<<"access", i, j, m, a, b>>, "temporal", i, j, n1, n2, TRUE)
OfFlow(it) ==
  \E i, j \in Instns : \E m \in DOMAIN design.loc[i] \cap DOMAIN design.loc[j] :
    \E a \in design.loc[i][m], b \in design.loc[j][m] : \E n \in design.down[j][m] :
      /\ a.write /\ ~ b.write
      /\ it = Orders!Item(<<"flow", i, j, m, a, b>>, "data", i, j, m, n, Orders!IsLocal(m))

(* Stages that both instructions have.                                     *)
LEMMA DepthStages ==
  ASSUME Staged, NEW i \in Instns, NEW j \in Instns
  PROVE  1 .. Orders!Depth(i, j) = DOMAIN design.uhb[i] \cap DOMAIN design.uhb[j]
<1>1. /\ Len(design.uhb[i]) \in Nat /\ DOMAIN design.uhb[i] = 1 .. Len(design.uhb[i])
      /\ Len(design.uhb[j]) \in Nat /\ DOMAIN design.uhb[j] = 1 .. Len(design.uhb[j])
  BY DEF Staged
<1> QED
  BY <1>1 DEF Orders!Depth

(* The bins hold orders of these four shapes.                              *)
LEMMA ItemShapes ==
  ASSUME Staged, NEW it \in Orders!Items
  PROVE  OfElement(it) \/ OfStage(it) \/ OfAccess(it) \/ OfFlow(it)
<1>1. PICK i \in Instns, j \in Instns : it \in Orders!PairItems(i, j)
  BY DEF Orders!Items, Orders!Instns, Instns
<1>2. \/ \E t \in 1 .. Orders!Depth(i, j) : it \in Orders!StageItems(i, j, t) \cup Orders!InferredItems(i, j, t)
      \/ \E m \in DOMAIN design.loc[i] \cap DOMAIN design.loc[j] :
           \E p \in design.loc[i][m] \X design.loc[j][m] :
             it \in Orders!AccessItems(i, j, m, p[1], p[2]) \cup Orders!FlowItems(i, j, m, p[1], p[2])
  BY <1>1 DEF Orders!PairItems
<1>3. CASE \E t \in 1 .. Orders!Depth(i, j) : it \in Orders!StageItems(i, j, t) \cup Orders!InferredItems(i, j, t)
  <2>1. PICK t \in DOMAIN design.uhb[i] \cap DOMAIN design.uhb[j] :
          it \in Orders!StageItems(i, j, t) \/ it \in Orders!InferredItems(i, j, t)
    BY <1>3, DepthStages
  <2>2. CASE it \in Orders!StageItems(i, j, t)
    <3>1. PICK p \in design.uhb[i][t] \X design.uhb[j][t] :
            /\ IF p[1] = p[2] THEN ~ Orders!IsMem(i, p[1])
               ELSE ~ Orders!SharedMem(i, p[1]) /\ ~ Orders!SharedMem(j, p[2])
            /\ it = Orders!Item(<<"pcr", i, j, Orders!StagePcr(t)>>, Orders!PcrType(p[1], p[2]), i, j, p[1], p[2], TRUE)
      BY <2>2 DEF Orders!StageItems
    <3>2. CASE p[1] = p[2]
      <4>1. it = SpatialItem(i, j, t, p[1])
        BY <3>1, <3>2 DEF SpatialItem, Orders!PcrType
      <4> QED
        BY <3>1, <3>2, <4>1 DEF OfElement
    <3>3. CASE p[1] # p[2]
      <4>1. ~ SharedMem(i, p[1]) /\ ~ SharedMem(j, p[2])
        BY <3>1, <3>3 DEF SharedMem, IsMem, IsLocal, Orders!SharedMem, Orders!IsMem, Orders!IsLocal
      <4> QED
        BY <3>1, <3>3, <4>1 DEF OfStage, Orders!PcrType
    <3> QED
      BY <3>2, <3>3
  <2>3. CASE it \in Orders!InferredItems(i, j, t)
    <3>1. PICK n \in design.uhb[i][t] \cap design.uhb[j][t] :
            /\ Orders!IsMem(i, n)
            /\ it = Orders!Item(<<"inferred">>, "spatial", i, j, n, n, Orders!IsLocal(n))
      BY <2>3 DEF Orders!InferredItems
    <3>2. it = SpatialItem(i, j, t, n)
      BY <3>1 DEF SpatialItem
    <3> QED
      BY <3>1, <3>2 DEF OfElement
  <2> QED
    BY <2>1, <2>2, <2>3
<1>4. CASE \E m \in DOMAIN design.loc[i] \cap DOMAIN design.loc[j] :
             \E p \in design.loc[i][m] \X design.loc[j][m] :
               it \in Orders!AccessItems(i, j, m, p[1], p[2]) \cup Orders!FlowItems(i, j, m, p[1], p[2])
  <2>1. PICK m \in DOMAIN design.loc[i] \cap DOMAIN design.loc[j] : \E p \in design.loc[i][m] \X design.loc[j][m] :
          it \in Orders!AccessItems(i, j, m, p[1], p[2]) \cup Orders!FlowItems(i, j, m, p[1], p[2])
    BY <1>4
  <2>2. PICK a \in design.loc[i][m], b \in design.loc[j][m] :
          it \in Orders!AccessItems(i, j, m, a, b) \/ it \in Orders!FlowItems(i, j, m, a, b)
    BY <2>1
  <2>3. CASE it \in Orders!AccessItems(i, j, m, a, b)
    <3>1. PICK q \in Orders!DownPool(i, m, a) \X Orders!DownPool(j, m, b) :
            it = Orders!Item(<<"access", i, j, m, a, b>>, "temporal", i, j, q[1], q[2], TRUE)
      BY <2>3 DEF Orders!AccessItems
    <3>2. q[1] \in DownPool(i, m, a) /\ q[2] \in DownPool(j, m, b)
      BY DEF DownPool, Orders!DownPool
    <3>3. ~ IsLocal(m)
      BY <2>3 DEF Orders!AccessItems, IsLocal, Orders!IsLocal
    <3> QED
      BY <3>1, <3>2, <3>3 DEF OfAccess
  <2>4. CASE it \in Orders!FlowItems(i, j, m, a, b)
    BY <2>4 DEF Orders!FlowItems, OfFlow
  <2> QED
    BY <2>2, <2>3, <2>4
<1> QED
  BY <1>2, <1>3, <1>4

(* The order of two updates of one element is in the bins.                 *)
LEMMA SpatialInItems ==
  ASSUME Staged, NEW i \in Instns, NEW j \in Instns, NEW t \in DOMAIN design.uhb[i] \cap DOMAIN design.uhb[j],
         NEW n \in design.uhb[i][t] \cap design.uhb[j][t]
  PROVE  SpatialItem(i, j, t, n) \in Orders!Items
<1>1. t \in 1 .. Orders!Depth(i, j)
  BY DepthStages
<1>2. SpatialItem(i, j, t, n) \in Orders!StageItems(i, j, t) \cup Orders!InferredItems(i, j, t)
  <2>1. CASE Orders!IsMem(i, n)
    BY <2>1 DEF SpatialItem, Orders!InferredItems
  <2>2. CASE ~ Orders!IsMem(i, n)
    <3> DEFINE p == <<n, n>>
    <3>1. p \in {q \in design.uhb[i][t] \X design.uhb[j][t] :
                   IF q[1] = q[2] THEN ~ Orders!IsMem(i, q[1])
                   ELSE ~ Orders!SharedMem(i, q[1]) /\ ~ Orders!SharedMem(j, q[2])}
      BY <2>2
    <3>2. SpatialItem(i, j, t, n)
            = Orders!Item(<<"pcr", i, j, Orders!StagePcr(t)>>, Orders!PcrType(p[1], p[2]), i, j, p[1], p[2], TRUE)
      BY <2>2 DEF SpatialItem, Orders!PcrType
    <3> HIDE DEF p
    <3> QED
      BY <3>1, <3>2 DEF Orders!StageItems
  <2> QED
    BY <2>1, <2>2
<1>3. SpatialItem(i, j, t, n) \in Orders!PairItems(i, j)
  <2> HIDE DEF SpatialItem
  <2> QED
    BY <1>1, <1>2 DEF Orders!PairItems
<1> QED
  BY <1>3, <<i, j>> \in Instns \X Instns, Instns = Orders!Instns DEF Orders!Items, Instns, Orders!Instns

-----------------------------------------------------------------------------
(* Nodes of the same instructions.                                         *)

(* Two elements on the paths of the same instructions, at the same stages. *)
SameHolders(n, m) ==
  \A j \in Instns : \A u \in DOMAIN design.uhb[j] : n \in design.uhb[j][u] <=> m \in design.uhb[j][u]

(* The instructions that have an element on their path.                    *)
Holders(n) == {j \in Instns : \E u \in DOMAIN design.uhb[j] : n \in design.uhb[j][u]}

(* Fields of an order of two updates.                                      *)
LEMMA SpatialFields ==
  ASSUME NEW i, NEW j, NEW t, NEW n
  PROVE  LET it == SpatialItem(i, j, t, n)
         IN  it.type = "spatial" /\ it.i1 = i /\ it.i2 = j /\ it.l1 = n /\ it.l2 = n
BY DEF SpatialItem, Orders!Item

(* What lies in the bin of orders of one element.                          *)
LEMMA SpatialShape ==
  ASSUME Staged, DOMAIN res = Orders!Items, NEW n, NEW it \in Spatial(n)
  PROVE  \E i, j \in Instns : \E t \in DOMAIN design.uhb[i] \cap DOMAIN design.uhb[j] :
           n \in design.uhb[i][t] \cap design.uhb[j][t] /\ it = SpatialItem(i, j, t, n)
<1>1. it \in Orders!Items /\ it.type = "spatial" /\ it.l1 = n
  BY DEF Spatial
<1>2. ~ OfStage(it) /\ ~ OfAccess(it) /\ ~ OfFlow(it)
  BY <1>1 DEF OfStage, OfAccess, OfFlow, Orders!Item
<1>3. OfElement(it)
  BY <1>1, <1>2, ItemShapes
<1> QED
  BY <1>1, <1>3, SpatialFields DEF OfElement

(* Of two instructions, an element has at most one order.                  *)
LEMMA SpatialUnique ==
  ASSUME Staged, OneStage, DOMAIN res = Orders!Items,
         NEW n, NEW o1 \in Spatial(n), NEW o2 \in Spatial(n), SameInstns(o1, o2)
  PROVE  o1 = o2
<1>1. PICK i \in Instns, j \in Instns : \E t \in DOMAIN design.uhb[i] \cap DOMAIN design.uhb[j] :
        n \in design.uhb[i][t] \cap design.uhb[j][t] /\ o1 = SpatialItem(i, j, t, n)
  BY SpatialShape
<1>2. PICK t \in DOMAIN design.uhb[i] \cap DOMAIN design.uhb[j] :
        n \in design.uhb[i][t] \cap design.uhb[j][t] /\ o1 = SpatialItem(i, j, t, n)
  BY <1>1
<1>3. PICK k \in Instns, l \in Instns : \E u \in DOMAIN design.uhb[k] \cap DOMAIN design.uhb[l] :
        n \in design.uhb[k][u] \cap design.uhb[l][u] /\ o2 = SpatialItem(k, l, u, n)
  BY SpatialShape
<1>4. PICK u \in DOMAIN design.uhb[k] \cap DOMAIN design.uhb[l] :
        n \in design.uhb[k][u] \cap design.uhb[l][u] /\ o2 = SpatialItem(k, l, u, n)
  BY <1>3
<1>5. k = i /\ l = j
  BY <1>2, <1>4, SpatialFields DEF SameInstns
<1>6. u = t
  BY <1>2, <1>4, <1>5 DEF OneStage
<1> QED
  BY <1>2, <1>4, <1>5, <1>6

(* An element has an order for every two instructions that update it, and  *)
(* no others: as many as there are such pairs.                             *)
LEMMA SpatialPairs ==
  ASSUME Staged, OneStage, DOMAIN res = Orders!Items, NEW n
  PROVE  /\ \A it \in Spatial(n) : <<it.i1, it.i2>> \in Holders(n) \X Holders(n)
         /\ \A p \in Holders(n) \X Holders(n) : \E it \in Spatial(n) : it.i1 = p[1] /\ it.i2 = p[2]
         /\ IsFiniteSet(Holders(n) \X Holders(n))
         /\ Cardinality(Spatial(n)) = Cardinality(Holders(n) \X Holders(n))
<1> DEFINE H == Holders(n) \X Holders(n)
           f == [it \in Spatial(n) |-> <<it.i1, it.i2>>]
<1>1. \A it \in Spatial(n) : <<it.i1, it.i2>> \in H
  <2> SUFFICES ASSUME NEW it \in Spatial(n)
               PROVE  it.i1 \in Holders(n) /\ it.i2 \in Holders(n)
    OBVIOUS
  <2>1. PICK i \in Instns, j \in Instns : \E t \in DOMAIN design.uhb[i] \cap DOMAIN design.uhb[j] :
          n \in design.uhb[i][t] \cap design.uhb[j][t] /\ it = SpatialItem(i, j, t, n)
    BY SpatialShape
  <2>2. it.i1 = i /\ it.i2 = j
    BY <2>1, SpatialFields
  <2> QED
    BY <2>1, <2>2 DEF Holders
<1>2. \A p \in H : \E it \in Spatial(n) : it.i1 = p[1] /\ it.i2 = p[2]
  <2> SUFFICES ASSUME NEW i \in Holders(n), NEW j \in Holders(n)
               PROVE  \E it \in Spatial(n) : it.i1 = i /\ it.i2 = j
    OBVIOUS
  <2>1. i \in Instns /\ j \in Instns
    BY DEF Holders
  <2>2. PICK t \in DOMAIN design.uhb[i] : n \in design.uhb[i][t]
    BY DEF Holders
  <2>3. PICK u \in DOMAIN design.uhb[j] : n \in design.uhb[j][u]
    BY DEF Holders
  <2>4. t = u
    BY <2>1, <2>2, <2>3 DEF OneStage
  <2>5. SpatialItem(i, j, t, n) \in Orders!Items
    BY <2>1, <2>2, <2>3, <2>4, SpatialInItems
  <2> QED
    BY <2>5, SpatialFields DEF Spatial
<1>3. IsFiniteSet(H)
  <2>1. IsFiniteSet(Instns)
    BY FS_Interval DEF Staged
  <2>2. Holders(n) \in SUBSET Instns
    BY DEF Holders
  <2> QED
    BY <2>1, <2>2, FS_Subset, FS_Product
<1>4. f \in Injection(Spatial(n), H)
  BY <1>1, SpatialUnique DEF Injection, IsInjective, SameInstns
<1>5. f \in Surjection(Spatial(n), H)
  <2>1. f \in [Spatial(n) -> H]
    BY <1>1
  <2>2. \A p \in H : \E it \in Spatial(n) : f[it] = p
    BY <1>2
  <2> QED
    BY <2>1, <2>2 DEF Surjection
<1> HIDE DEF H, f
<1>6. Cardinality(Spatial(n)) = Cardinality(H)
  BY <1>3, <1>4, <1>5, FS_Injection
<1> QED
  BY <1>1, <1>2, <1>3, <1>6 DEF H

(* compare_spatial lets two nodes of a stage pass only if the same         *)
(* instructions update them.                                               *)
LEMMA MatchHolders ==
  ASSUME Staged, OneStage, DOMAIN res = Orders!Items,
         NEW i \in Instns, NEW t \in DOMAIN design.uhb[i],
         NEW n \in design.uhb[i][t], NEW m \in design.uhb[i][t], SpatialMatch(n, m)
  PROVE  SameHolders(n, m)
<1>1. \A p \in Holders(n) \X Holders(n) : p \in Holders(m) \X Holders(m)
  <2> SUFFICES ASSUME NEW p \in Holders(n) \X Holders(n)
               PROVE  p \in Holders(m) \X Holders(m)
    OBVIOUS
  <2>1. PICK it \in Spatial(n) : it.i1 = p[1] /\ it.i2 = p[2]
    BY SpatialPairs
  <2>2. PICK it2 \in Spatial(m) : SameInstns(it, it2)
    BY <2>1 DEF SpatialMatch
  <2>3. <<it2.i1, it2.i2>> \in Holders(m) \X Holders(m)
    BY <2>2, SpatialPairs
  <2> QED
    BY <2>1, <2>2, <2>3 DEF SameInstns
<1>2. Holders(n) \X Holders(n) = Holders(m) \X Holders(m)
  <2> DEFINE S == Holders(m) \X Holders(m)
             T == Holders(n) \X Holders(n)
  <2>1. IsFiniteSet(S) /\ Cardinality(S) = Cardinality(T)
    BY SpatialPairs DEF SpatialMatch
  <2>2. T \in SUBSET S
    BY <1>1
  <2> HIDE DEF S, T
  <2>3. S = T
    BY <2>1, <2>2, FS_Subset
  <2> QED
    BY <2>3 DEF S, T
<1>3. Holders(n) = Holders(m)
  <2>1. \A j : j \in Holders(n) <=> <<j, j>> \in Holders(n) \X Holders(n)
    OBVIOUS
  <2>2. \A j : j \in Holders(m) <=> <<j, j>> \in Holders(m) \X Holders(m)
    OBVIOUS
  <2> QED
    BY <1>2, <2>1, <2>2
<1> SUFFICES ASSUME NEW j \in Instns, NEW u \in DOMAIN design.uhb[j]
             PROVE  n \in design.uhb[j][u] <=> m \in design.uhb[j][u]
  BY DEF SameHolders
<1>4. ASSUME n \in design.uhb[j][u] PROVE m \in design.uhb[j][u]
  <2>1. u = t
    BY <1>4 DEF OneStage
  <2>2. PICK v \in DOMAIN design.uhb[j] : m \in design.uhb[j][v]
    BY <1>3, <1>4 DEF Holders
  <2>3. v = t
    BY <2>2 DEF OneStage
  <2> QED
    BY <2>1, <2>2, <2>3
<1>5. ASSUME m \in design.uhb[j][u] PROVE n \in design.uhb[j][u]
  <2>1. u = t
    BY <1>5 DEF OneStage
  <2>2. PICK v \in DOMAIN design.uhb[j] : n \in design.uhb[j][v]
    BY <1>3, <1>5 DEF Holders
  <2>3. v = t
    BY <2>2 DEF OneStage
  <2> QED
    BY <2>1, <2>2, <2>3
<1> QED
  BY <1>4, <1>5

-----------------------------------------------------------------------------
(* compare_prop.                                                           *)

(* Its answer for two nodes does not depend on the instruction whose path  *)
(* has brought them up.                                                    *)
LEMMA SameAnswer ==
  ASSUME MemoriesKnown, NEW i \in Instns, NEW j \in Instns,
         NEW t \in DOMAIN design.uhb[i], NEW u \in DOMAIN design.uhb[j],
         NEW n \in design.uhb[i][t], NEW m \in design.uhb[i][t],
         n \in design.uhb[j][u], m \in design.uhb[j][u], ToMerge(i, n, m)
  PROVE  ToMerge(j, n, m)
<1>1. n \in DOMAIN design.loc[i] <=> n \in DOMAIN design.loc[j]
  BY DEF MemoriesKnown
<1>2. m \in DOMAIN design.loc[i] <=> m \in DOMAIN design.loc[j]
  BY DEF MemoriesKnown
<1>3. SharedArray(i, n) = SharedArray(j, n) /\ SharedArray(i, m) = SharedArray(j, m)
  BY <1>1, <1>2 DEF SharedArray, IsMem
<1>4. UpToTemporal(j, n, m)
  BY <1>3 DEF ToMerge, UpToTemporal
<1> QED
  BY <1>4 DEF ToMerge

(* It looks at nothing but the design and the verdicts.                    *)
LEMMA AnswerFrame ==
  ASSUME UNCHANGED <<design, res>>, NEW i, NEW n, NEW m
  PROVE  ToMerge(i, n, m)' <=> ToMerge(i, n, m)
<1>1. (Spatial(n)' = Spatial(n)) /\ (Spatial(m)' = Spatial(m))
  BY DEF Spatial
<1>2. SpatialMatch(n, m)' <=> SpatialMatch(n, m)
  BY <1>1 DEF SpatialMatch
<1>3. UpToTemporal(i, n, m)' <=> UpToTemporal(i, n, m)
  BY <1>2 DEF UpToTemporal, SharedArray, IsLocal, IsMem
<1>4. Temporal(n)' = Temporal(n) /\ Temporal(m)' = Temporal(m)
  BY DEF Temporal
<1>5. DataDep(n)' = DataDep(n) /\ DataDep(m)' = DataDep(m)
  BY DEF DataDep
<1>6. LocalDataDep(n)' <=> LocalDataDep(n)
  BY <1>5 DEF LocalDataDep
<1>7. DiffMatch(Temporal(n), Temporal(m), n, m)' <=> DiffMatch(Temporal(n), Temporal(m), n, m)
  BY <1>4 DEF DiffMatch, Compared, Counterparts, Mutual, SameInstns
<1>8. DiffMatch(DataDep(n), DataDep(m), n, m)' <=> DiffMatch(DataDep(n), DataDep(m), n, m)
  BY <1>5 DEF DiffMatch, Compared, Counterparts, Mutual, SameInstns
<1> QED
  BY <1>3, <1>6, <1>7, <1>8 DEF ToMerge

(* Nor does the question whether it has one answer.                        *)
LEMMA OneAnswerFrame ==
  ASSUME UNCHANGED <<design, res>>
  PROVE  OneAnswer' <=> OneAnswer
<1>1. \A i, n, m : ToMerge(i, n, m)' <=> ToMerge(i, n, m)
  BY AnswerFrame
<1> QED
  BY <1>1 DEF OneAnswer, Instns

-----------------------------------------------------------------------------
(* The two loops over the vector of a stage.                               *)

(* A vector of a finite set has all its elements.                          *)
LEMMA Vector ==
  ASSUME NEW S, IsFiniteSet(S), NEW q \in SetToSeqs(S)
  PROVE  /\ q \in Seq(S) /\ Len(q) \in Nat
         /\ \A k \in 1 .. Len(q) : q[k] \in S
         /\ \A n \in S : \E k \in 1 .. Len(q) : q[k] = n
<1> DEFINE D == 1 .. Cardinality(S)
<1>1. Cardinality(S) \in Nat
  BY FS_CardinalityType
<1>2. q \in [D -> S] /\ \A i, j \in D : i # j => q[i] # q[j]
  BY DEF SetToSeqs
<1>3. q \in Seq(S) /\ Len(q) = Cardinality(S)
  BY <1>1, <1>2
<1>4. q \in Injection(D, S)
  BY <1>2 DEF Injection, IsInjective
<1>5. IsFiniteSet(D) /\ Cardinality(D) = Cardinality(S)
  BY <1>1, FS_Interval
<1>6. q \in Surjection(D, S)
  BY <1>4, <1>5, FS_Injection
<1> QED
  BY <1>1, <1>2, <1>3, <1>6 DEF Surjection

(* Where the two loops are.                                                *)
PairsOK ==
  /\ dep \in DOMAIN design.uhb[idx] /\ uhb_nodes \in SetToSeqs(design.uhb[idx][dep])
  /\ pair \in Nat \X Nat /\ 1 <= pair[1] /\ pair[1] < pair[2] /\ pair[2] <= Len(uhb_nodes) + 1
  /\ ~ PairsLeft => pair[1] >= Len(uhb_nodes)

(* The two nodes have been S1 and S2, in this order or the other.          *)
Seen(n1, n2) ==
  \E a, b \in 1 .. Len(uhb_nodes) :
    /\ a < b /\ (a < pair[1] \/ (a = pair[1] /\ b < pair[2]))
    /\ \/ n1 = uhb_nodes[a] /\ n2 = uhb_nodes[b]
       \/ n2 = uhb_nodes[a] /\ n1 = uhb_nodes[b]

(* The next pair is in range, and only the present one is added to those   *)
(* that have been compared.                                                *)
LEMMA NextPair ==
  ASSUME PairsOK, PairsLeft, Len(uhb_nodes) \in Nat, pair' = After(pair), uhb_nodes' = uhb_nodes
  PROVE  /\ pair' \in Nat \X Nat /\ 1 <= pair'[1] /\ pair'[1] < pair'[2] /\ pair'[2] <= Len(uhb_nodes) + 1
         /\ pair'[2] > Len(uhb_nodes) => pair'[1] >= Len(uhb_nodes)
         /\ \A n1, n2 : Seen(n1, n2)' => \/ Seen(n1, n2)
                                         \/ n1 = S1 /\ n2 = S2
                                         \/ n2 = S1 /\ n1 = S2
<1>1. PICK x \in Nat, y \in Nat : pair = <<x, y>>
  BY DEF PairsOK
<1>2. PICK L \in Nat : L = Len(uhb_nodes)
  OBVIOUS
<1>3. 1 <= x /\ x < y /\ y <= L
  BY <1>1, <1>2 DEF PairsOK, PairsLeft
<1>4. pair' = IF y < L THEN <<x, y + 1>> ELSE <<x + 1, x + 2>>
  BY <1>1, <1>2 DEF After
<1>5. PICK v \in Nat, w \in Nat : /\ pair' = <<v, w>>
                                  /\ IF y < L THEN v = x /\ w = y + 1 ELSE v = x + 1 /\ w = x + 2
  BY <1>4
<1>6. 1 <= v /\ v < w /\ w <= L + 1 /\ (w > L => v >= L)
  BY <1>3, <1>5
<1>7. ASSUME NEW n1, NEW n2, Seen(n1, n2)'
      PROVE  Seen(n1, n2) \/ (n1 = S1 /\ n2 = S2) \/ (n2 = S1 /\ n1 = S2)
  <2>1. PICK a \in 1 .. L, b \in 1 .. L :
          /\ a < b /\ (a < v \/ (a = v /\ b < w))
          /\ \/ n1 = uhb_nodes[a] /\ n2 = uhb_nodes[b]
             \/ n2 = uhb_nodes[a] /\ n1 = uhb_nodes[b]
    BY <1>2, <1>5, <1>7 DEF Seen
  <2>2. (a < x \/ (a = x /\ b < y)) \/ (a = x /\ b = y)
    BY <1>3, <1>5, <2>1
  <2>3. CASE a < x \/ (a = x /\ b < y)
    BY <1>1, <1>2, <2>1, <2>3 DEF Seen
  <2>4. CASE a = x /\ b = y
    BY <1>1, <2>1, <2>4 DEF S1, S2
  <2> QED
    BY <2>2, <2>3, <2>4
<1> QED
  BY <1>2, <1>5, <1>6, <1>7

(* When no pair is left, all have been compared.                           *)
LEMMA AllSeen ==
  ASSUME Staged, idx \in Instns, PairsOK, ~ PairsLeft,
         NEW n1 \in design.uhb[idx][dep], NEW n2 \in design.uhb[idx][dep], n1 # n2
  PROVE  Seen(n1, n2)
<1>1. IsFiniteSet(design.uhb[idx][dep])
  BY DEF Staged, PairsOK
<1>2. /\ Len(uhb_nodes) \in Nat
      /\ \A n \in design.uhb[idx][dep] : \E k \in 1 .. Len(uhb_nodes) : uhb_nodes[k] = n
  BY <1>1, Vector DEF PairsOK
<1>3. PICK a \in 1 .. Len(uhb_nodes), b \in 1 .. Len(uhb_nodes) : uhb_nodes[a] = n1 /\ uhb_nodes[b] = n2
  BY <1>2
<1>4. pair \in Nat \X Nat /\ pair[1] >= Len(uhb_nodes)
  BY DEF PairsOK
<1>5. CASE a < b
  <2>1. a < pair[1]
    BY <1>2, <1>4, <1>5
  <2> QED
    BY <1>3, <1>5, <2>1 DEF Seen
<1>6. CASE b < a
  <2>1. b < pair[1]
    BY <1>2, <1>4, <1>6
  <2> QED
    BY <1>3, <1>6, <2>1 DEF Seen
<1> QED
  BY <1>2, <1>3, <1>5, <1>6

-----------------------------------------------------------------------------
(* Node merging.  The sets of a stage are unions of nodes that the same    *)
(* instructions update; every instruction that has a node gives it the     *)
(* same root.  Nodes that are still apart once they have been compared     *)
(* are not merged whichever comes first; so, if compare_prop has one       *)
(* answer, a stage whose roots have been collected is never touched again. *)

BaseInv ==
  /\ design \in Designs /\ DOMAIN res = Orders!Items
  /\ phase \in {"stage", "pairs", "abort", "dump", "header", "done"}
  /\ idx \in Instns /\ dep \in 1 .. Len(design.uhb[idx]) + 1
  /\ phase = "pairs" => PairsOK

SetsInv ==
  /\ DOMAIN sets = Instns
  /\ \A i \in Instns : DOMAIN sets[i] = DOMAIN design.uhb[i]
  /\ \A i \in Instns : \A t \in DOMAIN design.uhb[i] :
       sets[i][t] \in [design.uhb[i][t] -> design.uhb[i][t]]
  /\ \A i \in Instns : \A t \in DOMAIN design.uhb[i] : \A n \in design.uhb[i][t] :
       /\ sets[i][t][sets[i][t][n]] = sets[i][t][n]
       /\ SameHolders(n, sets[i][t][n])
  /\ \A i, j \in Instns : \A t \in DOMAIN design.uhb[i] \cap DOMAIN design.uhb[j] :
       \A n \in design.uhb[i][t] \cap design.uhb[j][t] : sets[i][t][n] = sets[j][t][n]

(* Stages whose roots have been collected, and nodes that have been        *)
(* compared.                                                               *)
Collected(i, t) == phase \notin {"stage", "pairs"} \/ i < idx \/ (i = idx /\ t < dep)
Answered(i, t, n1, n2) == Collected(i, t) \/ (phase = "pairs" /\ i = idx /\ t = dep /\ Seen(n1, n2))

(* compare_prop merges the two nodes, whichever comes first.               *)
MergeEither(i, n1, n2) == ToMerge(i, n1, n2) /\ ToMerge(i, n2, n1)
ApartInv ==
  \A i \in Instns : \A t \in DOMAIN design.uhb[i] : \A n1, n2 \in design.uhb[i][t] :
    sets[i][t][n1] # sets[i][t][n2] /\ Answered(i, t, n1, n2) => ~ MergeEither(i, n1, n2)

RootsKept ==
  \A i \in Instns : \A t \in DOMAIN design.uhb[i] : Collected(i, t) => Roots(i, t) \subseteq all_uhb_parents
ParentsPlaced ==
  \A p \in all_uhb_parents : \E i \in Instns : \E t \in DOMAIN design.uhb[i] : p \in design.uhb[i][t]
ParentsExact ==
  \A p \in all_uhb_parents : \E i \in Instns : \E t \in DOMAIN design.uhb[i] : Collected(i, t) /\ p \in Roots(i, t)

MergeInv ==
  /\ BaseInv /\ SetsInv /\ ParentsPlaced
  /\ phase # "abort" => RootsKept /\ ApartInv
  /\ phase # "abort" /\ OneAnswer => ParentsExact

(* A design in order, on every state.                                      *)
LEMMA DesignGood ==
  ASSUME BaseInv
  PROVE  Staged /\ OneStage /\ MemoriesKnown
BY MergeAssumption, DesignFacts DEF BaseInv

(* What a merge does to the sets of each stage.                            *)
MergedAt(s1, s2, i, t) ==
  IF t = dep /\ {s1, s2} \subseteq design.uhb[i][t] THEN Union(sets[i][t], s1, s2) ELSE sets[i][t]

(* A merge keeps every stage's map and unites the two sets in it.          *)
LEMMA MergedValue ==
  ASSUME SetsInv, NEW s1, NEW s2
  PROVE  /\ DOMAIN Merged(s1, s2) = Instns
         /\ \A i \in Instns : DOMAIN Merged(s1, s2)[i] = DOMAIN design.uhb[i]
         /\ \A i \in Instns : \A t \in DOMAIN design.uhb[i] : Merged(s1, s2)[i][t] = MergedAt(s1, s2, i, t)
<1>1. \A i \in Instns : DOMAIN sets[i] = DOMAIN design.uhb[i]
  BY DEF SetsInv
<1>2. \A i \in Instns : \A t \in DOMAIN design.uhb[i] : DOMAIN sets[i][t] = design.uhb[i][t]
  BY DEF SetsInv
<1> QED
  BY <1>1, <1>2 DEF Merged, MergedAt

(* A merge changes the root of a node to that of s1 or not at all; nodes   *)
(* that were together stay so, and s1 joins s2 wherever both are.          *)
LEMMA MergedRoots ==
  ASSUME SetsInv, NEW s1, NEW s2, sets' = Merged(s1, s2),
         NEW i \in Instns, NEW t \in DOMAIN design.uhb[i]
  PROVE  /\ sets'[i][t] \in [design.uhb[i][t] -> design.uhb[i][t]]
         /\ \A n \in design.uhb[i][t] : sets'[i][t][sets'[i][t][n]] = sets'[i][t][n]
         /\ \A n \in design.uhb[i][t] :
              sets'[i][t][n] = IF /\ t = dep /\ {s1, s2} \subseteq design.uhb[i][t]
                                  /\ sets[i][t][n] = sets[i][t][s2]
                               THEN sets[i][t][s1] ELSE sets[i][t][n]
<1> DEFINE U == design.uhb[i][t]
           root == sets[i][t]
<1>1. root \in [U -> U] /\ \A n \in U : root[root[n]] = root[n]
  BY DEF SetsInv
<1>2. sets'[i][t] = MergedAt(s1, s2, i, t)
  BY MergedValue
<1>3. CASE t = dep /\ {s1, s2} \subseteq U
  <2>1. s1 \in U /\ s2 \in U
    BY <1>3
  <2>2. sets'[i][t] = Union(root, s1, s2)
    BY <1>2, <1>3 DEF MergedAt
  <2> DEFINE r == sets'[i][t]
  <2>3. r \in [U -> U] /\ \A n \in U : r[n] = IF root[n] = root[s2] THEN root[s1] ELSE root[n]
    BY <1>1, <2>1, <2>2 DEF Union
  <2>4. \A n \in U : root[n] \in U
    BY <1>1
  <2> HIDE DEF U, root, r
  <2>5. ASSUME NEW n \in U PROVE r[r[n]] = r[n]
    <3>1. r[root[s1]] = root[s1]
      BY <1>1, <2>1, <2>3, <2>4
    <3>2. CASE root[n] = root[s2]
      BY <2>3, <3>1, <3>2
    <3>3. CASE root[n] # root[s2]
      BY <1>1, <2>3, <2>4, <3>3
    <3> QED
      BY <3>2, <3>3
  <2> QED
    BY <1>3, <2>3, <2>5 DEF U, root, r
<1>4. CASE ~ (t = dep /\ {s1, s2} \subseteq U)
  <2>1. sets'[i][t] = root
    BY <1>2, <1>4 DEF MergedAt
  <2> QED
    BY <1>1, <1>4, <2>1
<1> QED
  BY <1>3, <1>4

(* Being updated by the same instructions is an equivalence.               *)
LEMMA HoldersEquivalence ==
  ASSUME NEW n, NEW m, NEW k
  PROVE  /\ SameHolders(n, n)
         /\ SameHolders(n, m) => SameHolders(m, n)
         /\ SameHolders(n, m) /\ SameHolders(m, k) => SameHolders(n, k)
BY DEF SameHolders

(* A merge of nodes that the same instructions update keeps the sets what  *)
(* they should be.                                                         *)
LEMMA MergeKeepsSets ==
  ASSUME SetsInv, UNCHANGED design, NEW s1, NEW s2, SameHolders(s1, s2), sets' = Merged(s1, s2)
  PROVE  SetsInv'
<1>1. DOMAIN sets' = Instns' /\ \A i \in Instns' : DOMAIN sets'[i] = DOMAIN design'.uhb[i]
  BY MergedValue DEF Instns
<1>2. \A i \in Instns : \A t \in DOMAIN design.uhb[i] : \A n, m :
        SameHolders(n, m)' <=> SameHolders(n, m)
  BY DEF SameHolders, Instns
<1>3. ASSUME NEW i \in Instns, NEW t \in DOMAIN design.uhb[i], NEW n \in design.uhb[i][t]
      PROVE  SameHolders(n, sets'[i][t][n])
  <2>1. SameHolders(n, sets[i][t][n])
    BY <1>3 DEF SetsInv
  <2>2. CASE /\ t = dep /\ {s1, s2} \subseteq design.uhb[i][t]
             /\ sets[i][t][n] = sets[i][t][s2]
    <3>1. sets'[i][t][n] = sets[i][t][s1]
      BY <1>3, <2>2, MergedRoots
    <3>2. SameHolders(s1, sets[i][t][s1]) /\ SameHolders(s2, sets[i][t][s2])
      BY <1>3, <2>2 DEF SetsInv
    <3>3. SameHolders(n, s2)
      BY <2>1, <2>2, <3>2, HoldersEquivalence
    <3> QED
      BY <3>1, <3>2, <3>3, HoldersEquivalence
  <2>3. CASE ~ (/\ t = dep /\ {s1, s2} \subseteq design.uhb[i][t]
                /\ sets[i][t][n] = sets[i][t][s2])
    <3>1. sets'[i][t][n] = sets[i][t][n]
      BY <1>3, <2>3, MergedRoots
    <3> QED
      BY <2>1, <3>1
  <2> QED
    BY <2>2, <2>3
<1>4. ASSUME NEW i \in Instns, NEW j \in Instns, NEW t \in DOMAIN design.uhb[i] \cap DOMAIN design.uhb[j],
             NEW n \in design.uhb[i][t] \cap design.uhb[j][t]
      PROVE  sets'[i][t][n] = sets'[j][t][n]
  <2>1. \A m \in design.uhb[i][t] \cap design.uhb[j][t] : sets[i][t][m] = sets[j][t][m]
    BY <1>4 DEF SetsInv
  <2>2. s1 \in design.uhb[i][t] <=> s2 \in design.uhb[i][t]
    BY <1>4 DEF SameHolders
  <2>3. s1 \in design.uhb[j][t] <=> s2 \in design.uhb[j][t]
    BY <1>4 DEF SameHolders
  <2>4. ASSUME NEW a \in {i, j}, s2 \in design.uhb[a][t], sets[a][t][n] = sets[a][t][s2]
        PROVE  s2 \in design.uhb[i][t] \cap design.uhb[j][t]
    <3>1. SameHolders(n, sets[a][t][n]) /\ SameHolders(s2, sets[a][t][s2])
      BY <1>4, <2>4 DEF SetsInv
    <3>2. SameHolders(n, s2)
      BY <2>4, <3>1, HoldersEquivalence
    <3> QED
      BY <1>4, <3>2 DEF SameHolders
  <2>5. /\ sets'[i][t][n] = IF /\ t = dep /\ {s1, s2} \subseteq design.uhb[i][t]
                               /\ sets[i][t][n] = sets[i][t][s2]
                            THEN sets[i][t][s1] ELSE sets[i][t][n]
        /\ sets'[j][t][n] = IF /\ t = dep /\ {s1, s2} \subseteq design.uhb[j][t]
                               /\ sets[j][t][n] = sets[j][t][s2]
                            THEN sets[j][t][s1] ELSE sets[j][t][n]
    BY <1>4, MergedRoots
  <2>6. CASE t = dep /\ s2 \in design.uhb[i][t] /\ sets[i][t][n] = sets[i][t][s2]
    <3>1. s2 \in design.uhb[i][t] \cap design.uhb[j][t] /\ s1 \in design.uhb[i][t] \cap design.uhb[j][t]
      BY <2>2, <2>3, <2>4, <2>6
    <3>2. sets[j][t][n] = sets[j][t][s2] /\ sets[j][t][s1] = sets[i][t][s1]
      BY <1>4, <2>1, <2>6, <3>1
    <3> QED
      BY <2>5, <2>6, <3>1, <3>2
  <2>7. CASE t = dep /\ s2 \in design.uhb[j][t] /\ sets[j][t][n] = sets[j][t][s2]
    <3>1. s2 \in design.uhb[i][t] \cap design.uhb[j][t] /\ s1 \in design.uhb[i][t] \cap design.uhb[j][t]
      BY <2>2, <2>3, <2>4, <2>7
    <3>2. sets[i][t][n] = sets[i][t][s2] /\ sets[j][t][s1] = sets[i][t][s1]
      BY <1>4, <2>1, <2>7, <3>1
    <3> QED
      BY <2>5, <2>7, <3>1, <3>2
  <2>8. CASE /\ ~ (t = dep /\ s2 \in design.uhb[i][t] /\ sets[i][t][n] = sets[i][t][s2])
             /\ ~ (t = dep /\ s2 \in design.uhb[j][t] /\ sets[j][t][n] = sets[j][t][s2])
    BY <1>4, <2>1, <2>5, <2>8
  <2> QED
    BY <2>6, <2>7, <2>8
<1>5. \A i \in Instns : \A t \in DOMAIN design.uhb[i] :
        /\ sets'[i][t] \in [design.uhb[i][t] -> design.uhb[i][t]]
        /\ \A n \in design.uhb[i][t] : sets'[i][t][sets'[i][t][n]] = sets'[i][t][n]
  BY MergedRoots
<1>6. Instns' = Instns
  BY DEF Instns
<1> QED
  BY <1>1, <1>2, <1>3, <1>4, <1>5, <1>6 DEF SetsInv

(* A step does not change the orders the bins hold.                        *)
LEMMA ItemsFrame ==
  ASSUME UNCHANGED design
  PROVE  Orders!Items' = Orders!Items
BY DEF Orders!Items, Orders!PairItems, Orders!StageItems, Orders!InferredItems,
   Orders!AccessItems, Orders!FlowItems, Orders!Item, Orders!PcrType, Orders!StagePcr, Orders!IsMem,
   Orders!SharedMem, Orders!IsLocal, Orders!DownPool, Orders!Depth, Orders!Instns

(* Sets that nothing changes stay as they are.                             *)
LEMMA SetsFrame ==
  ASSUME SetsInv, UNCHANGED <<design, sets>>
  PROVE  SetsInv'
<1>1. \A n, m : SameHolders(n, m)' <=> SameHolders(n, m)
  BY DEF SameHolders, Instns
<1> QED
  BY <1>1 DEF SetsInv, Instns

(* A step that changes neither sets nor parents keeps what is known of     *)
(* them, if it collects nothing and leaves no pair unanswered.             *)
LEMMA CollectFrame ==
  ASSUME MergeInv, BaseInv', phase # "abort", UNCHANGED <<design, res, sets, all_uhb_parents>>,
         phase' # "abort" => \A i \in Instns : \A t \in DOMAIN design.uhb[i] : Collected(i, t)' <=> Collected(i, t),
         phase' # "abort" =>
           \A i \in Instns : \A t \in DOMAIN design.uhb[i] : \A n1, n2 \in design.uhb[i][t] :
             sets[i][t][n1] # sets[i][t][n2] /\ Answered(i, t, n1, n2)' =>
               Answered(i, t, n1, n2) \/ ~ MergeEither(i, n1, n2)
  PROVE  MergeInv'
<1>1. SetsInv'
  BY SetsFrame DEF MergeInv
<1>2. ParentsPlaced'
  BY DEF MergeInv, ParentsPlaced, Instns
<1>3. \A i, t : Roots(i, t)' = Roots(i, t)
  BY DEF Roots
<1>4. phase' # "abort" => RootsKept'
  BY <1>3 DEF MergeInv, RootsKept, Instns
<1>5. ASSUME phase' # "abort" PROVE ApartInv'
  <2>1. \A i, n, m : MergeEither(i, n, m)' <=> MergeEither(i, n, m)
    BY AnswerFrame DEF MergeEither
  <2> QED
    BY <1>5, <2>1 DEF MergeInv, ApartInv, Instns
<1>6. ASSUME phase' # "abort", OneAnswer' PROVE ParentsExact'
  <2>1. ParentsExact
    BY <1>6, OneAnswerFrame DEF MergeInv
  <2> QED
    BY <1>3, <1>6, <2>1 DEF ParentsExact, Instns
<1> QED
  BY <1>1, <1>2, <1>4, <1>5, <1>6 DEF MergeInv

(* The order of the nodes of a stage is fixed.                             *)
LEMMA StageStep ==
  ASSUME MergeInv, Stage
  PROVE  MergeInv'
<1>1. /\ phase = "stage" /\ dep <= Len(design.uhb[idx]) /\ phase' = "pairs"
      /\ uhb_nodes' \in SetToSeqs(design.uhb[idx][dep]) /\ pair' = <<1, 2>>
      /\ UNCHANGED <<design, res, idx, dep, sets, all_uhb_parents>>
  BY DEF Stage
<1>2. BaseInv /\ Staged
  BY DesignGood DEF MergeInv
<1>3. dep \in DOMAIN design.uhb[idx]
  BY <1>1, <1>2 DEF BaseInv, Staged
<1>4. Len(uhb_nodes') \in Nat /\ Len(uhb_nodes') >= 1
  <2>1. IsFiniteSet(design.uhb[idx][dep]) /\ design.uhb[idx][dep] # {}
    BY <1>2, <1>3 DEF Staged, BaseInv
  <2>2. /\ Len(uhb_nodes') \in Nat
        /\ \A n \in design.uhb[idx][dep] : \E k \in 1 .. Len(uhb_nodes') : uhb_nodes'[k] = n
    BY <1>1, <2>1, Vector
  <2> QED
    BY <2>1, <2>2
<1>5. PairsOK'
  BY <1>1, <1>3, <1>4 DEF PairsOK, PairsLeft
<1>6. BaseInv'
  <2>1. (DOMAIN res = Orders!Items)'
    BY <1>1, <1>2, ItemsFrame DEF BaseInv
  <2> QED
    BY <1>1, <1>2, <1>5, <2>1 DEF BaseInv, Instns
<1>7. \A i, t : Collected(i, t)' <=> Collected(i, t)
  BY <1>1 DEF Collected
<1>8. \A i, t, n1, n2 : Answered(i, t, n1, n2)' => Answered(i, t, n1, n2)
  <2>1. \A n1, n2 : ~ Seen(n1, n2)'
    BY <1>1 DEF Seen
  <2> QED
    BY <1>7, <2>1 DEF Answered
<1> QED
  BY <1>1, <1>6, <1>7, <1>8, CollectFrame

(* An assertion of compare_diff fails.                                     *)
LEMMA AbortStep ==
  ASSUME MergeInv, MergeAbort
  PROVE  MergeInv'
<1>1. /\ phase = "pairs" /\ phase' = "abort"
      /\ UNCHANGED <<design, res, idx, dep, uhb_nodes, pair, sets, all_uhb_parents>>
  BY DEF MergeAbort
<1>2. BaseInv'
  <2>1. (DOMAIN res = Orders!Items)'
    BY <1>1, ItemsFrame DEF MergeInv, BaseInv
  <2> QED
    BY <1>1, <2>1 DEF MergeInv, BaseInv, Instns
<1> QED
  BY <1>1, <1>2, CollectFrame

(* The loop over the instructions.                                         *)
LEMMA NextInstnStep ==
  ASSUME MergeInv, NextInstn
  PROVE  MergeInv'
<1>1. /\ phase = "stage" /\ dep > Len(design.uhb[idx]) /\ dep' = 1
      /\ IF idx < Len(design.uhb) THEN idx' = idx + 1 /\ phase' = phase ELSE idx' = 1 /\ phase' = "dump"
      /\ UNCHANGED <<design, res, uhb_nodes, pair, sets, all_uhb_parents>>
  BY DEF NextInstn
<1>2. BaseInv /\ Staged
  BY DesignGood DEF MergeInv
<1>3. Len(design.uhb) \in Nat \ {0} /\ Instns = 1 .. Len(design.uhb) /\ idx \in Instns /\ dep \in Nat
  BY <1>2 DEF Staged, BaseInv
<1>4. \A i \in Instns : Len(design.uhb[i]) \in Nat /\ DOMAIN design.uhb[i] = 1 .. Len(design.uhb[i])
  BY <1>2 DEF Staged
<1>5. idx' \in Instns /\ 1 \in 1 .. Len(design.uhb[idx']) + 1
  BY <1>1, <1>3, <1>4
<1>6. BaseInv'
  <2>1. (DOMAIN res = Orders!Items)'
    BY <1>1, <1>2, ItemsFrame DEF BaseInv
  <2> QED
    BY <1>1, <1>2, <1>5, <2>1 DEF BaseInv, Instns
<1>7. \A i \in Instns : \A t \in DOMAIN design.uhb[i] : Collected(i, t)' <=> Collected(i, t)
  <2> SUFFICES ASSUME NEW i \in Instns, NEW t \in DOMAIN design.uhb[i]
               PROVE  Collected(i, t)' <=> Collected(i, t)
    OBVIOUS
  <2>1. i \in Nat /\ t \in Nat /\ t >= 1 /\ t <= Len(design.uhb[i]) /\ i <= Len(design.uhb) /\ idx \in Nat
    BY <1>3, <1>4
  <2>2. Collected(i, t) <=> i < idx \/ (i = idx /\ t < dep)
    BY <1>1 DEF Collected
  <2>3. Collected(i, t) <=> i <= idx
    BY <1>1, <1>3, <1>4, <2>1, <2>2
  <2>4. CASE idx < Len(design.uhb)
    <3>1. Collected(i, t)' <=> i < idx + 1 \/ (i = idx + 1 /\ t < 1)
      BY <1>1, <2>4 DEF Collected
    <3> QED
      BY <2>1, <2>3, <3>1
  <2>5. CASE ~ (idx < Len(design.uhb))
    <3>1. Collected(i, t)'
      BY <1>1, <2>5 DEF Collected
    <3> QED
      BY <1>3, <2>1, <2>3, <2>5, <3>1
  <2> QED
    BY <2>4, <2>5
<1>8. phase' # "pairs"
  BY <1>1
<1>9. \A i \in Instns : \A t \in DOMAIN design.uhb[i] : \A n1, n2 \in design.uhb[i][t] :
        Answered(i, t, n1, n2)' => Answered(i, t, n1, n2)
  BY <1>7, <1>8 DEF Answered
<1> QED
  BY <1>1, <1>6, <1>7, <1>9, CollectFrame

(* dsj_dump collects the roots of a stage whose pairs have been compared.  *)
LEMMA EndStageStep ==
  ASSUME MergeInv, EndStage
  PROVE  MergeInv'
<1>1. /\ phase = "pairs" /\ ~ PairsLeft /\ uhb_nodes' = << >>
      /\ all_uhb_parents' = all_uhb_parents \cup Roots(idx, dep)
      /\ phase' = "stage" /\ dep' = dep + 1
      /\ UNCHANGED <<design, res, idx, pair, sets>>
  BY DEF EndStage
<1>2. BaseInv /\ SetsInv /\ ParentsPlaced /\ RootsKept /\ Staged
  BY <1>1, DesignGood DEF MergeInv
<1>3. PairsOK /\ idx \in Instns /\ dep \in DOMAIN design.uhb[idx] /\ dep \in Nat /\ Len(design.uhb[idx]) \in Nat
  BY <1>1, <1>2 DEF BaseInv, PairsOK, Staged
<1>4. BaseInv'
  <2>1. (DOMAIN res = Orders!Items)'
    BY <1>1, <1>2, ItemsFrame DEF BaseInv
  <2>2. dep + 1 \in 1 .. Len(design.uhb[idx]) + 1
    BY <1>2, <1>3 DEF Staged
  <2> QED
    BY <1>1, <1>2, <2>1, <2>2 DEF BaseInv, Instns
<1>5. SetsInv'
  BY <1>1, <1>2, SetsFrame
<1>6. Roots(idx, dep) \subseteq design.uhb[idx][dep]
  BY <1>2, <1>3 DEF SetsInv, Roots
<1>7. ParentsPlaced'
  BY <1>1, <1>2, <1>3, <1>6 DEF ParentsPlaced, Instns
<1>8. \A i, t : Roots(i, t)' = Roots(i, t)
  BY <1>1 DEF Roots
<1>9. ASSUME NEW i \in Instns, NEW t \in DOMAIN design.uhb[i]
      PROVE  Collected(i, t)' <=> Collected(i, t) \/ (i = idx /\ t = dep)
  <2>1. t \in Nat
    BY <1>2 DEF Staged
  <2>2. Collected(i, t)' <=> i < idx \/ (i = idx /\ t < dep + 1)
    BY <1>1 DEF Collected
  <2>3. Collected(i, t) <=> i < idx \/ (i = idx /\ t < dep)
    BY <1>1 DEF Collected
  <2> QED
    BY <1>3, <2>1, <2>2, <2>3
<1>10. RootsKept'
  <2> SUFFICES ASSUME NEW i \in Instns, NEW t \in DOMAIN design.uhb[i], Collected(i, t)'
               PROVE  Roots(i, t) \subseteq all_uhb_parents'
    BY <1>1, <1>8 DEF RootsKept, Instns
  <2> QED
    BY <1>1, <1>2, <1>9 DEF RootsKept
<1>11. ApartInv'
  <2>1. ApartInv
    BY <1>1 DEF MergeInv
  <2>2. \A i, n, m : MergeEither(i, n, m)' <=> MergeEither(i, n, m)
    BY <1>1, AnswerFrame DEF MergeEither
  <2>3. ASSUME NEW i \in Instns, NEW t \in DOMAIN design.uhb[i], NEW n1 \in design.uhb[i][t], NEW n2 \in design.uhb[i][t],
               sets[i][t][n1] # sets[i][t][n2], Answered(i, t, n1, n2)'
        PROVE  ~ MergeEither(i, n1, n2)
    <3>1. Collected(i, t)'
      BY <1>1, <2>3 DEF Answered
    <3>2. CASE Collected(i, t)
      BY <2>1, <2>3, <3>2 DEF ApartInv, Answered
    <3>3. CASE i = idx /\ t = dep
      <4>1. n1 # n2
        BY <2>3
      <4>2. Seen(n1, n2)
        BY <1>1, <1>2, <1>3, <2>3, <3>3, <4>1, AllSeen
      <4> QED
        BY <1>1, <2>1, <2>3, <3>3, <4>2 DEF ApartInv, Answered
    <3> QED
      BY <1>9, <2>3, <3>1, <3>2, <3>3
  <2> QED
    BY <1>1, <2>2, <2>3 DEF ApartInv, Instns
<1>12. ASSUME OneAnswer' PROVE ParentsExact'
  <2>1. ParentsExact
    BY <1>1, <1>12, OneAnswerFrame DEF MergeInv
  <2> SUFFICES ASSUME NEW p \in all_uhb_parents'
               PROVE  \E i \in Instns : \E t \in DOMAIN design.uhb[i] : Collected(i, t)' /\ p \in Roots(i, t)
    BY <1>1, <1>8 DEF ParentsExact, Instns
  <2>2. CASE p \in all_uhb_parents
    BY <1>9, <2>1, <2>2 DEF ParentsExact
  <2>3. CASE p \in Roots(idx, dep)
    BY <1>3, <1>9, <2>3
  <2> QED
    BY <1>1, <2>2, <2>3
<1> QED
  BY <1>1, <1>4, <1>5, <1>7, <1>10, <1>11, <1>12 DEF MergeInv

(* The two nodes that are compared are of the stage.                       *)
LEMMA PairNodes ==
  ASSUME Staged, idx \in Instns, PairsOK, PairsLeft
  PROVE  S1 \in design.uhb[idx][dep] /\ S2 \in design.uhb[idx][dep] /\ Len(uhb_nodes) \in Nat
<1>1. IsFiniteSet(design.uhb[idx][dep])
  BY DEF Staged, PairsOK
<1>2. Len(uhb_nodes) \in Nat /\ \A k \in 1 .. Len(uhb_nodes) : uhb_nodes[k] \in design.uhb[idx][dep]
  BY <1>1, Vector DEF PairsOK
<1>3. pair[1] \in 1 .. Len(uhb_nodes) /\ pair[2] \in 1 .. Len(uhb_nodes)
  BY <1>2 DEF PairsOK, PairsLeft
<1> QED
  BY <1>2, <1>3 DEF S1, S2

(* Two nodes are compared, and merged or not.                              *)
LEMMA TryMergeStep ==
  ASSUME MergeInv, TryMerge
  PROVE  MergeInv'
<1>1. /\ phase = "pairs" /\ PairsLeft /\ pair' = After(pair)
      /\ sets' = IF Apart /\ ToMerge(idx, S1, S2) THEN Merged(S1, S2) ELSE sets
      /\ UNCHANGED <<design, res, phase, idx, dep, uhb_nodes, all_uhb_parents>>
  BY DEF TryMerge
<1>2. BaseInv /\ SetsInv /\ ParentsPlaced /\ RootsKept /\ Staged /\ OneStage /\ MemoriesKnown
  BY <1>1, DesignGood DEF MergeInv
<1>3. PairsOK /\ idx \in Instns /\ dep \in DOMAIN design.uhb[idx]
  BY <1>1, <1>2 DEF BaseInv, PairsOK
<1>4. PICK s1, s2 : s1 = S1 /\ s2 = S2
  OBVIOUS
<1>5. s1 \in design.uhb[idx][dep] /\ s2 \in design.uhb[idx][dep] /\ Len(uhb_nodes) \in Nat
  BY <1>1, <1>2, <1>3, <1>4, PairNodes
<1>6. BaseInv'
  <2>1. (DOMAIN res = Orders!Items)'
    BY <1>1, <1>2, ItemsFrame DEF BaseInv
  <2>2. PairsOK'
    <3>1. /\ pair' \in Nat \X Nat /\ 1 <= pair'[1] /\ pair'[1] < pair'[2] /\ pair'[2] <= Len(uhb_nodes) + 1
          /\ pair'[2] > Len(uhb_nodes) => pair'[1] >= Len(uhb_nodes)
      BY <1>1, <1>3, <1>5, NextPair
    <3>2. ~ PairsLeft' => pair'[2] > Len(uhb_nodes)
      BY <1>1, <1>5, <3>1 DEF PairsLeft
    <3> QED
      BY <1>1, <1>3, <3>1, <3>2 DEF PairsOK
  <2> QED
    BY <1>1, <1>2, <2>1, <2>2 DEF BaseInv, Instns
<1>7. \A n1, n2 : Seen(n1, n2)' => Seen(n1, n2) \/ (n1 = s1 /\ n2 = s2) \/ (n2 = s1 /\ n1 = s2)
  BY <1>1, <1>3, <1>4, <1>5, NextPair
<1>8. \A i, t : Collected(i, t)' <=> Collected(i, t)
  BY <1>1 DEF Collected
<1>9. \A i, t, n1, n2 : Answered(i, t, n1, n2)' =>
        Answered(i, t, n1, n2) \/ (i = idx /\ t = dep /\ ((n1 = s1 /\ n2 = s2) \/ (n2 = s1 /\ n1 = s2)))
  BY <1>1, <1>7, <1>8 DEF Answered
<1>10. CASE ~ (Apart /\ ToMerge(idx, S1, S2))
  <2>1. sets' = sets
    BY <1>1, <1>10
  <2>2. ASSUME NEW i \in Instns, NEW t \in DOMAIN design.uhb[i],
               NEW n1 \in design.uhb[i][t], NEW n2 \in design.uhb[i][t],
               sets[i][t][n1] # sets[i][t][n2], Answered(i, t, n1, n2)'
        PROVE  Answered(i, t, n1, n2) \/ ~ MergeEither(i, n1, n2)
    <3>1. CASE Answered(i, t, n1, n2)
      BY <3>1
    <3>2. CASE i = idx /\ t = dep /\ ((n1 = s1 /\ n2 = s2) \/ (n2 = s1 /\ n1 = s2))
      <4>1. Apart
        BY <1>4, <2>2, <3>2 DEF Apart
      <4>2. ~ ToMerge(idx, s1, s2)
        BY <1>4, <1>10, <4>1
      <4> QED
        BY <3>2, <4>2 DEF MergeEither
    <3> QED
      BY <1>9, <2>2, <3>1, <3>2
  <2> QED
    BY <1>1, <1>6, <1>8, <2>1, <2>2, CollectFrame
<1>11. CASE Apart /\ ToMerge(idx, S1, S2)
  <2>1. sets' = Merged(s1, s2) /\ ToMerge(idx, s1, s2) /\ sets[idx][dep][s1] # sets[idx][dep][s2]
    BY <1>1, <1>4, <1>11 DEF Apart
  <2>2. SameHolders(s1, s2)
    <3>1. SpatialMatch(s1, s2)
      BY <2>1 DEF ToMerge, UpToTemporal
    <3>2. DOMAIN res = Orders!Items
      BY <1>2 DEF BaseInv
    <3> QED
      BY <1>2, <1>3, <1>5, <3>1, <3>2, MatchHolders
  <2>3. SetsInv'
    BY <1>1, <1>2, <2>1, <2>2, MergeKeepsSets
  <2>4. ASSUME NEW i \in Instns, NEW t \in DOMAIN design.uhb[i], NEW n \in design.uhb[i][t]
        PROVE  sets'[i][t][n] = IF /\ t = dep /\ {s1, s2} \subseteq design.uhb[i][t]
                                   /\ sets[i][t][n] = sets[i][t][s2]
                                THEN sets[i][t][s1] ELSE sets[i][t][n]
    BY <1>2, <2>1, <2>4, MergedRoots
  <2>5. \A i \in Instns : \A t \in DOMAIN design.uhb[i] :
          DOMAIN sets[i][t] = design.uhb[i][t] /\ DOMAIN sets'[i][t] = design.uhb[i][t]
    BY <1>1, <1>2, <2>3 DEF SetsInv, Instns
  <2>6. ASSUME NEW i \in Instns, NEW t \in DOMAIN design.uhb[i]
        PROVE  Roots(i, t)' \subseteq Roots(i, t)
    <3> SUFFICES ASSUME NEW n \in design.uhb[i][t]
                 PROVE  \E m \in design.uhb[i][t] : sets'[i][t][n] = sets[i][t][m]
      BY <2>5, <2>6 DEF Roots
    <3> QED
      BY <2>4, <2>6
  <2>7. RootsKept'
    <3>1. \A i \in Instns : \A t \in DOMAIN design.uhb[i] : Collected(i, t)' => Roots(i, t)' \subseteq all_uhb_parents'
      BY <1>1, <1>2, <1>8, <2>6 DEF RootsKept
    <3> QED
      BY <1>1, <3>1 DEF RootsKept, Instns
  <2>8. ParentsPlaced'
    BY <1>1, <1>2 DEF ParentsPlaced, Instns
  <2>9. ApartInv'
    <3>1. ApartInv
      BY <1>1 DEF MergeInv
    <3>2. \A i, n, m : MergeEither(i, n, m)' <=> MergeEither(i, n, m)
      BY <1>1, AnswerFrame DEF MergeEither
    <3>3. ASSUME NEW i \in Instns, NEW t \in DOMAIN design.uhb[i], NEW n1 \in design.uhb[i][t], NEW n2 \in design.uhb[i][t],
                 sets'[i][t][n1] # sets'[i][t][n2], Answered(i, t, n1, n2)'
          PROVE  ~ MergeEither(i, n1, n2)
      <4>1. sets[i][t][n1] # sets[i][t][n2]
        BY <2>4, <3>3
      <4>2. CASE Answered(i, t, n1, n2)
        BY <3>1, <3>3, <4>1, <4>2 DEF ApartInv
      <4>3. CASE i = idx /\ t = dep /\ ((n1 = s1 /\ n2 = s2) \/ (n2 = s1 /\ n1 = s2))
        <5>1. sets'[idx][dep][s2] = sets[idx][dep][s1]
          BY <1>3, <1>5, <2>4
        <5>2. sets'[idx][dep][s1] = sets[idx][dep][s1]
          BY <1>3, <1>5, <2>1, <2>4
        <5> QED
          BY <3>3, <4>3, <5>1, <5>2
      <4> QED
        BY <1>9, <3>3, <4>2, <4>3
    <3> QED
      BY <1>1, <3>2, <3>3 DEF ApartInv, Instns
  <2>10. ASSUME OneAnswer' PROVE ParentsExact'
    <3>1. OneAnswer /\ ApartInv /\ ParentsExact
      BY <1>1, <2>10, OneAnswerFrame DEF MergeInv
    <3>2. ASSUME NEW i \in Instns, NEW t \in DOMAIN design.uhb[i], Collected(i, t)
          PROVE  Roots(i, t)' = Roots(i, t)
      <4>1. ~ (t = dep /\ {s1, s2} \subseteq design.uhb[i][t])
        <5> SUFFICES ASSUME t = dep, s1 \in design.uhb[i][t], s2 \in design.uhb[i][t]
                     PROVE  FALSE
          OBVIOUS
        <5>1. ToMerge(i, s1, s2)
          BY <1>2, <1>3, <1>5, <2>1, <3>2, SameAnswer
        <5>2. MergeEither(i, s1, s2)
          BY <3>1, <3>2, <5>1 DEF OneAnswer, MergeEither
        <5>3. sets[i][t][s1] = sets[idx][dep][s1] /\ sets[i][t][s2] = sets[idx][dep][s2]
          BY <1>2, <1>3, <1>5, <3>2 DEF SetsInv
        <5> QED
          BY <2>1, <3>1, <3>2, <5>2, <5>3 DEF ApartInv, Answered
      <4>2. \A n \in design.uhb[i][t] : sets'[i][t][n] = sets[i][t][n]
        BY <2>4, <3>2, <4>1
      <4> QED
        BY <2>5, <3>2, <4>2 DEF Roots
    <3>3. ParentsExact'
      <4> SUFFICES ASSUME NEW p \in all_uhb_parents'
                   PROVE  \E i \in Instns : \E t \in DOMAIN design.uhb[i] : Collected(i, t)' /\ p \in Roots(i, t)'
        BY <1>1 DEF ParentsExact, Instns
      <4>1. PICK i \in Instns : \E t \in DOMAIN design.uhb[i] : Collected(i, t) /\ p \in Roots(i, t)
        BY <1>1, <3>1 DEF ParentsExact
      <4>2. PICK t \in DOMAIN design.uhb[i] : Collected(i, t) /\ p \in Roots(i, t)
        BY <4>1
      <4> QED
        BY <1>8, <3>2, <4>2
    <3> QED
      BY <3>3
  <2> QED
    BY <1>1, <1>6, <2>3, <2>7, <2>8, <2>9, <2>10 DEF MergeInv
<1> QED
  BY <1>10, <1>11

(* The dump changes neither sets nor parents.                              *)
LEMMA DumpStep ==
  ASSUME MergeInv, phase \in {"dump", "header", "done"}, phase' \in {"dump", "header", "done"},
         UNCHANGED <<design, res, sets, all_uhb_parents>>,
         idx' \in Instns, dep' \in 1 .. Len(design.uhb[idx']) + 1
  PROVE  MergeInv'
<1>1. BaseInv'
  <2>1. (DOMAIN res = Orders!Items)'
    BY ItemsFrame DEF MergeInv, BaseInv
  <2> QED
    BY <2>1 DEF MergeInv, BaseInv, Instns
<1>2. \A i, t : Collected(i, t)' /\ Collected(i, t)
  BY DEF Collected
<1>3. \A i, t, n1, n2 : Answered(i, t, n1, n2)
  BY <1>2 DEF Answered
<1> QED
  BY <1>1, <1>2, <1>3, CollectFrame

(* Every reading of the verdict files gives every order a verdict.         *)
LEMMA ReadingsDomain ==
  ASSUME NEW r \in Readings
  PROVE  DOMAIN r = Orders!Items
<1>1. \E g, fault : r = Reading(g, fault)
  BY DEF Readings
<1> QED
  BY <1>1 DEF Reading

(* At first every node is alone in its set.                                *)
LEMMA MergeInitInv == Init => MergeInv
<1> SUFFICES ASSUME Init PROVE MergeInv
  OBVIOUS
<1>1. /\ design \in Designs /\ res \in Readings
      /\ phase = "stage" /\ idx = 1 /\ dep = 1 /\ all_uhb_parents = {}
      /\ sets = [i \in Instns |-> [t \in DOMAIN design.uhb[i] |-> [n \in design.uhb[i][t] |-> n]]]
  BY DEF Init, MergeInit
<1>2. Staged /\ DOMAIN res = Orders!Items
  BY <1>1, MergeAssumption, DesignFacts, ReadingsDomain
<1>3. idx \in Instns /\ dep \in 1 .. Len(design.uhb[idx]) + 1
  BY <1>1, <1>2 DEF Staged
<1>4. BaseInv
  BY <1>1, <1>2, <1>3 DEF BaseInv
<1>5. SetsInv
  BY <1>1, HoldersEquivalence DEF SetsInv
<1>6. \A i \in Instns : \A t \in DOMAIN design.uhb[i] : ~ Collected(i, t)
  BY <1>1, <1>2 DEF Collected, Staged
<1>7. RootsKept /\ ParentsPlaced /\ ParentsExact
  BY <1>1, <1>6 DEF RootsKept, ParentsPlaced, ParentsExact
<1>8. ApartInv
  BY <1>1, <1>6 DEF ApartInv, Answered
<1> QED
  BY <1>4, <1>5, <1>7, <1>8 DEF MergeInv

(* The invariant of node merging is inductive.                             *)
LEMMA MergeInvStep == MergeInv /\ [Next]_gvars => MergeInv'
<1> SUFFICES ASSUME MergeInv, [Next]_gvars PROVE MergeInv'
  OBVIOUS
<1>1. BaseInv /\ Staged
  BY DesignGood DEF MergeInv
<1>2. /\ Len(design.uhb) \in Nat \ {0} /\ Instns = 1 .. Len(design.uhb) /\ idx \in Instns
      /\ dep \in 1 .. Len(design.uhb[idx]) + 1 /\ \A i \in Instns : Len(design.uhb[i]) \in Nat
  BY <1>1 DEF Staged, BaseInv
<1>3. CASE Merge
  BY <1>3, StageStep, TryMergeStep, AbortStep, EndStageStep, NextInstnStep DEF Merge, MergeNext
<1>4. CASE DumpStage
  <2>1. /\ phase = "dump" /\ dep <= Len(design.uhb[idx]) /\ dep' = dep + 1
        /\ UNCHANGED <<design, res, phase, idx, sets, all_uhb_parents>>
    BY <1>4 DEF DumpStage
  <2>2. idx' \in Instns /\ dep' \in 1 .. Len(design.uhb[idx']) + 1
    BY <1>2, <2>1
  <2> QED
    BY <2>1, <2>2, DumpStep
<1>5. CASE DumpIntra
  <2>1. /\ phase = "dump"
        /\ IF idx < Len(design.uhb) THEN idx' = idx + 1 /\ dep' = 1 /\ phase' = phase
           ELSE phase' = "header" /\ idx' = idx /\ dep' = dep
        /\ UNCHANGED <<design, res, sets, all_uhb_parents>>
    BY <1>5 DEF DumpIntra
  <2>2. idx' \in Instns /\ dep' \in 1 .. Len(design.uhb[idx']) + 1 /\ phase' \in {"dump", "header"}
    BY <1>2, <2>1
  <2> QED
    BY <2>1, <2>2, DumpStep
<1>6. CASE Header
  <2>1. phase = "header" /\ phase' = "done" /\ UNCHANGED <<design, res, sets, all_uhb_parents, idx, dep>>
    BY <1>6 DEF Header
  <2> QED
    BY <1>2, <2>1, DumpStep
<1>7. CASE UNCHANGED gvars
  <2>1. UNCHANGED <<design, res, phase, idx, dep, uhb_nodes, pair, sets, all_uhb_parents>>
    BY <1>7 DEF gvars, mvars
  <2>2. BaseInv'
    <3>1. (DOMAIN res = Orders!Items)'
      BY <1>1, <2>1, ItemsFrame DEF BaseInv
    <3> QED
      BY <1>1, <2>1, <3>1 DEF BaseInv, Instns, PairsOK, PairsLeft
  <2>3. SetsInv' /\ ParentsPlaced'
    BY <2>1, SetsFrame DEF MergeInv, ParentsPlaced, Instns
  <2>4. \A i, t : (Collected(i, t)' <=> Collected(i, t)) /\ Roots(i, t)' = Roots(i, t)
    BY <2>1 DEF Collected, Roots
  <2>5. \A i, t, n1, n2 : Answered(i, t, n1, n2)' <=> Answered(i, t, n1, n2)
    BY <2>1, <2>4 DEF Answered, Seen
  <2>6. phase # "abort" => RootsKept'
    BY <2>1, <2>4 DEF MergeInv, RootsKept, Instns
  <2>7. \A i, n, m : MergeEither(i, n, m)' <=> MergeEither(i, n, m)
    BY <2>1, AnswerFrame DEF MergeEither
  <2>8. phase # "abort" => ApartInv'
    BY <2>1, <2>5, <2>7 DEF MergeInv, ApartInv, Instns
  <2>9. phase # "abort" /\ OneAnswer => ParentsExact'
    BY <2>1, <2>4 DEF MergeInv, ParentsExact, Instns
  <2>10. OneAnswer' <=> OneAnswer
    BY <2>1, OneAnswerFrame
  <2> QED
    BY <2>1, <2>2, <2>3, <2>6, <2>8, <2>9, <2>10 DEF MergeInv
<1> QED
  BY <1>3, <1>4, <1>5, <1>6, <1>7 DEF Next

(* Node merging keeps its invariant.                                       *)
LEMMA MergeInvariant == Spec => []MergeInv
BY MergeInitInv, MergeInvStep, PTL DEF Spec

(* The roots of the dump are those that were collected stage by stage, if  *)
(* compare_prop has one answer; and all instructions that have a node call *)
(* it by one name.                                                         *)
THEOREM ParentsCorrect == Spec => []ParentsFinal
<1>1. MergeInv => ParentsFinal
  <2> SUFFICES ASSUME MergeInv, phase \notin {"stage", "pairs", "abort"}
               PROVE  /\ \/ all_uhb_parents = UNION {UNION {Roots(i, t) : t \in DOMAIN sets[i]} : i \in Instns}
                         \/ ~ OneAnswer
                      /\ \A i, j \in Instns : \A t \in DOMAIN sets[i] \cap DOMAIN sets[j] :
                           \A n \in DOMAIN sets[i][t] \cap DOMAIN sets[j][t] : sets[i][t][n] = sets[j][t][n]
    BY DEF ParentsFinal
  <2>1. \A i \in Instns : DOMAIN sets[i] = DOMAIN design.uhb[i]
    BY DEF MergeInv, SetsInv
  <2>2. \A i \in Instns : \A t \in DOMAIN design.uhb[i] : DOMAIN sets[i][t] = design.uhb[i][t]
    BY DEF MergeInv, SetsInv
  <2>3. \A i, t : Collected(i, t)
    BY DEF Collected
  <2>4. ASSUME OneAnswer
        PROVE  all_uhb_parents = UNION {UNION {Roots(i, t) : t \in DOMAIN sets[i]} : i \in Instns}
    <3>1. \A p \in all_uhb_parents : \E i \in Instns : \E t \in DOMAIN sets[i] : p \in Roots(i, t)
      BY <2>1, <2>4 DEF MergeInv, ParentsExact
    <3>2. \A i \in Instns : \A t \in DOMAIN sets[i] : Roots(i, t) \subseteq all_uhb_parents
      BY <2>1, <2>3 DEF MergeInv, RootsKept
    <3> QED
      BY <3>1, <3>2
  <2>5. ASSUME NEW i \in Instns, NEW j \in Instns, NEW t \in DOMAIN sets[i] \cap DOMAIN sets[j],
               NEW n \in DOMAIN sets[i][t] \cap DOMAIN sets[j][t]
        PROVE  sets[i][t][n] = sets[j][t][n]
    <3>1. t \in DOMAIN design.uhb[i] \cap DOMAIN design.uhb[j] /\ n \in design.uhb[i][t] \cap design.uhb[j][t]
      BY <2>1, <2>2, <2>5
    <3> QED
      BY <2>5, <3>1 DEF MergeInv, SetsInv
  <2> QED
    BY <2>4, <2>5
<1> QED
  BY <1>1, MergeInvariant, PTL

-----------------------------------------------------------------------------
(* Accesses.  A node where an access of a memory shared by the cores is    *)
(* observed has an order with itself, and no counterpart of that order can *)
(* be found at another node: compare_prop merges it with none.             *)

Observes(n) ==
  \E i \in Instns : \E m \in DOMAIN design.loc[i] : \E a \in design.loc[i][m] :
    ~ IsLocal(m) /\ n \in DownPool(i, m, a)

(* Nodes that the same instructions update, and that are shared arrays for *)
(* the same of them.                                                       *)
Peers(n, m) ==
  /\ SameHolders(n, m)
  /\ \A j \in Instns : \A u \in DOMAIN design.uhb[j] :
       n \in design.uhb[j][u] => SharedArray(j, n) = SharedArray(j, m)

(* What makes two nodes one.                                               *)
Alike(n, m) == Peers(n, m) /\ SpatialMatch(n, m) /\ ~ Observes(n) /\ ~ Observes(m)

(* What the bins are collected from.                                       *)
LEMMA PairInItems ==
  ASSUME NEW i \in Instns, NEW j \in Instns, NEW it \in Orders!PairItems(i, j)
  PROVE  it \in Orders!Items
<1>1. <<i, j>> \in Orders!Instns \X Orders!Instns
  BY DEF Instns, Orders!Instns
<1> QED
  BY <1>1 DEF Orders!Items

(* The orders of a stage.                                                  *)
LEMMA StageInPair ==
  ASSUME NEW i, NEW j, NEW t \in 1 .. Orders!Depth(i, j),
         NEW it \in Orders!StageItems(i, j, t) \cup Orders!InferredItems(i, j, t)
  PROVE  it \in Orders!PairItems(i, j)
BY DEF Orders!PairItems

(* The orders of two accesses.                                             *)
LEMMA AccessInPair ==
  ASSUME NEW i, NEW j, NEW m \in (DOMAIN design.loc[i]) \cap (DOMAIN design.loc[j]),
         NEW a \in design.loc[i][m], NEW b \in design.loc[j][m],
         NEW it \in Orders!AccessItems(i, j, m, a, b) \cup Orders!FlowItems(i, j, m, a, b)
  PROVE  it \in Orders!PairItems(i, j)
<1>1. PICK p \in design.loc[i][m] \X design.loc[j][m] : p = <<a, b>>
  OBVIOUS
<1>2. it \in Orders!AccessItems(i, j, m, p[1], p[2]) \cup Orders!FlowItems(i, j, m, p[1], p[2])
  BY <1>1
<1> DEFINE G(k) == {Orders!AccessItems(i, j, k, q[1], q[2]) \cup Orders!FlowItems(i, j, k, q[1], q[2]) :
                      q \in design.loc[i][k] \X design.loc[j][k]}
           X == Orders!AccessItems(i, j, m, p[1], p[2]) \cup Orders!FlowItems(i, j, m, p[1], p[2])
<1>3. X \in G(m) /\ it \in X
  BY <1>2
<1>4. Orders!PairItems(i, j) =
        UNION ({Orders!StageItems(i, j, t) \cup Orders!InferredItems(i, j, t) : t \in 1 .. Orders!Depth(i, j)}
                 \cup UNION {G(k) : k \in (DOMAIN design.loc[i]) \cap (DOMAIN design.loc[j])})
  BY DEF Orders!PairItems
<1> HIDE DEF G, X
<1>5. X \in UNION {G(k) : k \in (DOMAIN design.loc[i]) \cap (DOMAIN design.loc[j])}
  BY <1>3
<1> QED
  BY <1>3, <1>4, <1>5

(* The order of two accesses at the nodes where they are observed is in    *)
(* the bins.                                                               *)
LEMMA AccessInItems ==
  ASSUME NEW i \in Instns, NEW j \in Instns, NEW m \in (DOMAIN design.loc[i]) \cap (DOMAIN design.loc[j]),
         NEW a \in design.loc[i][m], NEW b \in design.loc[j][m], ~ IsLocal(m),
         NEW n1 \in DownPool(i, m, a), NEW n2 \in DownPool(j, m, b)
  PROVE  Orders!Item(<<"access", i, j, m, a, b>>, "temporal", i, j, n1, n2, TRUE) \in Orders!Items
<1> DEFINE it == Orders!Item(<<"access", i, j, m, a, b>>, "temporal", i, j, n1, n2, TRUE)
           p == <<n1, n2>>
<1>1. p \in Orders!DownPool(i, m, a) \X Orders!DownPool(j, m, b)
  BY DEF DownPool, Orders!DownPool
<1>2. it = Orders!Item(<<"access", i, j, m, a, b>>, "temporal", i, j, p[1], p[2], TRUE)
  OBVIOUS
<1> HIDE DEF p, it
<1>3. it \in Orders!AccessItems(i, j, m, a, b)
  BY <1>1, <1>2 DEF Orders!AccessItems, IsLocal, Orders!IsLocal
<1>4. it \in Orders!PairItems(i, j)
  BY <1>3, AccessInPair
<1>5. it \in Orders!Items
  BY <1>4, PairInItems
<1> QED
  BY <1>5 DEF it

(* The order of two elements of a stage is in the bins.                    *)
LEMMA StageInItems ==
  ASSUME Staged, NEW i \in Instns, NEW j \in Instns, NEW t \in (DOMAIN design.uhb[i]) \cap (DOMAIN design.uhb[j]),
         NEW n1 \in design.uhb[i][t], NEW n2 \in design.uhb[j][t], n1 # n2, ~ SharedMem(i, n1), ~ SharedMem(j, n2)
  PROVE  Orders!Item(<<"pcr", i, j, Orders!StagePcr(t)>>, "temporal", i, j, n1, n2, TRUE) \in Orders!Items
<1> DEFINE it == Orders!Item(<<"pcr", i, j, Orders!StagePcr(t)>>, "temporal", i, j, n1, n2, TRUE)
           p == <<n1, n2>>
<1>1. t \in 1 .. Orders!Depth(i, j)
  BY DepthStages
<1>2. p \in {q \in design.uhb[i][t] \X design.uhb[j][t] :
               IF q[1] = q[2] THEN ~ Orders!IsMem(i, q[1])
               ELSE ~ Orders!SharedMem(i, q[1]) /\ ~ Orders!SharedMem(j, q[2])}
  BY DEF SharedMem, IsMem, IsLocal, Orders!SharedMem, Orders!IsMem, Orders!IsLocal
<1>3. it = Orders!Item(<<"pcr", i, j, Orders!StagePcr(t)>>, Orders!PcrType(p[1], p[2]), i, j, p[1], p[2], TRUE)
  BY DEF Orders!PcrType
<1> HIDE DEF p, it
<1>4. it \in Orders!StageItems(i, j, t)
  BY <1>2, <1>3 DEF Orders!StageItems
<1>5. it \in Orders!PairItems(i, j)
  BY <1>1, <1>4, StageInPair
<1>6. it \in Orders!Items
  BY <1>5, PairInItems
<1> QED
  BY <1>6 DEF it

(* A node that observes an access is ordered with itself.                  *)
LEMMA SelfOrder ==
  ASSUME DOMAIN res = Orders!Items, NEW n, Observes(n)
  PROVE  \E it \in Temporal(n) : it.l1 = n /\ it.l2 = n
<1>1. PICK i \in Instns : \E m \in DOMAIN design.loc[i] : \E a \in design.loc[i][m] :
        ~ IsLocal(m) /\ n \in DownPool(i, m, a)
  BY DEF Observes
<1>2. PICK m \in DOMAIN design.loc[i] : \E a \in design.loc[i][m] : ~ IsLocal(m) /\ n \in DownPool(i, m, a)
  BY <1>1
<1>3. PICK a \in design.loc[i][m] : ~ IsLocal(m) /\ n \in DownPool(i, m, a)
  BY <1>2
<1> DEFINE it == Orders!Item(<<"access", i, i, m, a, a>>, "temporal", i, i, n, n, TRUE)
<1>4. it \in Orders!Items
  BY <1>3, AccessInItems
<1>5. it.type = "temporal" /\ it.l1 = n /\ it.l2 = n
  BY DEF Orders!Item
<1> QED
  BY <1>4, <1>5 DEF Temporal

(* Two nodes of an order of accesses observe them; the order is of one     *)
(* node only there.                                                        *)
LEMMA TemporalShape ==
  ASSUME Staged, DOMAIN res = Orders!Items, NEW it \in DOMAIN res, it.type = "temporal"
  PROVE  OfStage(it) \/ (Observes(it.l1) /\ Observes(it.l2))
<1>1. ~ OfElement(it) /\ ~ OfFlow(it)
  BY SpatialFields DEF OfElement, OfFlow, Orders!Item
<1>2. ASSUME OfAccess(it) PROVE Observes(it.l1) /\ Observes(it.l2)
  <2>1. PICK i \in Instns, j \in Instns : \E m \in DOMAIN design.loc[i] \cap DOMAIN design.loc[j] :
          \E a \in design.loc[i][m], b \in design.loc[j][m] :
            \E n1 \in DownPool(i, m, a), n2 \in DownPool(j, m, b) :
              ~ IsLocal(m) /\ it = Orders!Item(<<"access", i, j, m, a, b>>, "temporal", i, j, n1, n2, TRUE)
    BY <1>2 DEF OfAccess
  <2>2. \E m \in DOMAIN design.loc[i] : \E a \in design.loc[i][m] : ~ IsLocal(m) /\ it.l1 \in DownPool(i, m, a)
    BY <2>1 DEF Orders!Item
  <2>3. \E m \in DOMAIN design.loc[j] : \E a \in design.loc[j][m] : ~ IsLocal(m) /\ it.l2 \in DownPool(j, m, a)
    BY <2>1 DEF Orders!Item
  <2> QED
    BY <2>2, <2>3 DEF Observes
<1> QED
  BY <1>1, <1>2, ItemShapes

(* A data flow through a memory starts at the memory.                      *)
LEMMA FlowShape ==
  ASSUME Staged, DOMAIN res = Orders!Items, NEW it \in DOMAIN res, it.type = "data"
  PROVE  OfFlow(it) /\ \E i \in Instns : it.l1 \in DOMAIN design.loc[i]
<1>1. ~ OfElement(it) /\ ~ OfStage(it) /\ ~ OfAccess(it)
  BY SpatialFields DEF OfElement, OfStage, OfAccess, Orders!Item
<1>2. OfFlow(it)
  BY <1>1, ItemShapes
<1> QED
  BY <1>2 DEF OfFlow, Orders!Item

(* So do the two nodes of a data flow through a memory shared by the cores.*)
LEMMA DataShape ==
  ASSUME Staged, DOMAIN res = Orders!Items, NEW it \in DOMAIN res, it.type = "data"
  PROVE  /\ it.samecore <=> IsLocal(it.l1)
         /\ ~ it.samecore => Observes(it.l1) /\ Observes(it.l2)
<1>1. OfFlow(it)
  BY FlowShape
<1>2. PICK i \in Instns, j \in Instns : \E m \in DOMAIN design.loc[i] \cap DOMAIN design.loc[j] :
        \E a \in design.loc[i][m], b \in design.loc[j][m] : \E n \in design.down[j][m] :
          /\ a.write /\ ~ b.write
          /\ it = Orders!Item(<<"flow", i, j, m, a, b>>, "data", i, j, m, n, Orders!IsLocal(m))
  BY <1>1 DEF OfFlow
<1>3. PICK m \in DOMAIN design.loc[i] \cap DOMAIN design.loc[j] :
        \E a \in design.loc[i][m], b \in design.loc[j][m] : \E n \in design.down[j][m] :
          /\ a.write /\ ~ b.write
          /\ it = Orders!Item(<<"flow", i, j, m, a, b>>, "data", i, j, m, n, Orders!IsLocal(m))
  BY <1>2
<1>4. PICK a \in design.loc[i][m], b \in design.loc[j][m] : \E n \in design.down[j][m] :
        /\ a.write /\ ~ b.write
        /\ it = Orders!Item(<<"flow", i, j, m, a, b>>, "data", i, j, m, n, Orders!IsLocal(m))
  BY <1>3
<1>5. PICK n \in design.down[j][m] :
        /\ a.write /\ ~ b.write
        /\ it = Orders!Item(<<"flow", i, j, m, a, b>>, "data", i, j, m, n, Orders!IsLocal(m))
  BY <1>4
<1>6. it.l1 = m /\ it.l2 = n /\ (it.samecore <=> IsLocal(m))
  BY <1>5 DEF Orders!Item, IsLocal, Orders!IsLocal
<1>7. m \in DownPool(i, m, a) /\ n \in DownPool(j, m, b)
  BY <1>5 DEF DownPool
<1> QED
  BY <1>6, <1>7 DEF Observes
-----------------------------------------------------------------------------
(* There are finitely many orders.                                         *)

(* The memories of an instruction, their accesses and what they feed are   *)
(* finite.                                                                 *)
FiniteTables ==
  \A i \in Instns : /\ IsFiniteSet(DOMAIN design.loc[i])
                    /\ \A m \in DOMAIN design.loc[i] :
                         IsFiniteSet(design.loc[i][m]) /\ IsFiniteSet(design.down[i][m])

(* A design in order is finite.                                            *)
LEMMA DesignFinite ==
  ASSUME BaseInv
  PROVE  FiniteTables
BY MergeAssumption DEF BaseInv, DesignOK, FiniteTables, Instns

(* What a function of a finite set covers is finite.                       *)
LEMMA FiniteImage ==
  ASSUME NEW S, IsFiniteSet(S), NEW f, DOMAIN f = S, NEW U, \A y \in U : \E x \in S : y = f[x]
  PROVE  IsFiniteSet(U)
<1> DEFINE T == {f[x] : x \in S}
           g == [x \in S |-> f[x]]
<1>1. g \in Surjection(S, T)
  BY DEF Surjection
<1> HIDE DEF g
<1>2. IsFiniteSet(T)
  BY <1>1, FS_Surjection
<1>3. U \in SUBSET T
  OBVIOUS
<1> HIDE DEF T
<1> QED
  BY <1>2, <1>3, FS_Subset

(* So is what finitely many finite sets cover.                             *)
LEMMA FiniteCover ==
  ASSUME NEW S, IsFiniteSet(S), NEW f, DOMAIN f = S, \A x \in S : IsFiniteSet(f[x]),
         NEW U, \A y \in U : \E x \in S : y \in f[x]
  PROVE  IsFiniteSet(U)
<1> DEFINE T == {f[x] : x \in S}
<1>1. IsFiniteSet(T)
  <2>1. \A y \in T : \E x \in S : y = f[x]
    OBVIOUS
  <2> HIDE DEF T
  <2> QED
    BY <2>1, FiniteImage
<1>2. \A X \in T : IsFiniteSet(X)
  OBVIOUS
<1>3. U \in SUBSET (UNION T)
  OBVIOUS
<1> HIDE DEF T
<1>4. IsFiniteSet(UNION T)
  BY <1>1, <1>2, FS_UNION
<1> QED
  BY <1>3, <1>4, FS_Subset

(* Two instructions have finitely many orders of a stage.                  *)
LEMMA StageItemsFinite ==
  ASSUME Staged, NEW i \in Instns, NEW j \in Instns, NEW t \in 1 .. Orders!Depth(i, j)
  PROVE  IsFiniteSet(Orders!StageItems(i, j, t) \cup Orders!InferredItems(i, j, t))
<1>1. t \in DOMAIN design.uhb[i] /\ t \in DOMAIN design.uhb[j]
  BY DepthStages
<1>2. IsFiniteSet(design.uhb[i][t]) /\ IsFiniteSet(design.uhb[j][t])
  BY <1>1 DEF Staged
<1>3. IsFiniteSet(design.uhb[i][t] \X design.uhb[j][t])
  BY <1>2, FS_Product
<1>4. IsFiniteSet(Orders!StageItems(i, j, t))
  <2> DEFINE S == design.uhb[i][t] \X design.uhb[j][t]
             f == [p \in S |-> Orders!Item(<<"pcr", i, j, Orders!StagePcr(t)>>, Orders!PcrType(p[1], p[2]), i, j, p[1], p[2], TRUE)]
             U == Orders!StageItems(i, j, t)
  <2>1. DOMAIN f = S
    OBVIOUS
  <2>2. \A y \in U : \E p \in S : y = f[p]
    BY DEF Orders!StageItems
  <2>3. IsFiniteSet(S)
    BY <1>3
  <2> HIDE DEF S, f, U
  <2>4. IsFiniteSet(U)
    BY <2>1, <2>2, <2>3, FiniteImage
  <2> QED
    BY <2>4 DEF U
<1>5. IsFiniteSet(Orders!InferredItems(i, j, t))
  <2> DEFINE S == design.uhb[i][t]
             f == [n \in S |-> Orders!Item(<<"inferred">>, "spatial", i, j, n, n, Orders!IsLocal(n))]
             U == Orders!InferredItems(i, j, t)
  <2>1. DOMAIN f = S
    OBVIOUS
  <2>2. \A y \in U : \E p \in S : y = f[p]
    BY DEF Orders!InferredItems
  <2>3. IsFiniteSet(S)
    BY <1>2
  <2> HIDE DEF S, f, U
  <2>4. IsFiniteSet(U)
    BY <2>1, <2>2, <2>3, FiniteImage
  <2> QED
    BY <2>4 DEF U
<1> QED
  BY <1>4, <1>5, FS_Union

(* And finitely many of two accesses.                                      *)
LEMMA AccessItemsFinite ==
  ASSUME FiniteTables, NEW i \in Instns, NEW j \in Instns,
         NEW m \in (DOMAIN design.loc[i]) \cap (DOMAIN design.loc[j]), NEW a, NEW b
  PROVE  IsFiniteSet(Orders!AccessItems(i, j, m, a, b) \cup Orders!FlowItems(i, j, m, a, b))
<1>1. IsFiniteSet(design.down[i][m]) /\ IsFiniteSet(design.down[j][m])
  BY DEF FiniteTables
<1>2. IsFiniteSet(Orders!DownPool(i, m, a)) /\ IsFiniteSet(Orders!DownPool(j, m, b))
  BY <1>1, FS_Singleton DEF Orders!DownPool
<1>3. IsFiniteSet(Orders!DownPool(i, m, a) \X Orders!DownPool(j, m, b))
  BY <1>2, FS_Product
<1>4. IsFiniteSet(Orders!AccessItems(i, j, m, a, b))
  <2> DEFINE S == Orders!DownPool(i, m, a) \X Orders!DownPool(j, m, b)
             f == [p \in S |-> Orders!Item(<<"access", i, j, m, a, b>>, "temporal", i, j, p[1], p[2], TRUE)]
             U == Orders!AccessItems(i, j, m, a, b)
  <2>1. DOMAIN f = S
    OBVIOUS
  <2>2. \A y \in U : \E p \in S : y = f[p]
    BY DEF Orders!AccessItems
  <2>3. IsFiniteSet(S)
    BY <1>3
  <2> HIDE DEF S, f, U
  <2>4. IsFiniteSet(U)
    BY <2>1, <2>2, <2>3, FiniteImage
  <2> QED
    BY <2>4 DEF U
<1>5. IsFiniteSet(Orders!FlowItems(i, j, m, a, b))
  <2> DEFINE S == design.down[j][m]
             f == [n \in S |-> Orders!Item(<<"flow", i, j, m, a, b>>, "data", i, j, m, n, Orders!IsLocal(m))]
             U == Orders!FlowItems(i, j, m, a, b)
  <2>1. DOMAIN f = S
    OBVIOUS
  <2>2. \A y \in U : \E p \in S : y = f[p]
    BY DEF Orders!FlowItems
  <2>3. IsFiniteSet(S)
    BY <1>1
  <2> HIDE DEF S, f, U
  <2>4. IsFiniteSet(U)
    BY <2>1, <2>2, <2>3, FiniteImage
  <2> QED
    BY <2>4 DEF U
<1> QED
  BY <1>4, <1>5, FS_Union

(* The orders of two instructions.                                         *)
LEMMA PairItemsFinite ==
  ASSUME Staged, FiniteTables, NEW i \in Instns, NEW j \in Instns
  PROVE  IsFiniteSet(Orders!PairItems(i, j))
<1> DEFINE A == UNION {Orders!StageItems(i, j, t) \cup Orders!InferredItems(i, j, t) : t \in 1 .. Orders!Depth(i, j)}
           M == (DOMAIN design.loc[i]) \cap (DOMAIN design.loc[j])
           G(m) == UNION {Orders!AccessItems(i, j, m, p[1], p[2]) \cup Orders!FlowItems(i, j, m, p[1], p[2]) :
                            p \in design.loc[i][m] \X design.loc[j][m]}
           B == UNION {G(m) : m \in M}
<1>1. IsFiniteSet(A)
  <2> DEFINE S == 1 .. Orders!Depth(i, j)
             f == [t \in S |-> Orders!StageItems(i, j, t) \cup Orders!InferredItems(i, j, t)]
  <2>1. DOMAIN f = S /\ \A x \in S : IsFiniteSet(f[x])
    BY StageItemsFinite
  <2>2. \A y \in A : \E x \in S : y \in f[x]
    OBVIOUS
  <2>3. IsFiniteSet(S)
    <3>1. Orders!Depth(i, j) \in Int
      BY DEF Orders!Depth, Staged
    <3> QED
      BY <3>1, FS_Interval
  <2> HIDE DEF S, f, A
  <2> QED
    BY <2>1, <2>2, <2>3, FiniteCover
<1>2. ASSUME NEW m \in M PROVE IsFiniteSet(G(m))
  <2> DEFINE S == design.loc[i][m] \X design.loc[j][m]
             f == [p \in S |-> Orders!AccessItems(i, j, m, p[1], p[2]) \cup Orders!FlowItems(i, j, m, p[1], p[2])]
             U == G(m)
  <2>1. DOMAIN f = S /\ \A x \in S : IsFiniteSet(f[x])
    BY <1>2, AccessItemsFinite
  <2>2. \A y \in U : \E x \in S : y \in f[x]
    OBVIOUS
  <2>3. IsFiniteSet(S)
    BY <1>2, FS_Product DEF FiniteTables
  <2> HIDE DEF S, f, G, U
  <2>4. IsFiniteSet(U)
    BY <2>1, <2>2, <2>3, FiniteCover
  <2> QED
    BY <2>4 DEF U
<1>3. IsFiniteSet(B)
  <2> DEFINE f == [m \in M |-> G(m)]
  <2>1. DOMAIN f = M /\ \A x \in M : IsFiniteSet(f[x])
    BY <1>2
  <2>2. \A y \in B : \E x \in M : y \in f[x]
    OBVIOUS
  <2>3. IsFiniteSet(M)
    <3>1. M \in SUBSET (DOMAIN design.loc[i]) /\ IsFiniteSet(DOMAIN design.loc[i])
      BY DEF FiniteTables
    <3> QED
      BY <3>1, FS_Subset
  <2> HIDE DEF f, M, G, B
  <2> QED
    BY <2>1, <2>2, <2>3, FiniteCover
<1>4. Orders!PairItems(i, j) \in SUBSET (A \cup B)
  BY DEF Orders!PairItems
<1> HIDE DEF A, B, M, G
<1>5. IsFiniteSet(A \cup B)
  BY <1>1, <1>3, FS_Union
<1> QED
  BY <1>4, <1>5, FS_Subset

(* All orders.                                                             *)
LEMMA ItemsFinite ==
  ASSUME Staged, FiniteTables
  PROVE  IsFiniteSet(Orders!Items)
<1> DEFINE S == Instns \X Instns
           f == [p \in S |-> Orders!PairItems(p[1], p[2])]
<1>1. DOMAIN f = S /\ \A x \in S : IsFiniteSet(f[x])
  BY PairItemsFinite
<1>2. \A y \in Orders!Items : \E x \in S : y \in f[x]
  BY DEF Orders!Items, Orders!Instns, Instns
<1>3. IsFiniteSet(S)
  <2>1. IsFiniteSet(Instns)
    BY FS_Interval DEF Staged
  <2> QED
    BY <2>1, FS_Product
<1> HIDE DEF S, f
<1> QED
  BY <1>1, <1>2, <1>3, FiniteCover

(* The orders of a node.                                                   *)
LEMMA BinsFinite ==
  ASSUME Staged, FiniteTables, DOMAIN res = Orders!Items, NEW n
  PROVE  IsFiniteSet(Temporal(n)) /\ IsFiniteSet(DataDep(n))
<1>1. Temporal(n) \in SUBSET Orders!Items /\ DataDep(n) \in SUBSET Orders!Items
  BY DEF Temporal, DataDep
<1> QED
  BY <1>1, ItemsFinite, FS_Subset

-----------------------------------------------------------------------------
(* Nodes that nothing tells apart.                                         *)

(* Peers is an equivalence.                                                *)
LEMMA PeersEquivalence ==
  ASSUME NEW n, NEW m, NEW k
  PROVE  /\ Peers(n, m) => Peers(m, n)
         /\ Peers(n, m) /\ Peers(m, k) => Peers(n, k)
<1>1. Peers(n, m) => Peers(m, n)
  BY DEF Peers, SameHolders
<1>2. Peers(n, m) /\ Peers(m, k) => Peers(n, k)
  BY DEF Peers, SameHolders
<1> QED
  BY <1>1, <1>2

(* Two nodes of a stage that the same instructions update, both or neither *)
(* a shared array for one of them, are peers.                              *)
LEMMA PeersFrom ==
  ASSUME MemoriesKnown, NEW i \in Instns, NEW t \in DOMAIN design.uhb[i],
         NEW n \in design.uhb[i][t], NEW m \in design.uhb[i][t],
         SameHolders(n, m), SharedArray(i, n) = SharedArray(i, m)
  PROVE  Peers(n, m)
<1> SUFFICES ASSUME NEW j \in Instns, NEW u \in DOMAIN design.uhb[j], n \in design.uhb[j][u]
             PROVE  SharedArray(j, n) = SharedArray(j, m)
  BY DEF Peers
<1>1. m \in design.uhb[j][u]
  BY DEF SameHolders
<1>2. n \in DOMAIN design.loc[i] <=> n \in DOMAIN design.loc[j]
  BY DEF MemoriesKnown
<1>3. m \in DOMAIN design.loc[i] <=> m \in DOMAIN design.loc[j]
  BY <1>1 DEF MemoriesKnown
<1> QED
  BY <1>2, <1>3 DEF SharedArray, IsMem

(* Equal verdicts on the updates of a node, in either direction ...        *)
LEMMA MatchSymmetric ==
  ASSUME Staged, OneStage, DOMAIN res = Orders!Items, NEW n, NEW m, SameHolders(n, m), SpatialMatch(n, m)
  PROVE  SpatialMatch(m, n)
<1>1. Holders(n) = Holders(m)
  BY DEF Holders, SameHolders
<1> SUFFICES ASSUME NEW it \in Spatial(m)
             PROVE  \E it2 \in Spatial(n) : SameInstns(it, it2) /\ res[it] = res[it2]
  BY DEF SpatialMatch
<1>2. PICK p \in Holders(n) \X Holders(n) : p = <<it.i1, it.i2>>
  BY <1>1, SpatialPairs
<1>3. PICK it2 \in Spatial(n) : it2.i1 = it.i1 /\ it2.i2 = it.i2
  BY <1>2, SpatialPairs
<1>4. PICK it3 \in Spatial(m) : SameInstns(it2, it3) /\ res[it2] = res[it3]
  BY DEF SpatialMatch
<1>5. it3 = it
  BY <1>3, <1>4, SpatialUnique DEF SameInstns
<1> QED
  BY <1>3, <1>4, <1>5 DEF SameInstns

(* ... and along a chain.                                                  *)
LEMMA MatchTransitive ==
  ASSUME NEW n, NEW m, NEW k, SpatialMatch(n, m), SpatialMatch(m, k)
  PROVE  SpatialMatch(n, k)
<1> SUFFICES ASSUME NEW it \in Spatial(n)
             PROVE  \E it2 \in Spatial(k) : SameInstns(it, it2) /\ res[it] = res[it2]
  BY DEF SpatialMatch
<1>1. PICK it2 \in Spatial(m) : SameInstns(it, it2) /\ res[it] = res[it2]
  BY DEF SpatialMatch
<1>2. PICK it3 \in Spatial(k) : SameInstns(it2, it3) /\ res[it2] = res[it3]
  BY DEF SpatialMatch
<1> QED
  BY <1>1, <1>2 DEF SameInstns

(* So being alike is an equivalence.                                       *)
LEMMA AlikeEquivalence ==
  ASSUME Staged, OneStage, DOMAIN res = Orders!Items, NEW n, NEW m, NEW k
  PROVE  /\ Alike(n, m) => Alike(m, n)
         /\ Alike(n, m) /\ Alike(m, k) => Alike(n, k)
<1>1. Alike(n, m) => Alike(m, n)
  BY PeersEquivalence, MatchSymmetric DEF Alike, Peers
<1>2. Alike(n, m) /\ Alike(m, k) => Alike(n, k)
  BY PeersEquivalence, MatchTransitive DEF Alike
<1> QED
  BY <1>1, <1>2

(* An order with two nodes exchanged.                                      *)
Other(l, n, m) == IF l = n THEN m ELSE IF l = m THEN n ELSE l
Swapped(it, n, m) ==
  Orders!Item(it.file, it.type, it.i1, it.i2, Other(it.l1, n, m), Other(it.l2, n, m), it.samecore)

(* Two peers in an order of a stage may be exchanged: it is in the bins,   *)
(* and the file that asserts it is the same.                               *)
LEMMA SwappedOrder ==
  ASSUME Staged, DOMAIN res = Orders!Items, NEW n, NEW m, Peers(n, m), NEW it \in DOMAIN res, OfStage(it)
  PROVE  /\ Swapped(it, n, m) \in DOMAIN res /\ OfStage(Swapped(it, n, m))
         /\ Swapped(it, n, m).file = it.file /\ Swapped(it, n, m).type = it.type
         /\ SameInstns(it, Swapped(it, n, m))
         /\ Swapped(it, n, m).l1 = Other(it.l1, n, m) /\ Swapped(it, n, m).l2 = Other(it.l2, n, m)
         /\ Swapped(Swapped(it, n, m), n, m) = it
<1>1. PICK i \in Instns, j \in Instns : \E t \in DOMAIN design.uhb[i] \cap DOMAIN design.uhb[j] :
        \E n1 \in design.uhb[i][t], n2 \in design.uhb[j][t] :
          /\ n1 # n2 /\ ~ SharedMem(i, n1) /\ ~ SharedMem(j, n2)
          /\ it = Orders!Item(<<"pcr", i, j, Orders!StagePcr(t)>>, "temporal", i, j, n1, n2, TRUE)
  BY DEF OfStage
<1>2. PICK t \in (DOMAIN design.uhb[i]) \cap (DOMAIN design.uhb[j]) :
        \E n1 \in design.uhb[i][t], n2 \in design.uhb[j][t] :
          /\ n1 # n2 /\ ~ SharedMem(i, n1) /\ ~ SharedMem(j, n2)
          /\ it = Orders!Item(<<"pcr", i, j, Orders!StagePcr(t)>>, "temporal", i, j, n1, n2, TRUE)
  BY <1>1
<1>3. PICK n1 \in design.uhb[i][t], n2 \in design.uhb[j][t] :
        /\ n1 # n2 /\ ~ SharedMem(i, n1) /\ ~ SharedMem(j, n2)
        /\ it = Orders!Item(<<"pcr", i, j, Orders!StagePcr(t)>>, "temporal", i, j, n1, n2, TRUE)
  BY <1>2
<1>4. /\ it.file = <<"pcr", i, j, Orders!StagePcr(t)>> /\ it.type = "temporal"
      /\ it.i1 = i /\ it.i2 = j /\ it.l1 = n1 /\ it.l2 = n2 /\ it.samecore = TRUE
  BY <1>3 DEF Orders!Item
<1>5. PICK x, y : x = Other(n1, n, m) /\ y = Other(n2, n, m)
  OBVIOUS
<1>6. x # y
  BY <1>3, <1>5 DEF Other
<1>7. x \in design.uhb[i][t] /\ ~ SharedMem(i, x)
  BY <1>3, <1>5 DEF Other, Peers, SameHolders, SharedMem, SharedArray
<1>8. y \in design.uhb[j][t] /\ ~ SharedMem(j, y)
  BY <1>3, <1>5 DEF Other, Peers, SameHolders, SharedMem, SharedArray
<1>9. Swapped(it, n, m) = Orders!Item(<<"pcr", i, j, Orders!StagePcr(t)>>, "temporal", i, j, x, y, TRUE)
  BY <1>4, <1>5 DEF Swapped
<1>10. OfStage(Swapped(it, n, m))
  BY <1>6, <1>7, <1>8, <1>9 DEF OfStage
<1>11. Swapped(it, n, m) \in DOMAIN res
  BY <1>6, <1>7, <1>8, <1>9, StageInItems
<1>12. /\ Swapped(it, n, m).file = it.file /\ Swapped(it, n, m).type = it.type
       /\ Swapped(it, n, m).i1 = i /\ Swapped(it, n, m).i2 = j
       /\ Swapped(it, n, m).l1 = x /\ Swapped(it, n, m).l2 = y /\ Swapped(it, n, m).samecore = TRUE
  BY <1>4, <1>9 DEF Orders!Item
<1>13. Other(x, n, m) = n1 /\ Other(y, n, m) = n2
  BY <1>5 DEF Other
<1>14. Swapped(Swapped(it, n, m), n, m) = it
  <2>1. PICK o : o = Swapped(it, n, m)
    OBVIOUS
  <2>2. Swapped(o, n, m) = Orders!Item(it.file, it.type, i, j, n1, n2, TRUE)
    BY <1>12, <1>13, <2>1 DEF Swapped
  <2> QED
    BY <1>3, <1>4, <2>1, <2>2
<1> QED
  BY <1>4, <1>5, <1>10, <1>11, <1>12, <1>14 DEF SameInstns

(* The orders of a node that observes no access are orders of a stage.     *)
LEMMA PlainOrders ==
  ASSUME Staged, DOMAIN res = Orders!Items, NEW n, ~ Observes(n), NEW it \in Temporal(n)
  PROVE  OfStage(it) /\ it.l1 # it.l2
<1>1. it \in DOMAIN res /\ it.type = "temporal" /\ n \in {it.l1, it.l2}
  BY DEF Temporal
<1>2. OfStage(it)
  BY <1>1, TemporalShape
<1>3. it.l1 # it.l2
  BY <1>2 DEF OfStage, Orders!Item
<1> QED
  BY <1>2, <1>3

(* Exchanging it with a peer, they are orders of the peer.                 *)
LEMMA SwapInjection ==
  ASSUME Staged, DOMAIN res = Orders!Items, NEW n, NEW m, Peers(n, m), ~ Observes(n)
  PROVE  \E f \in Injection(Temporal(n), Temporal(m)) : \A it \in Temporal(n) : f[it].l1 # f[it].l2
<1> DEFINE f == [it \in Temporal(n) |-> Swapped(it, n, m)]
<1>1. ASSUME NEW it \in Temporal(n)
      PROVE  /\ Swapped(it, n, m) \in Temporal(m) /\ Swapped(it, n, m).l1 # Swapped(it, n, m).l2
             /\ Swapped(Swapped(it, n, m), n, m) = it
  <2>1. it \in DOMAIN res /\ it.type = "temporal" /\ n \in {it.l1, it.l2}
    BY <1>1 DEF Temporal
  <2>2. OfStage(it) /\ it.l1 # it.l2
    BY <1>1, PlainOrders
  <2>3. PICK o : o = Swapped(it, n, m)
    OBVIOUS
  <2>4. /\ o \in DOMAIN res /\ o.type = it.type /\ o.l1 = Other(it.l1, n, m) /\ o.l2 = Other(it.l2, n, m)
        /\ Swapped(o, n, m) = it
    BY <2>1, <2>2, <2>3, SwappedOrder
  <2>5. m \in {o.l1, o.l2} /\ o.l1 # o.l2
    BY <2>1, <2>2, <2>4 DEF Other
  <2> QED
    BY <2>1, <2>3, <2>4, <2>5 DEF Temporal
<1>2. f \in [Temporal(n) -> Temporal(m)]
  BY <1>1
<1>3. \A a, b \in Temporal(n) : f[a] = f[b] => a = b
  BY <1>1
<1>4. f \in Injection(Temporal(n), Temporal(m))
  BY <1>2, <1>3 DEF Injection, IsInjective
<1>5. \A it \in Temporal(n) : f[it].l1 # f[it].l2
  BY <1>1
<1> QED
  BY <1>4, <1>5

(* So a peer with as many orders observes no access either.                *)
LEMMA SameCount ==
  ASSUME Staged, FiniteTables, DOMAIN res = Orders!Items, NEW n, NEW m, Peers(n, m), ~ Observes(n),
         Cardinality(Temporal(n)) = Cardinality(Temporal(m))
  PROVE  ~ Observes(m)
<1> SUFFICES ASSUME Observes(m) PROVE FALSE
  OBVIOUS
<1>1. PICK f \in Injection(Temporal(n), Temporal(m)) : \A it \in Temporal(n) : f[it].l1 # f[it].l2
  BY SwapInjection
<1>2. IsFiniteSet(Temporal(m))
  BY BinsFinite
<1>3. f \in Surjection(Temporal(n), Temporal(m))
  BY <1>2, FS_Injection
<1>4. PICK o \in Temporal(m) : o.l1 = m /\ o.l2 = m
  BY SelfOrder
<1> QED
  BY <1>1, <1>3, <1>4 DEF Surjection

(* And two peers that observe none have equally many.                      *)
LEMMA PlainCount ==
  ASSUME Staged, FiniteTables, DOMAIN res = Orders!Items, NEW n, NEW m, Peers(n, m), ~ Observes(n), ~ Observes(m)
  PROVE  Cardinality(Temporal(n)) = Cardinality(Temporal(m))
<1> DEFINE N == Temporal(n)
           M == Temporal(m)
<1>1. IsFiniteSet(N) /\ IsFiniteSet(M)
  BY BinsFinite
<1>2. PICK f \in Injection(N, M) : TRUE
  BY SwapInjection
<1>3. PICK g \in Injection(M, N) : TRUE
  BY SwapInjection, PeersEquivalence
<1> HIDE DEF N, M
<1>4. Cardinality(N) <= Cardinality(M) /\ Cardinality(M) <= Cardinality(N)
  BY <1>1, <1>2, <1>3, FS_Injection
<1>5. Cardinality(N) \in Nat /\ Cardinality(M) \in Nat
  BY <1>1, FS_CardinalityType
<1>6. Cardinality(N) = Cardinality(M)
  BY <1>4, <1>5
<1> QED
  BY <1>6 DEF N, M

-----------------------------------------------------------------------------
(* Merged nodes are alike.                                                 *)

(* The order of a node with itself has no counterpart at another node.     *)
LEMMA SelfNoCounterpart ==
  ASSUME NEW n, NEW m, n # m, NEW it \in Temporal(n), it.l1 = n, it.l2 = n
  PROVE  it \in Compared(Temporal(n), m) /\ Counterparts(it, Temporal(m), n, m) = {}
<1>1. it \in Compared(Temporal(n), m)
  BY DEF Compared
<1>2. \A it2 : ~ (Mutual(it2, m) = Mutual(it, n) /\ Mutual(it2, m) # n)
  BY DEF Mutual
<1> QED
  BY <1>1, <1>2 DEF Counterparts

(* compare_prop merges two nodes, and fails no assertion on them, only if  *)
(* they are alike.                                                         *)
LEMMA MergedAlike ==
  ASSUME Staged, OneStage, MemoriesKnown, FiniteTables, DOMAIN res = Orders!Items,
         NEW i \in Instns, NEW t \in DOMAIN design.uhb[i],
         NEW n \in design.uhb[i][t], NEW m \in design.uhb[i][t], n # m,
         ToMerge(i, n, m), ~ Asserts(i, n, m)
  PROVE  Alike(n, m)
<1>1. SharedArray(i, n) = SharedArray(i, m) /\ SpatialMatch(n, m)
  BY DEF ToMerge, UpToTemporal
<1>2. SameHolders(n, m)
  BY <1>1, MatchHolders
<1>3. Peers(n, m)
  BY <1>1, <1>2, PeersFrom
<1>4. Cardinality(Temporal(n)) = Cardinality(Temporal(m))
  BY DEF ToMerge, DiffMatch
<1>5. ~ NoCounterpart(Temporal(n), Temporal(m), n, m)
  BY DEF ToMerge, Asserts
<1>6. ~ Observes(n)
  <2> SUFFICES ASSUME Observes(n) PROVE FALSE
    OBVIOUS
  <2>1. PICK it \in Temporal(n) : it.l1 = n /\ it.l2 = n
    BY SelfOrder
  <2>2. it \in Compared(Temporal(n), m) /\ Counterparts(it, Temporal(m), n, m) = {}
    BY <2>1, SelfNoCounterpart
  <2> QED
    BY <1>4, <1>5, <2>2 DEF NoCounterpart
<1>7. ~ Observes(m)
  BY <1>3, <1>4, <1>6, SameCount
<1> QED
  BY <1>1, <1>3, <1>6, <1>7 DEF Alike

(* Alike nodes stay so.                                                    *)
LEMMA AlikeFrame ==
  ASSUME UNCHANGED <<design, res>>, NEW n, NEW m
  PROVE  Alike(n, m)' <=> Alike(n, m)
<1>1. (Spatial(n)' = Spatial(n)) /\ (Spatial(m)' = Spatial(m))
  BY DEF Spatial
<1>2. SpatialMatch(n, m)' <=> SpatialMatch(n, m)
  BY <1>1 DEF SpatialMatch
<1>3. Peers(n, m)' <=> Peers(n, m)
  BY DEF Peers, SameHolders, SharedArray, IsLocal, IsMem, Instns
<1>4. (Observes(n)' <=> Observes(n)) /\ (Observes(m)' <=> Observes(m))
  BY DEF Observes, DownPool, IsLocal, Instns
<1> QED
  BY <1>2, <1>3, <1>4 DEF Alike

(* The invariant: the nodes of a set are alike.                            *)
Like(n, m) == n = m \/ Alike(n, m)
ClassInv ==
  \A i \in Instns : \A t \in DOMAIN design.uhb[i] : \A n1, n2 \in design.uhb[i][t] :
    sets[i][t][n1] = sets[i][t][n2] => Like(n1, n2)

(* Being one or alike is an equivalence.                                   *)
LEMMA LikeEquivalence ==
  ASSUME Staged, OneStage, DOMAIN res = Orders!Items, NEW n, NEW m, NEW k
  PROVE  /\ Like(n, m) => Like(m, n)
         /\ Like(n, m) /\ Like(m, k) => Like(n, k)
BY AlikeEquivalence DEF Like

(* A merge keeps the invariant.                                            *)
LEMMA ClassMerge ==
  ASSUME MergeInv, ClassInv, TryMerge
  PROVE  ClassInv'
<1>1. /\ phase = "pairs" /\ PairsLeft /\ ~ (Apart /\ Asserts(idx, S1, S2))
      /\ sets' = IF Apart /\ ToMerge(idx, S1, S2) THEN Merged(S1, S2) ELSE sets
      /\ UNCHANGED <<design, res>>
  BY DEF TryMerge
<1>2. BaseInv /\ SetsInv /\ Staged /\ OneStage /\ MemoriesKnown /\ FiniteTables
  BY DesignGood, DesignFinite DEF MergeInv
<1>3. PairsOK /\ idx \in Instns /\ dep \in DOMAIN design.uhb[idx] /\ DOMAIN res = Orders!Items
  BY <1>1, <1>2 DEF BaseInv, PairsOK
<1>4. PICK s1, s2 : s1 = S1 /\ s2 = S2
  OBVIOUS
<1>5. s1 \in design.uhb[idx][dep] /\ s2 \in design.uhb[idx][dep]
  BY <1>1, <1>2, <1>3, <1>4, PairNodes
<1>6. \A n, m : Like(n, m)' <=> Like(n, m)
  BY <1>1, AlikeFrame DEF Like
<1>7. CASE ~ (Apart /\ ToMerge(idx, S1, S2))
  <2>1. sets' = sets
    BY <1>1, <1>7
  <2> QED
    BY <1>1, <1>6, <2>1 DEF ClassInv, Instns
<1>8. CASE Apart /\ ToMerge(idx, S1, S2)
  <2>1. sets' = Merged(s1, s2) /\ ToMerge(idx, s1, s2) /\ sets[idx][dep][s1] # sets[idx][dep][s2]
    BY <1>1, <1>4, <1>8 DEF Apart
  <2>2. ~ Asserts(idx, s1, s2)
    BY <1>1, <1>4, <1>8
  <2>3. Like(s1, s2)
    BY <1>2, <1>3, <1>5, <2>1, <2>2, MergedAlike DEF Like
  <2>4. ASSUME NEW i \in Instns, NEW t \in DOMAIN design.uhb[i], NEW n1 \in design.uhb[i][t], NEW n2 \in design.uhb[i][t],
               sets'[i][t][n1] = sets'[i][t][n2]
        PROVE  Like(n1, n2)
    <3>1. PICK r : r = sets[i][t]
      OBVIOUS
    <3>2. \A n \in design.uhb[i][t] :
            sets'[i][t][n] = IF /\ t = dep /\ {s1, s2} \subseteq design.uhb[i][t]
                                /\ r[n] = r[s2]
                             THEN r[s1] ELSE r[n]
      BY <1>2, <2>1, <2>4, <3>1, MergedRoots
    <3>3. \A x, y \in design.uhb[i][t] : r[x] = r[y] => Like(x, y)
      BY <2>4, <3>1 DEF ClassInv
    <3>4. CASE ~ (t = dep /\ {s1, s2} \subseteq design.uhb[i][t])
      BY <2>4, <3>2, <3>3, <3>4
    <3>5. CASE t = dep /\ {s1, s2} \subseteq design.uhb[i][t]
      <4>1. \A n \in design.uhb[i][t] : sets'[i][t][n] = IF r[n] = r[s2] THEN r[s1] ELSE r[n]
        BY <3>2, <3>5
      <4>2. s1 \in design.uhb[i][t] /\ s2 \in design.uhb[i][t]
        BY <3>5
      <4>3. CASE (r[n1] = r[s2] <=> r[n2] = r[s2])
        BY <2>4, <3>3, <4>1, <4>3
      <4>4. CASE r[n1] = r[s2] /\ r[n2] # r[s2]
        <5>1. r[n2] = r[s1]
          BY <2>4, <4>1, <4>4
        <5>2. Like(n1, s2) /\ Like(n2, s1)
          BY <2>4, <3>3, <4>2, <4>4, <5>1
        <5> QED
          BY <1>2, <1>3, <2>3, <5>2, LikeEquivalence
      <4>5. CASE r[n2] = r[s2] /\ r[n1] # r[s2]
        <5>1. r[n1] = r[s1]
          BY <2>4, <4>1, <4>5
        <5>2. Like(n2, s2) /\ Like(n1, s1)
          BY <2>4, <3>3, <4>2, <4>5, <5>1
        <5> QED
          BY <1>2, <1>3, <2>3, <5>2, LikeEquivalence
      <4> QED
        BY <4>3, <4>4, <4>5
    <3> QED
      BY <3>4, <3>5
  <2> QED
    BY <1>1, <1>6, <2>4 DEF ClassInv, Instns
<1> QED
  BY <1>7, <1>8

(* No other step changes the sets.                                         *)
LEMMA ClassStep == MergeInv /\ ClassInv /\ [Next]_gvars => ClassInv'
<1> SUFFICES ASSUME MergeInv, ClassInv, [Next]_gvars PROVE ClassInv'
  OBVIOUS
<1>1. ASSUME UNCHANGED <<design, res, sets>> PROVE ClassInv'
  <2>1. \A n, m : Like(n, m)' <=> Like(n, m)
    BY <1>1, AlikeFrame DEF Like
  <2> QED
    BY <1>1, <2>1 DEF ClassInv, Instns
<1>2. CASE TryMerge
  BY <1>2, ClassMerge
<1>3. CASE Stage \/ MergeAbort \/ EndStage \/ NextInstn
  BY <1>1, <1>3 DEF Stage, MergeAbort, EndStage, NextInstn
<1>4. CASE DumpStage \/ DumpIntra \/ Header
  BY <1>1, <1>4 DEF DumpStage, DumpIntra, Header
<1>5. CASE UNCHANGED gvars
  BY <1>1, <1>5 DEF gvars, mvars
<1> QED
  BY <1>2, <1>3, <1>4, <1>5 DEF Next, Merge, MergeNext

(* At first every node is alone.                                           *)
LEMMA ClassInitInv == Init => ClassInv
<1> SUFFICES ASSUME Init PROVE ClassInv
  OBVIOUS
<1>1. sets = [i \in Instns |-> [t \in DOMAIN design.uhb[i] |-> [n \in design.uhb[i][t] |-> n]]]
  BY DEF Init, MergeInit
<1> QED
  BY <1>1 DEF ClassInv, Like

(* The nodes of a set are alike.                                           *)
LEMMA ClassInvariant == Spec => []ClassInv
BY ClassInitInv, ClassStep, MergeInvariant, PTL DEF Spec

(* The verdict of an order of a stage is that of its file: no chain of     *)
(* protocol files is folded for it.                                        *)
PcrInv == \A o1, o2 \in DOMAIN res : o1.file = o2.file /\ o1.file[1] = "pcr" => res[o1] = res[o2]

(* Whatever the verdict files say, parse_result reads them so.             *)
LEMMA PcrReading ==
  ASSUME NEW r \in Readings, NEW o1 \in DOMAIN r, NEW o2 \in DOMAIN r, o1.file = o2.file, o1.file[1] = "pcr"
  PROVE  r[o1] = r[o2]
<1>1. PICK files \in FewFiles : r \in {Reading(g, fault) : g \in Garbage, fault \in FaultsOf(files)}
  BY DEF Readings
<1>2. PICK g \in Garbage, fault \in FaultsOf(files) : r = Reading(g, fault)
  BY <1>1
<1>3. o1 \in Orders!Items /\ o2 \in Orders!Items
  BY <1>2 DEF Reading
<1>4. ~ Orders!Inferred(o1) /\ ~ Orders!Inferred(o2)
  BY DEF Orders!Inferred
<1>5. ASSUME o1.file \in DOMAIN fault PROVE fault[o1.file].folded = {}
  <2>1. fault \in [files -> UNION {Faults(f) : f \in files}] /\ \A f \in files : fault[f] \in Faults(f)
    BY DEF FaultsOf
  <2>2. fault[o1.file] \in Faults(o1.file)
    BY <1>5, <2>1
  <2>3. fault[o1.file] \in [last : CheckerVerdicts, folded : {{}}]
    BY <2>2 DEF Faults
  <2> QED
    BY <2>3
<1>6. /\ r[o1] = IF o1.file \notin DOMAIN fault THEN "proven"
                 ELSE IF o1 \in fault[o1.file].folded THEN "na" ELSE fault[o1.file].last
      /\ r[o2] = IF o2.file \notin DOMAIN fault THEN "proven"
                 ELSE IF o2 \in fault[o2.file].folded THEN "na" ELSE fault[o2.file].last
  BY <1>2, <1>3, <1>4 DEF Reading
<1> QED
  BY <1>5, <1>6

(* The verdicts do not change.                                             *)
LEMMA PcrInvariant == Spec => []PcrInv
<1>1. Init => PcrInv
  BY PcrReading DEF Init, MergeInit, PcrInv
<1>2. PcrInv /\ [Next]_gvars => PcrInv'
  <2> SUFFICES ASSUME PcrInv, [Next]_gvars PROVE PcrInv'
    OBVIOUS
  <2>1. res' = res
    BY DEF Next, Merge, MergeNext, Stage, TryMerge, MergeAbort, EndStage, NextInstn,
       DumpStage, DumpIntra, Header, gvars, mvars
  <2> QED
    BY <2>1 DEF PcrInv
<1> QED
  BY <1>1, <1>2, PTL DEF Spec

(* An order of a stage and the one with two peers exchanged have one       *)
(* verdict.                                                                *)
LEMMA SwappedVerdict ==
  ASSUME Staged, DOMAIN res = Orders!Items, PcrInv, NEW n, NEW m, Peers(n, m), NEW it \in DOMAIN res, OfStage(it)
  PROVE  res[Swapped(it, n, m)] = res[it]
<1>1. it.file[1] = "pcr"
  BY DEF OfStage, Orders!Item
<1>2. PICK o : o = Swapped(it, n, m)
  OBVIOUS
<1>3. o \in DOMAIN res /\ o.file = it.file
  BY <1>2, SwappedOrder
<1>4. res[o] = res[it]
  BY <1>1, <1>3 DEF PcrInv
<1> QED
  BY <1>2, <1>4

(* An order of one element is of it twice.                                 *)
LEMMA SpatialEnds ==
  ASSUME Staged, DOMAIN res = Orders!Items, NEW it \in DOMAIN res, it.type = "spatial"
  PROVE  it \in Spatial(it.l1) /\ it.l2 = it.l1
<1>1. PICK n : n = it.l1
  OBVIOUS
<1>2. it \in Spatial(n)
  BY <1>1 DEF Spatial
<1>3. \E i, j \in Instns : \E t \in DOMAIN design.uhb[i] \cap DOMAIN design.uhb[j] : it = SpatialItem(i, j, t, n)
  BY <1>2, SpatialShape
<1> QED
  BY <1>1, <1>2, <1>3, SpatialFields

(* What Profile says of one order.                                         *)
Entry(it, n) ==
  <<it.type, it.i1, it.i2, it.l1 = n, IF it.type = "spatial" THEN "" ELSE Mutual(it, n), res[it]>>

(* The verdicts of a node are those of one that is alike.                  *)
LEMMA AlikeProfiles ==
  ASSUME Staged, DOMAIN res = Orders!Items, PcrInv, NEW n, NEW m, n # m, Alike(n, m),
         NEW it \in DOMAIN res, it.type \in {"spatial", "temporal"}, n \in {it.l1, it.l2}, m \notin {it.l1, it.l2}
  PROVE  \E o \in DOMAIN res : /\ o.type = it.type /\ m \in {o.l1, o.l2} /\ n \notin {o.l1, o.l2}
                               /\ Entry(it, n) = Entry(o, m)
<1>1. CASE it.type = "spatial"
  <2>1. it \in Spatial(n) /\ it.l1 = n
    BY <1>1, SpatialEnds
  <2>2. PICK o \in Spatial(m) : SameInstns(it, o) /\ res[it] = res[o]
    BY <2>1 DEF Alike, SpatialMatch
  <2>3. o \in DOMAIN res /\ o.type = "spatial" /\ o.l1 = m
    BY <2>2 DEF Spatial
  <2>4. o.l2 = m
    BY <2>3, SpatialEnds
  <2>5. Entry(it, n) = Entry(o, m)
    BY <1>1, <2>1, <2>2, <2>3 DEF Entry, SameInstns
  <2> QED
    BY <1>1, <2>3, <2>4, <2>5
<1>2. CASE it.type = "temporal"
  <2>1. it \in Temporal(n)
    BY <1>2 DEF Temporal
  <2>2. OfStage(it) /\ it.l1 # it.l2
    BY <2>1, PlainOrders DEF Alike
  <2>3. PICK o : o = Swapped(it, n, m)
    OBVIOUS
  <2>4. /\ o \in DOMAIN res /\ o.type = it.type /\ SameInstns(it, o)
        /\ o.l1 = Other(it.l1, n, m) /\ o.l2 = Other(it.l2, n, m)
    BY <2>2, <2>3, SwappedOrder DEF Alike
  <2>5. res[o] = res[it]
    BY <2>2, <2>3, SwappedVerdict DEF Alike
  <2>6. /\ m \in {o.l1, o.l2} /\ n \notin {o.l1, o.l2}
        /\ Mutual(it, n) = Mutual(o, m) /\ (it.l1 = n) = (o.l1 = m)
    BY <2>2, <2>4 DEF Other, Mutual
  <2>7. Entry(it, n) = Entry(o, m)
    BY <1>2, <2>4, <2>5, <2>6 DEF Entry, SameInstns
  <2> QED
    BY <2>4, <2>6, <2>7
<1> QED
  BY <1>1, <1>2

(* Two nodes that have become one have the same verdicts on all their      *)
(* orders with the rest of the processor, although compare_prop merges     *)
(* pair by pair and never compares two nodes that meet through a third,    *)
(* and although it looks up an order without regard for which end of it    *)
(* the node is.  This holds for every design, every reading and every      *)
(* order of the pools.                                                     *)
THEOREM MergedAgree == Spec => []MergedNodesAgree
<1>1. MergeInv /\ ClassInv /\ PcrInv => MergedNodesAgree
  <2> SUFFICES ASSUME MergeInv, ClassInv, PcrInv, NEW i \in Instns, NEW t \in DOMAIN sets[i],
                      NEW n1 \in DOMAIN sets[i][t], NEW n2 \in DOMAIN sets[i][t], sets[i][t][n1] = sets[i][t][n2]
               PROVE  AlikeIn(n1, n2, {"spatial", "temporal"})
    BY DEF MergedNodesAgree
  <2>1. Staged /\ OneStage /\ DOMAIN res = Orders!Items /\ SetsInv
    BY DesignGood DEF MergeInv, BaseInv
  <2>2. t \in DOMAIN design.uhb[i] /\ n1 \in design.uhb[i][t] /\ n2 \in design.uhb[i][t]
    BY <2>1 DEF SetsInv
  <2>3. Like(n1, n2)
    BY <2>2 DEF ClassInv
  <2>4. \A a, b : a # b /\ Alike(a, b) =>
          Profile(a, b, {"spatial", "temporal"}) \subseteq Profile(b, a, {"spatial", "temporal"})
    <3> SUFFICES ASSUME NEW a, NEW b, a # b, Alike(a, b), NEW e \in Profile(a, b, {"spatial", "temporal"})
                 PROVE  e \in Profile(b, a, {"spatial", "temporal"})
      OBVIOUS
    <3>1. PICK it \in DOMAIN res : /\ it.type \in {"spatial", "temporal"} /\ a \in {it.l1, it.l2} /\ b \notin {it.l1, it.l2}
                                   /\ e = Entry(it, a)
      BY DEF Profile, Entry
    <3>2. PICK o \in DOMAIN res : /\ o.type = it.type /\ b \in {o.l1, o.l2} /\ a \notin {o.l1, o.l2}
                                  /\ Entry(it, a) = Entry(o, b)
      BY <2>1, <3>1, AlikeProfiles
    <3> QED
      BY <3>1, <3>2 DEF Profile, Entry
  <2>5. n1 = n2 \/ (n1 # n2 /\ Alike(n1, n2) /\ Alike(n2, n1))
    BY <2>1, <2>3, AlikeEquivalence DEF Like
  <2> DEFINE P == Profile(n1, n2, {"spatial", "temporal"})
             Q == Profile(n2, n1, {"spatial", "temporal"})
  <2>6. n1 # n2 => P \subseteq Q
    BY <2>4, <2>5
  <2>7. n1 # n2 => Q \subseteq P
    BY <2>4, <2>5
  <2>8. n1 = n2 => P = Q
    OBVIOUS
  <2> HIDE DEF P, Q
  <2>9. P = Q
    BY <2>6, <2>7, <2>8
  <2> QED
    BY <2>9 DEF AlikeIn, P, Q
<1> QED
  BY <1>1, MergeInvariant, ClassInvariant, PcrInvariant, PTL

-----------------------------------------------------------------------------
(* Alike nodes are merged.                                                 *)

(* The stage, and so the file, of an order of a stage is that of the node. *)
LEMMA OneFile ==
  ASSUME OneStage, NEW o1, NEW o2, OfStage(o1), OfStage(o2), SameInstns(o1, o2),
         NEW n, NEW m, SameHolders(n, m), n \in {o1.l1, o1.l2}, m \in {o2.l1, o2.l2}
  PROVE  o1.file = o2.file /\ o1.file[1] = "pcr"
<1>1. PICK i \in Instns, j \in Instns : \E t \in DOMAIN design.uhb[i] \cap DOMAIN design.uhb[j] :
        \E n1 \in design.uhb[i][t], n2 \in design.uhb[j][t] :
          o1 = Orders!Item(<<"pcr", i, j, Orders!StagePcr(t)>>, "temporal", i, j, n1, n2, TRUE)
  BY DEF OfStage
<1>2. PICK t \in (DOMAIN design.uhb[i]) \cap (DOMAIN design.uhb[j]) :
        \E n1 \in design.uhb[i][t], n2 \in design.uhb[j][t] :
          o1 = Orders!Item(<<"pcr", i, j, Orders!StagePcr(t)>>, "temporal", i, j, n1, n2, TRUE)
  BY <1>1
<1>3. /\ o1.file = <<"pcr", i, j, Orders!StagePcr(t)>> /\ o1.i1 = i /\ o1.i2 = j
      /\ o1.l1 \in design.uhb[i][t] /\ o1.l2 \in design.uhb[j][t]
  BY <1>2 DEF Orders!Item
<1>4. PICK k \in Instns, l \in Instns : \E t2 \in DOMAIN design.uhb[k] \cap DOMAIN design.uhb[l] :
        \E n1 \in design.uhb[k][t2], n2 \in design.uhb[l][t2] :
          o2 = Orders!Item(<<"pcr", k, l, Orders!StagePcr(t2)>>, "temporal", k, l, n1, n2, TRUE)
  BY DEF OfStage
<1>5. PICK u \in (DOMAIN design.uhb[k]) \cap (DOMAIN design.uhb[l]) :
        \E n1 \in design.uhb[k][u], n2 \in design.uhb[l][u] :
          o2 = Orders!Item(<<"pcr", k, l, Orders!StagePcr(u)>>, "temporal", k, l, n1, n2, TRUE)
  BY <1>4
<1>6. /\ o2.file = <<"pcr", k, l, Orders!StagePcr(u)>> /\ o2.i1 = k /\ o2.i2 = l
      /\ o2.l1 \in design.uhb[k][u] /\ o2.l2 \in design.uhb[l][u]
  BY <1>5 DEF Orders!Item
<1>7. k = i /\ l = j
  BY <1>3, <1>6 DEF SameInstns
<1>8. n \in design.uhb[i][t] \/ n \in design.uhb[j][t]
  BY <1>3
<1>9. m \in design.uhb[i][t] \/ m \in design.uhb[j][t]
  BY <1>8 DEF SameHolders
<1>10. m \in design.uhb[i][u] \/ m \in design.uhb[j][u]
  BY <1>6, <1>7
<1>11. t = u
  BY <1>2, <1>5, <1>7, <1>9, <1>10 DEF OneStage
<1> QED
  BY <1>3, <1>6, <1>7, <1>11

(* compare_diff finds the orders of stages of two alike nodes to match.    *)
LEMMA AlikeTemporal ==
  ASSUME Staged, OneStage, FiniteTables, DOMAIN res = Orders!Items, PcrInv, NEW n, NEW m, Alike(n, m)
  PROVE  DiffMatch(Temporal(n), Temporal(m), n, m)
<1>1. Cardinality(Temporal(n)) = Cardinality(Temporal(m))
  BY PlainCount DEF Alike
<1>2. ASSUME NEW it \in Temporal(n), NEW it2 \in Temporal(m), SameInstns(it, it2)
      PROVE  res[it2] = res[it]
  <2>1. OfStage(it) /\ OfStage(it2)
    BY <1>2, PlainOrders DEF Alike
  <2>2. n \in {it.l1, it.l2} /\ m \in {it2.l1, it2.l2} /\ it \in DOMAIN res /\ it2 \in DOMAIN res
    BY <1>2 DEF Temporal
  <2>3. it.file = it2.file /\ it.file[1] = "pcr"
    BY <1>2, <2>1, <2>2, OneFile DEF Alike, Peers
  <2> QED
    BY <2>2, <2>3 DEF PcrInv
<1>3. \A it \in Compared(Temporal(n), m) : it \in Temporal(n)
  BY DEF Compared
<1>4. \A it : \A it2 \in Counterparts(it, Temporal(m), n, m) : it2 \in Temporal(m) /\ SameInstns(it, it2)
  BY DEF Counterparts
<1> QED
  BY <1>1, <1>2, <1>3, <1>4 DEF DiffMatch

(* The data flows of a node that observes no access are all through a      *)
(* local array.                                                            *)
LEMMA LocalFlows ==
  ASSUME Staged, DOMAIN res = Orders!Items, NEW n, ~ Observes(n), DataDep(n) # {}
  PROVE  LocalDataDep(n)
<1>1. PICK it \in DataDep(n) : TRUE
  OBVIOUS
<1>2. it \in DOMAIN res /\ it.type = "data" /\ n \in {it.l1, it.l2}
  BY DEF DataDep
<1>3. it.samecore
  BY <1>2, DataShape
<1> QED
  BY <1>1, <1>3 DEF LocalDataDep

(* So two alike nodes are merged if both or neither have a data flow.      *)
LEMMA AlikeMerge ==
  ASSUME Staged, OneStage, FiniteTables, DOMAIN res = Orders!Items, PcrInv, NEW n, NEW m, Alike(n, m),
         NEW i, SharedArray(i, n) = SharedArray(i, m), DataDep(n) = {} => DataDep(m) = {}
  PROVE  ToMerge(i, n, m)
<1>1. UpToTemporal(i, n, m) /\ DiffMatch(Temporal(n), Temporal(m), n, m)
  BY AlikeTemporal DEF UpToTemporal, Alike
<1>2. LocalDataDep(n) \/ DiffMatch(DataDep(n), DataDep(m), n, m)
  <2>1. CASE DataDep(n) # {}
    BY <2>1, LocalFlows DEF Alike
  <2>2. CASE DataDep(n) = {}
    <3>1. DataDep(m) = {}
      BY <2>2
    <3>2. Compared(DataDep(n), m) = {}
      BY <2>2 DEF Compared
    <3> QED
      BY <2>2, <3>1, <3>2 DEF DiffMatch
  <2> QED
    BY <2>1, <2>2
<1> QED
  BY <1>1, <1>2 DEF ToMerge

(* An order of n that Profile compares, and one of m with the same entry.  *)
LEMMA ProfileEntry ==
  ASSUME NEW n, NEW m, NEW types, Profile(n, m, types) = Profile(m, n, types),
         NEW it \in DOMAIN res, it.type \in types, n \in {it.l1, it.l2}, m \notin {it.l1, it.l2}
  PROVE  \E o \in DOMAIN res : /\ o.type = it.type /\ SameInstns(it, o) /\ m \in {o.l1, o.l2} /\ n \notin {o.l1, o.l2}
                               /\ it.type # "spatial" => Mutual(it, n) = Mutual(o, m)
                               /\ res[it] = res[o]
<1>1. Entry(it, n) \in Profile(n, m, types)
  BY DEF Profile, Entry
<1>2. PICK o \in DOMAIN res : o.type \in types /\ m \in {o.l1, o.l2} /\ n \notin {o.l1, o.l2} /\ Entry(it, n) = Entry(o, m)
  BY <1>1 DEF Profile, Entry
<1>3. /\ Entry(it, n)[1] = it.type /\ Entry(it, n)[2] = it.i1 /\ Entry(it, n)[3] = it.i2 /\ Entry(it, n)[6] = res[it]
      /\ it.type # "spatial" => Entry(it, n)[5] = Mutual(it, n)
  BY DEF Entry
<1>4. /\ Entry(o, m)[1] = o.type /\ Entry(o, m)[2] = o.i1 /\ Entry(o, m)[3] = o.i2 /\ Entry(o, m)[6] = res[o]
      /\ o.type # "spatial" => Entry(o, m)[5] = Mutual(o, m)
  BY DEF Entry
<1> QED
  BY <1>2, <1>3, <1>4 DEF SameInstns

AllTypes == {"spatial", "temporal", "data"}

(* Two nodes with the same verdicts on all their orders pass               *)
(* compare_spatial.                                                        *)
LEMMA ProfileSpatial ==
  ASSUME Staged, OneStage, DOMAIN res = Orders!Items, NEW n, NEW m, n # m,
         Profile(n, m, AllTypes) = Profile(m, n, AllTypes)
  PROVE  SpatialMatch(n, m)
<1>1. ASSUME NEW a, NEW b, a # b, Profile(a, b, AllTypes) = Profile(b, a, AllTypes), NEW it \in Spatial(a)
      PROVE  \E o \in Spatial(b) : SameInstns(it, o) /\ res[it] = res[o]
  <2>1. it \in DOMAIN res /\ it.type = "spatial" /\ it.l1 = a
    BY <1>1 DEF Spatial
  <2>2. it.l2 = a
    BY <2>1, SpatialEnds
  <2>3. it.type \in AllTypes
    BY <2>1 DEF AllTypes
  <2>4. PICK o \in DOMAIN res : o.type = it.type /\ SameInstns(it, o) /\ b \in {o.l1, o.l2} /\ res[it] = res[o]
    BY <1>1, <2>1, <2>2, <2>3, ProfileEntry
  <2>5. o \in Spatial(b)
    BY <2>1, <2>4, SpatialEnds DEF Spatial
  <2> QED
    BY <2>4, <2>5
<1>2. ASSUME NEW a, NEW b, a # b, Profile(a, b, AllTypes) = Profile(b, a, AllTypes), NEW j \in Holders(a)
      PROVE  j \in Holders(b)
  <2>1. \A p \in Holders(a) \X Holders(a) : \E it \in Spatial(a) : it.i1 = p[1] /\ it.i2 = p[2]
    BY SpatialPairs
  <2>2. PICK it \in Spatial(a) : it.i1 = j /\ it.i2 = j
    <3>1. <<j, j>> \in Holders(a) \X Holders(a) /\ <<j, j>>[1] = j /\ <<j, j>>[2] = j
      BY <1>2
    <3>2. \E it \in Spatial(a) : it.i1 = <<j, j>>[1] /\ it.i2 = <<j, j>>[2]
      BY ONLY <2>1, <3>1
    <3> QED
      BY <3>1, <3>2
  <2>3. PICK o \in Spatial(b) : SameInstns(it, o)
    BY <1>1, <1>2
  <2>4. <<o.i1, o.i2>> \in Holders(b) \X Holders(b)
    BY SpatialPairs
  <2> QED
    BY <2>2, <2>3, <2>4 DEF SameInstns
<1>3. Holders(n) = Holders(m)
  <2>1. \A j \in Holders(n) : j \in Holders(m)
    BY <1>2
  <2>2. \A j \in Holders(m) : j \in Holders(n)
    BY <1>2
  <2> QED
    BY <2>1, <2>2
<1>4. Cardinality(Spatial(n)) = Cardinality(Spatial(m))
  BY <1>3, SpatialPairs
<1> QED
  BY <1>1, <1>4 DEF SpatialMatch

(* Neither observes an access: its order with itself would be one the      *)
(* other cannot have.                                                      *)
LEMMA ProfilePlain ==
  ASSUME DOMAIN res = Orders!Items, NEW n, NEW m, n # m, Profile(n, m, AllTypes) = Profile(m, n, AllTypes)
  PROVE  ~ Observes(n)
<1> SUFFICES ASSUME Observes(n) PROVE FALSE
  OBVIOUS
<1>1. PICK it \in Temporal(n) : it.l1 = n /\ it.l2 = n
  BY SelfOrder
<1>2. it \in DOMAIN res /\ it.type = "temporal"
  BY DEF Temporal
<1>3. it.type \in AllTypes
  BY <1>2 DEF AllTypes
<1>4. PICK o \in DOMAIN res : m \in {o.l1, o.l2} /\ n \notin {o.l1, o.l2} /\ Mutual(it, n) = Mutual(o, m)
  BY <1>1, <1>2, <1>3, ProfileEntry
<1> QED
  BY <1>1, <1>4 DEF Mutual

(* Both or neither have a data flow.                                       *)
LEMMA ProfileData ==
  ASSUME NEW n, NEW m, Profile(n, m, AllTypes) = Profile(m, n, AllTypes), DataDep(n) = {}
  PROVE  DataDep(m) = {}
<1> SUFFICES ASSUME NEW it \in DataDep(m) PROVE FALSE
  OBVIOUS
<1>1. it \in DOMAIN res /\ it.type = "data" /\ m \in {it.l1, it.l2}
  BY DEF DataDep
<1>2. n \notin {it.l1, it.l2}
  BY <1>1 DEF DataDep
<1>3. it.type \in AllTypes
  BY <1>1 DEF AllTypes
<1>4. PICK o \in DOMAIN res : o.type = it.type /\ n \in {o.l1, o.l2}
  BY <1>1, <1>2, <1>3, ProfileEntry
<1> QED
  BY <1>1, <1>4 DEF DataDep

(* compare_prop asserts on two nodes of a stage only if both observe an    *)
(* access, and the same instructions update them.                          *)
LEMMA AssertsObserved ==
  ASSUME Staged, OneStage, MemoriesKnown, FiniteTables, DOMAIN res = Orders!Items,
         NEW i \in Instns, NEW t \in DOMAIN design.uhb[i],
         NEW n \in design.uhb[i][t], NEW m \in design.uhb[i][t], n # m, Asserts(i, n, m)
  PROVE  /\ SameHolders(n, m) /\ SharedArray(i, n) = SharedArray(i, m)
         /\ Observes(n) /\ Observes(m)
<1>1. SharedArray(i, n) = SharedArray(i, m) /\ SpatialMatch(n, m)
  BY DEF Asserts, UpToData, UpToTemporal
<1>2. SameHolders(n, m)
  BY <1>1, MatchHolders
<1>3. Peers(n, m) /\ Peers(m, n)
  BY <1>1, <1>2, PeersFrom, PeersEquivalence
<1>4. Cardinality(Temporal(n)) = Cardinality(Temporal(m))
  BY DEF Asserts, UpToData, NoCounterpart, DiffMatch
<1>5. Observes(n)
  <2> SUFFICES ASSUME ~ Observes(n) PROVE FALSE
    OBVIOUS
  <2>1. CASE NoCounterpart(Temporal(n), Temporal(m), n, m)
    <3>1. PICK it \in Compared(Temporal(n), m) : Counterparts(it, Temporal(m), n, m) = {}
      BY <2>1 DEF NoCounterpart
    <3>2. it \in Temporal(n) /\ m \notin {it.l1, it.l2} /\ it \in DOMAIN res /\ it.type = "temporal" /\ n \in {it.l1, it.l2}
      BY DEF Compared, Temporal
    <3>3. OfStage(it) /\ it.l1 # it.l2
      BY <3>2, PlainOrders
    <3>4. PICK o : o = Swapped(it, n, m)
      OBVIOUS
    <3>5. /\ o \in DOMAIN res /\ o.type = it.type /\ SameInstns(it, o)
          /\ o.l1 = Other(it.l1, n, m) /\ o.l2 = Other(it.l2, n, m)
      BY <1>3, <3>2, <3>3, <3>4, SwappedOrder
    <3>6. m \in {o.l1, o.l2} /\ Mutual(o, m) = Mutual(it, n) /\ Mutual(o, m) # n
      BY <3>2, <3>3, <3>5 DEF Other, Mutual
    <3>7. o \in Temporal(m)
      BY <3>2, <3>5, <3>6 DEF Temporal
    <3>8. o \in Counterparts(it, Temporal(m), n, m)
      BY <3>5, <3>6, <3>7 DEF Counterparts
    <3> QED
      BY <3>1, <3>8
  <2>2. CASE ~ LocalDataDep(n) /\ NoCounterpart(DataDep(n), DataDep(m), n, m)
    <3>1. DataDep(n) # {}
      BY <2>2 DEF NoCounterpart, Compared
    <3> QED
      BY <2>2, <3>1, LocalFlows
  <2> QED
    BY <2>1, <2>2 DEF Asserts, UpToData
<1>6. Observes(m)
  BY <1>3, <1>4, <1>5, SameCount
<1> QED
  BY <1>1, <1>2, <1>5, <1>6

(* At most one of the nodes of a stage that the same instructions update,  *)
(* of the shared arrays and of the others, observes an access.             *)
OnePlace ==
  \A i \in Instns : \A t \in DOMAIN design.uhb[i] : \A n1, n2 \in design.uhb[i][t] :
    /\ SameHolders(n1, n2) /\ SharedArray(i, n1) = SharedArray(i, n2)
    /\ Observes(n1) /\ Observes(n2)
    => n1 = n2

(* Then compare_prop fails no assertion.                                   *)
LEMMA NoAbort == MergeInv /\ (OnePlace => NeverStops) /\ [Next]_gvars => (OnePlace => NeverStops)'
<1> SUFFICES ASSUME MergeInv, OnePlace => NeverStops, [Next]_gvars, OnePlace' PROVE NeverStops'
  OBVIOUS
<1>1. UNCHANGED design
  BY DEF Next, Merge, MergeNext, Stage, TryMerge, MergeAbort, EndStage, NextInstn,
     DumpStage, DumpIntra, Header, gvars, mvars
<1>2. OnePlace
  BY <1>1 DEF OnePlace, SameHolders, SharedArray, IsLocal, IsMem, Observes, DownPool, Instns
<1>3. ~ MergeAbort
  <2> SUFFICES ASSUME MergeAbort PROVE FALSE
    OBVIOUS
  <2>1. phase = "pairs" /\ PairsLeft /\ Apart /\ Asserts(idx, S1, S2)
    BY DEF MergeAbort
  <2>2. BaseInv /\ Staged /\ OneStage /\ MemoriesKnown /\ FiniteTables
    BY DesignGood, DesignFinite DEF MergeInv
  <2>3. PairsOK /\ idx \in Instns /\ dep \in DOMAIN design.uhb[idx] /\ DOMAIN res = Orders!Items
    BY <2>1, <2>2 DEF BaseInv, PairsOK
  <2>4. PICK s1, s2 : s1 = S1 /\ s2 = S2
    OBVIOUS
  <2>5. s1 \in design.uhb[idx][dep] /\ s2 \in design.uhb[idx][dep]
    BY <2>1, <2>2, <2>3, <2>4, PairNodes
  <2>6. s1 # s2 /\ Asserts(idx, s1, s2)
    BY <2>1, <2>4 DEF Apart
  <2>7. SameHolders(s1, s2) /\ SharedArray(idx, s1) = SharedArray(idx, s2) /\ Observes(s1) /\ Observes(s2)
    BY <2>2, <2>3, <2>5, <2>6, AssertsObserved
  <2> QED
    BY <1>2, <2>3, <2>5, <2>6, <2>7 DEF OnePlace
<1>4. phase # "abort"
  BY <1>2 DEF NeverStops
<1> QED
  BY <1>3, <1>4 DEF NeverStops, Next, Merge, MergeNext, Stage, TryMerge, EndStage, NextInstn,
     DumpStage, DumpIntra, Header, gvars, mvars

(* Nothing is left apart without a reason: when the merging ends, two      *)
(* nodes of a stage with the same verdicts on all their orders are one     *)
(* node of the model, whatever order the nodes were compared in.  And it   *)
(* ends, if no two nodes that observe accesses compete: in such a design   *)
(* compare_prop never asks for an order that does not exist.               *)
THEOREM AlikeMerged == Spec => [](OnePlace \/ NeverStops => AlikeNodesMerged)
<1>1. MergeInv /\ PcrInv /\ NeverStops => AlikeNodesMerged
  <2> SUFFICES ASSUME MergeInv, PcrInv, NeverStops, phase = "dump", NEW i \in Instns, NEW t \in DOMAIN sets[i],
                      NEW n1 \in DOMAIN sets[i][t], NEW n2 \in DOMAIN sets[i][t],
                      SharedArray(i, n1) = SharedArray(i, n2), AlikeIn(n1, n2, {"spatial", "temporal", "data"}),
                      sets[i][t][n1] # sets[i][t][n2]
               PROVE  FALSE
    BY DEF AlikeNodesMerged
  <2>1. /\ Staged /\ OneStage /\ MemoriesKnown /\ FiniteTables /\ DOMAIN res = Orders!Items /\ SetsInv /\ ApartInv
    BY DesignGood, DesignFinite DEF MergeInv, BaseInv
  <2>2. t \in DOMAIN design.uhb[i] /\ n1 \in design.uhb[i][t] /\ n2 \in design.uhb[i][t] /\ n1 # n2
    BY <2>1 DEF SetsInv
  <2>3. Profile(n1, n2, AllTypes) = Profile(n2, n1, AllTypes)
    BY DEF AlikeIn, AllTypes
  <2>4. SpatialMatch(n1, n2)
    BY <2>1, <2>2, <2>3, ProfileSpatial
  <2>5. Peers(n1, n2)
    BY <2>1, <2>2, <2>4, MatchHolders, PeersFrom
  <2>6. ~ Observes(n1) /\ ~ Observes(n2)
    BY <2>1, <2>2, <2>3, ProfilePlain
  <2>7. Alike(n1, n2) /\ Alike(n2, n1)
    BY <2>1, <2>4, <2>5, <2>6, AlikeEquivalence DEF Alike
  <2>8. DataDep(n1) = {} <=> DataDep(n2) = {}
    BY <2>3, ProfileData
  <2>9. MergeEither(i, n1, n2)
    BY <2>1, <2>7, <2>8, AlikeMerge DEF MergeEither
  <2>10. Answered(i, t, n1, n2)
    BY DEF Answered, Collected
  <2> QED
    BY <2>1, <2>2, <2>9, <2>10 DEF ApartInv
<1>2. Init => (OnePlace => NeverStops)
  BY DEF Init, MergeInit, NeverStops
<1>3. Spec => [](OnePlace => NeverStops)
  BY <1>2, NoAbort, MergeInvariant, PTL DEF Spec
<1>4. MergeInv /\ PcrInv /\ (OnePlace => NeverStops) => (OnePlace \/ NeverStops => AlikeNodesMerged)
  BY <1>1
<1> QED
  BY <1>3, <1>4, MergeInvariant, PcrInvariant, PTL

-----------------------------------------------------------------------------
(* The dump.                                                               *)

(* What an axiom about two updates of one node is made of.                 *)
LEMMA SpatialAxiom ==
  ASSUME NEW its, NEW ax \in SpatialAxioms(its)
  PROVE  /\ ax.of \in its /\ Holds(ax.of)
         /\ ax.n1 = SpatialName(ax.of, ax.of.l1) /\ ax.n2 = SpatialName(ax.of, ax.of.l2)
<1>1. PICK it \in its : Holds(it) /\ ax = Axiom(it, SpatialName(it, it.l1), SpatialName(it, it.l2))
  BY DEF SpatialAxioms
<1> QED
  BY <1>1 DEF Axiom

(* What an axiom about two nodes is made of.                               *)
LEMMA InterAxiom ==
  ASSUME NEW i, NEW its, NEW ax \in InterAxioms(i, its)
  PROVE  /\ ax.of \in its /\ Holds(ax.of)
         /\ ax.n1 = InterName(i, ax.of.l1) /\ ax.n2 = InterName(i, ax.of.l2)
         /\ ax.of.type = "data" => ax.n1[1] = "0"
<1>1. PICK it \in its : Holds(it) /\ ax = Axiom(it, InterName(i, it.l1), InterName(i, it.l2))
  BY DEF InterAxioms
<1>2. ax.of.type = "data" => ax.n1[1] = "0"
  BY DEF InterAxioms
<1> QED
  BY <1>1, <1>2 DEF Axiom

(* The only names that begin with "0" are those of elements shared by the  *)
(* cores.                                                                  *)
LEMMA NameFacts ==
  ASSUME NEW n, NEW shared \in BOOLEAN
  PROVE  /\ Name(n, shared)[1] = "0" <=> shared
         /\ shared => Name(n, shared) = <<"0", n>>
BY DEF Name

(* Names are chosen by a condition that holds or does not.                 *)
LEMMA NameArguments ==
  ASSUME NEW it, NEW i, NEW n
  PROVE  /\ \E b \in BOOLEAN : SpatialName(it, n) = Name(n, b) /\ (b <=> ~ it.samecore /\ ~ IsLocal(n))
         /\ \E b \in BOOLEAN : InterName(i, n) = Name(n, b) /\ (b <=> ~ IsLocal(n) /\ TakenForMem(i, n))
<1>1. SpatialName(it, n) = Name(n, ~ it.samecore /\ ~ IsLocal(n))
  BY DEF SpatialName
<1>2. InterName(i, n) = Name(n, ~ IsLocal(n) /\ TakenForMem(i, n))
  BY DEF InterName
<1>3. (~ it.samecore /\ ~ IsLocal(n)) \in BOOLEAN /\ (~ IsLocal(n) /\ TakenForMem(i, n)) \in BOOLEAN
  OBVIOUS
<1> QED
  BY <1>1, <1>2, <1>3

(* The nodes of shared_resource are roots that have been collected; every  *)
(* axiom comes from an order that has had its turn.                        *)
SharedNames == {<<"0", n>> : n \in all_uhb_parents}
DumpTypeInv ==
  /\ visited \subseteq DOMAIN res
  /\ \A ax \in axioms : ax.of \in visited
  /\ \A e \in edges : e[1] \in Instns
  /\ shared_resource.ws \subseteq SharedNames
  /\ \A p \in shared_resource.rf : p[1] \in SharedNames
  /\ phase \in {"stage", "pairs", "abort"} => axioms = {} /\ visited = {} /\ shared_resource = [ws |-> {}, rf |-> {}]

(* Dumping a stage names roots only.                                       *)
LEMMA DumpTypeStage ==
  ASSUME MergeInv, DumpTypeInv, DumpStage
  PROVE  DumpTypeInv'
<1> DEFINE roots   == Roots(idx, dep)
           spatial == (UNION {Spatial(p) : p \in roots}) \ visited
           inter   == Dumpable(roots) \ visited
           new     == SpatialAxioms(spatial) \cup InterAxioms(idx, inter)
<1>1. /\ phase = "dump" /\ dep <= Len(design.uhb[idx])
      /\ visited' = visited \cup spatial \cup inter
      /\ axioms' = axioms \cup new
      /\ shared_resource' =
           [ws |-> shared_resource.ws \cup {ax.n1 : ax \in {a \in new : a.of.type = "spatial" /\ a.n1[1] = "0"}},
            rf |-> shared_resource.rf \cup {<<ax.n1, ax.n2>> : ax \in {a \in new : a.of.type = "data"}}]
      /\ UNCHANGED <<design, res, phase, all_uhb_parents, edges>>
  BY DEF DumpStage
<1>2. dep \in DOMAIN design.uhb[idx] /\ idx \in Instns /\ roots \subseteq all_uhb_parents
  <2>1. idx \in Instns /\ dep \in DOMAIN design.uhb[idx]
    BY <1>1, DesignGood DEF MergeInv, BaseInv, Staged
  <2>2. Collected(idx, dep)
    BY <1>1 DEF Collected
  <2> QED
    BY <1>1, <2>1, <2>2 DEF MergeInv, RootsKept
<1> HIDE DEF roots
<1>3. \A it \in spatial : it \in DOMAIN res /\ it.type = "spatial" /\ it.l1 \in roots
  BY DEF Spatial
<1>4. \A it \in inter : it \in DOMAIN res /\ it.type # "spatial" /\ {it.l1, it.l2} \subseteq all_uhb_parents
  BY DEF Dumpable
<1> HIDE DEF spatial, inter
<1>5. ASSUME NEW ax \in new
      PROVE  /\ ax.of \in spatial \cup inter
             /\ ax.of.type = "spatial" /\ ax.n1[1] = "0" => ax.n1 \in SharedNames
             /\ ax.of.type = "data" => ax.n1 \in SharedNames
  <2>1. CASE ax \in SpatialAxioms(spatial)
    <3>1. ax.of \in spatial /\ ax.n1 = SpatialName(ax.of, ax.of.l1)
      BY <2>1, SpatialAxiom
    <3>2. PICK b \in BOOLEAN : ax.n1 = Name(ax.of.l1, b)
      BY <3>1, NameArguments
    <3>3. ax.n1[1] = "0" => ax.n1 = <<"0", ax.of.l1>>
      BY <3>2, NameFacts
    <3> QED
      BY <1>2, <1>3, <3>1, <3>3 DEF SharedNames
  <2>2. CASE ax \in InterAxioms(idx, inter)
    <3>1. ax.of \in inter /\ ax.n1 = InterName(idx, ax.of.l1) /\ (ax.of.type = "data" => ax.n1[1] = "0")
      BY <2>2, InterAxiom
    <3>2. PICK b \in BOOLEAN : ax.n1 = Name(ax.of.l1, b)
      BY <3>1, NameArguments
    <3>3. ax.n1[1] = "0" => ax.n1 = <<"0", ax.of.l1>>
      BY <3>2, NameFacts
    <3> QED
      BY <1>4, <3>1, <3>3 DEF SharedNames
  <2> QED
    BY <1>5, <2>1, <2>2
<1> HIDE DEF new
<1>6. visited' \subseteq DOMAIN res' /\ \A ax \in axioms' : ax.of \in visited'
  BY <1>1, <1>3, <1>4, <1>5 DEF DumpTypeInv
<1>7. \A e \in edges' : e[1] \in Instns'
  BY <1>1 DEF DumpTypeInv, Instns
<1>8. SharedNames' = SharedNames
  BY <1>1 DEF SharedNames
<1>9. shared_resource'.ws \subseteq SharedNames
  BY <1>1, <1>5 DEF DumpTypeInv
<1>10. \A p \in shared_resource'.rf : p[1] \in SharedNames
  BY <1>1, <1>5 DEF DumpTypeInv
<1> QED
  BY <1>1, <1>6, <1>7, <1>8, <1>9, <1>10 DEF DumpTypeInv

(* The dump keeps to these types.                                          *)
LEMMA DumpTypeStep == MergeInv /\ DumpTypeInv /\ [Next]_gvars => DumpTypeInv'
<1> SUFFICES ASSUME MergeInv, DumpTypeInv, [Next]_gvars PROVE DumpTypeInv'
  OBVIOUS
<1>1. CASE Merge
  <2>1. UNCHANGED <<design, res, visited, axioms, edges, shared_resource>>
    BY <1>1 DEF Merge, MergeNext, Stage, TryMerge, MergeAbort, EndStage, NextInstn
  <2>2. all_uhb_parents \subseteq all_uhb_parents' /\ phase \in {"stage", "pairs"}
    BY <1>1 DEF Merge, MergeNext, Stage, TryMerge, MergeAbort, EndStage, NextInstn
  <2>3. SharedNames \subseteq SharedNames'
    BY <2>2 DEF SharedNames
  <2> QED
    BY <2>1, <2>2, <2>3 DEF DumpTypeInv, Instns
<1>2. CASE DumpStage
  BY <1>2, DumpTypeStage
<1>3. CASE DumpIntra
  <2>1. /\ UNCHANGED <<design, res, all_uhb_parents, visited, axioms, shared_resource>>
        /\ edges' = edges \cup {<<idx, e>> : e \in Path(idx)} /\ phase' \in {phase, "header"} /\ phase = "dump"
    BY <1>3 DEF DumpIntra
  <2>2. idx \in Instns /\ SharedNames' = SharedNames
    BY <2>1 DEF MergeInv, BaseInv, SharedNames
  <2>3. \A e \in edges' : e[1] \in Instns
    BY <2>1, <2>2 DEF DumpTypeInv
  <2> QED
    BY <2>1, <2>2, <2>3 DEF DumpTypeInv, Instns
<1>4. CASE Header
  <2>1. UNCHANGED <<design, res, all_uhb_parents, visited, axioms, edges, shared_resource>> /\ phase' = "done"
    BY <1>4 DEF Header
  <2>2. SharedNames' = SharedNames
    BY <2>1 DEF SharedNames
  <2> QED
    BY <2>1, <2>2 DEF DumpTypeInv, Instns
<1>5. CASE UNCHANGED gvars
  <2>1. UNCHANGED <<design, res, phase, all_uhb_parents, visited, axioms, edges, shared_resource>>
    BY <1>5 DEF gvars, mvars
  <2>2. SharedNames' = SharedNames
    BY <2>1 DEF SharedNames
  <2> QED
    BY <2>1, <2>2 DEF DumpTypeInv, Instns
<1> QED
  BY <1>1, <1>2, <1>3, <1>4, <1>5 DEF Next

(* What the dump names are roots.                                          *)
LEMMA DumpTypeInvariant == Spec => []DumpTypeInv
<1>1. Init => DumpTypeInv
  BY DEF Init, DumpTypeInv, MergeInit
<1> QED
  BY <1>1, DumpTypeStep, MergeInvariant, PTL DEF Spec

(* Type correctness.                                                       *)
THEOREM TypeCorrect == Spec => []TypeOK
<1>1. MergeInv => MergeTypeOK
  <2> SUFFICES ASSUME MergeInv PROVE MergeTypeOK
    OBVIOUS
  <2>1. BaseInv /\ SetsInv /\ ParentsPlaced /\ Staged
    BY DesignGood DEF MergeInv
  <2>2. ASSUME phase = "pairs"
        PROVE  dep <= Len(design.uhb[idx]) /\ ToSet(uhb_nodes) = design.uhb[idx][dep] /\ pair[1] < pair[2]
    <3>1. PairsOK /\ idx \in Instns
      BY <2>1, <2>2 DEF BaseInv
    <3>2. IsFiniteSet(design.uhb[idx][dep]) /\ dep <= Len(design.uhb[idx])
      BY <2>1, <3>1 DEF PairsOK, Staged
    <3>3. /\ uhb_nodes \in Seq(design.uhb[idx][dep])
          /\ \A k \in 1 .. Len(uhb_nodes) : uhb_nodes[k] \in design.uhb[idx][dep]
          /\ \A n \in design.uhb[idx][dep] : \E k \in 1 .. Len(uhb_nodes) : uhb_nodes[k] = n
      BY <3>1, <3>2, Vector DEF PairsOK
    <3>4. DOMAIN uhb_nodes = 1 .. Len(uhb_nodes)
      BY <3>3
    <3>5. ToSet(uhb_nodes) = design.uhb[idx][dep]
      BY <3>3, <3>4 DEF ToSet
    <3> QED
      BY <3>1, <3>2, <3>5 DEF PairsOK
  <2>3. \A i \in Instns : DOMAIN sets[i] = DOMAIN design.uhb[i]
    BY <2>1 DEF SetsInv
  <2>4. \A i \in Instns : \A t \in DOMAIN design.uhb[i] :
          DOMAIN sets[i][t] = design.uhb[i][t] /\ \A n \in design.uhb[i][t] : sets[i][t][n] \in design.uhb[i][t]
    BY <2>1 DEF SetsInv
  <2> QED
    BY <2>1, <2>2, <2>3, <2>4 DEF MergeTypeOK, BaseInv, ParentsPlaced
<1>2. MergeInv /\ DumpTypeInv => TypeOK
  BY <1>1 DEF TypeOK, DumpTypeInv, SharedNames
<1> QED
  BY <1>2, DumpTypeInvariant, MergeInvariant, PTL

-----------------------------------------------------------------------------
(* Coherence.  Where a read takes its value from a write, the memory       *)
(* between them observes the write, so it is a set of its own; when its    *)
(* stage is dumped, the inferred order of two writes puts it into          *)
(* shared_resource.ws.                                                     *)

(* A node that observes an access is merged with no other.                 *)
LEMMA LoneNode ==
  ASSUME SetsInv, ClassInv, NEW i \in Instns, NEW t \in DOMAIN design.uhb[i], NEW n \in design.uhb[i][t], Observes(n)
  PROVE  sets[i][t][n] = n
<1>1. /\ sets[i][t][n] \in design.uhb[i][t]
      /\ sets[i][t][sets[i][t][n]] = sets[i][t][n]
  BY DEF SetsInv
<1>2. Like(n, sets[i][t][n])
  BY <1>1 DEF ClassInv
<1> QED
  BY <1>2 DEF Like, Alike

Dumped(i, t) == phase \in {"header", "done"} \/ (phase = "dump" /\ (i < idx \/ (i = idx /\ t < dep)))
SharedOrder(it) == it.type = "spatial" /\ Holds(it) /\ ~ it.samecore /\ ~ IsLocal(it.l1)
ReadFrom(ax) ==
  /\ <<ax.n1, ax.n2>> \in shared_resource.rf
  /\ ax.of.l1 \in all_uhb_parents /\ ax.n1 = <<"0", ax.of.l1>> /\ ~ IsLocal(ax.of.l1)
  /\ \E i \in Instns : ax.of.l1 \in DOMAIN design.loc[i]
HeaderAxioms ==
  {Fr(p) : p \in {q \in shared_resource.rf : q[1] \in shared_resource.ws}}
  \cup {[kind |-> "final", n1 |-> k, n2 |-> k] : k \in shared_resource.ws}

ReadInv ==
  /\ \A ax \in axioms : ax.of.type = "data" => ReadFrom(ax)
  /\ \A it \in visited : SharedOrder(it) => <<"0", it.l1>> \in shared_resource.ws
  /\ \A i \in Instns : \A t \in DOMAIN design.uhb[i] : Dumped(i, t) =>
       \A p \in Roots(i, t) : Spatial(p) \subseteq visited
  /\ phase = "done" => inferred = HeaderAxioms

(* Stages that have been dumped, one dump later.                           *)
LEMMA DumpedNext ==
  ASSUME MergeInv, NEW i \in Instns, NEW t \in DOMAIN design.uhb[i]
  PROVE  /\ DumpStage /\ Dumped(i, t)' => Dumped(i, t) \/ (i = idx /\ t = dep)
         /\ DumpIntra /\ Dumped(i, t)' => Dumped(i, t)
         /\ Header /\ Dumped(i, t)' => Dumped(i, t)
         /\ ~ (Merge /\ Dumped(i, t)')
<1>1. /\ Len(design.uhb) \in Nat /\ Instns = 1 .. Len(design.uhb) /\ idx \in Instns
      /\ \A j \in Instns : Len(design.uhb[j]) \in Nat /\ DOMAIN design.uhb[j] = 1 .. Len(design.uhb[j])
      /\ dep \in 1 .. Len(design.uhb[idx]) + 1
  BY DesignGood DEF Staged, MergeInv, BaseInv
<1>2. i \in Nat /\ idx \in Nat /\ t \in Nat /\ dep \in Nat /\ t >= 1 /\ t <= Len(design.uhb[i])
      /\ i <= Len(design.uhb) /\ Len(design.uhb[i]) \in Nat
  BY <1>1
<1>3. ASSUME DumpStage, Dumped(i, t)' PROVE Dumped(i, t) \/ (i = idx /\ t = dep)
  <2>1. phase = "dump" /\ phase' = "dump" /\ idx' = idx /\ dep' = dep + 1
    BY <1>3 DEF DumpStage
  <2>2. i < idx \/ (i = idx /\ t < dep + 1)
    BY <1>3, <2>1 DEF Dumped
  <2> QED
    BY <1>2, <2>1, <2>2 DEF Dumped
<1>4. ASSUME DumpIntra, Dumped(i, t)' PROVE Dumped(i, t)
  <2>1. /\ phase = "dump" /\ dep > Len(design.uhb[idx])
        /\ IF idx < Len(design.uhb) THEN idx' = idx + 1 /\ dep' = 1 /\ phase' = phase
           ELSE phase' = "header" /\ idx' = idx /\ dep' = dep
    BY <1>4 DEF DumpIntra
  <2>2. i <= idx => Dumped(i, t)
    <3>1. i = idx => t < dep
      BY <1>1, <1>2, <2>1
    <3>2. i <= idx => i < idx \/ (i = idx /\ t < dep)
      BY <1>2, <3>1
    <3> QED
      BY <2>1, <3>2 DEF Dumped
  <2>3. CASE idx < Len(design.uhb)
    <3>1. i < idx + 1 \/ (i = idx + 1 /\ t < 1)
      BY <1>4, <2>1, <2>3 DEF Dumped
    <3> QED
      BY <1>2, <2>2, <3>1
  <2>4. CASE ~ (idx < Len(design.uhb))
    BY <1>1, <1>2, <2>2, <2>4
  <2> QED
    BY <2>3, <2>4
<1>5. ASSUME Header PROVE Dumped(i, t)
  BY <1>5 DEF Header, Dumped
<1>6. ASSUME Merge, Dumped(i, t)' PROVE FALSE
  <2>1. ~ Stage /\ ~ TryMerge /\ ~ MergeAbort /\ ~ EndStage
    BY <1>6 DEF Stage, TryMerge, MergeAbort, EndStage, Dumped
  <2>2. NextInstn
    BY <1>6, <2>1 DEF Merge, MergeNext
  <2>3. phase' \notin {"header", "done"} /\ (phase' = "dump" => idx' = 1 /\ dep' = 1)
    BY <2>2 DEF NextInstn
  <2> QED
    BY <1>1, <1>2, <1>6, <2>3 DEF Dumped
<1> QED
  BY <1>3, <1>4, <1>5, <1>6

(* Dumping a stage visits the orders of its roots.                         *)
LEMMA ReadStage ==
  ASSUME MergeInv, DumpTypeInv, ReadInv, DumpStage
  PROVE  ReadInv'
<1> DEFINE roots   == Roots(idx, dep)
           spatial == (UNION {Spatial(p) : p \in roots}) \ visited
           inter   == Dumpable(roots) \ visited
           new     == SpatialAxioms(spatial) \cup InterAxioms(idx, inter)
<1>1. /\ phase = "dump" /\ dep <= Len(design.uhb[idx])
      /\ visited' = visited \cup spatial \cup inter
      /\ axioms' = axioms \cup new
      /\ shared_resource' =
           [ws |-> shared_resource.ws \cup {ax.n1 : ax \in {a \in new : a.of.type = "spatial" /\ a.n1[1] = "0"}},
            rf |-> shared_resource.rf \cup {<<ax.n1, ax.n2>> : ax \in {a \in new : a.of.type = "data"}}]
      /\ UNCHANGED <<design, res, phase, idx, sets, all_uhb_parents>>
  BY DEF DumpStage
<1>2. Staged /\ DOMAIN res = Orders!Items /\ \A i \in Instns : \A t \in DOMAIN design.uhb[i] :
        Dumped(i, t)' => Dumped(i, t) \/ (i = idx /\ t = dep)
  BY DesignGood, DumpedNext DEF MergeInv, BaseInv
<1>3. \A i, t, p : Roots(i, t)' = Roots(i, t) /\ Spatial(p)' = Spatial(p)
  BY <1>1 DEF Roots, Spatial
<1>4. \A it \in spatial : it.type = "spatial"
  BY DEF Spatial
<1>5. \A it \in inter : it \in DOMAIN res /\ it.type # "spatial" /\ it.l1 \in all_uhb_parents
  BY DEF Dumpable
<1>6. \A p \in roots : Spatial(p) \subseteq visited'
  BY <1>1
<1> HIDE DEF roots, spatial, inter
<1>7. ASSUME NEW ax \in new, ax.of.type = "data"
      PROVE  ReadFrom(ax)'
  <2>1. ax \in InterAxioms(idx, inter)
    BY <1>4, <1>7, SpatialAxiom
  <2>2. ax.of \in inter /\ ax.n1 = InterName(idx, ax.of.l1) /\ ax.n1[1] = "0"
    BY <1>7, <2>1, InterAxiom
  <2>3. PICK b \in BOOLEAN : ax.n1 = Name(ax.of.l1, b) /\ (b <=> ~ IsLocal(ax.of.l1) /\ TakenForMem(idx, ax.of.l1))
    BY <2>2, NameArguments
  <2>4. ax.n1 = <<"0", ax.of.l1>> /\ ~ IsLocal(ax.of.l1)
    BY <2>2, <2>3, NameFacts
  <2>5. \E i \in Instns : ax.of.l1 \in DOMAIN design.loc[i]
    BY <1>2, <1>5, <1>7, <2>2, FlowShape
  <2>6. <<ax.n1, ax.n2>> \in shared_resource'.rf
    BY <1>1, <1>7
  <2> QED
    BY <1>1, <1>5, <2>2, <2>4, <2>5, <2>6 DEF ReadFrom, IsLocal, Instns
<1>8. ASSUME NEW it \in spatial, SharedOrder(it)
      PROVE  <<"0", it.l1>> \in shared_resource'.ws
  <2> DEFINE ax == Axiom(it, SpatialName(it, it.l1), SpatialName(it, it.l2))
  <2>1. ax \in new
    BY <1>8 DEF SharedOrder, SpatialAxioms
  <2>2. ax.of = it /\ ax.n1 = SpatialName(it, it.l1)
    BY DEF Axiom
  <2> HIDE DEF ax
  <2>3. PICK b \in BOOLEAN : ax.n1 = Name(it.l1, b) /\ (b <=> ~ it.samecore /\ ~ IsLocal(it.l1))
    BY <2>2, NameArguments
  <2>4. ax.n1 = <<"0", it.l1>> /\ ax.n1[1] = "0"
    BY <1>8, <2>3, NameFacts DEF SharedOrder
  <2> HIDE DEF new
  <2>5. ax.n1 \in shared_resource'.ws
    BY <1>1, <1>4, <2>1, <2>2, <2>4
  <2> QED
    BY <2>4, <2>5
<1> HIDE DEF new
<1>9. shared_resource.ws \subseteq shared_resource'.ws /\ shared_resource.rf \subseteq shared_resource'.rf
  BY <1>1
<1>10. \A ax \in axioms' : ax.of.type = "data" => ReadFrom(ax)'
  <2>1. \A ax \in axioms : ax.of.type = "data" => ReadFrom(ax)'
    BY <1>1, <1>9 DEF ReadInv, ReadFrom, IsLocal, Instns
  <2> QED
    BY <1>1, <1>7, <2>1
<1>11. \A it : SharedOrder(it)' <=> SharedOrder(it)
  BY <1>1 DEF SharedOrder, Holds, Orders!Inferred, IsLocal
<1>12. \A it \in visited' : SharedOrder(it) => <<"0", it.l1>> \in shared_resource'.ws
  <2>1. \A it \in inter : ~ SharedOrder(it)
    BY <1>5 DEF SharedOrder
  <2> QED
    BY <1>1, <1>8, <1>9, <2>1 DEF ReadInv
<1>13. \A i \in Instns : \A t \in DOMAIN design.uhb[i] : Dumped(i, t)' =>
         \A p \in Roots(i, t) : Spatial(p) \subseteq visited'
  <2>1. visited \subseteq visited'
    BY <1>1
  <2> QED
    BY <1>2, <1>6, <2>1 DEF ReadInv, roots
<1>14. \A i \in Instns' : \A t \in DOMAIN design'.uhb[i] : Dumped(i, t)' =>
         \A p \in Roots(i, t)' : Spatial(p)' \subseteq visited'
  BY <1>1, <1>3, <1>13 DEF Instns
<1>15. \A it \in visited' : SharedOrder(it)' => <<"0", it.l1>> \in shared_resource'.ws
  BY <1>11, <1>12
<1> QED
  BY <1>1, <1>10, <1>14, <1>15 DEF ReadInv

(* The invariant of reads and writes is inductive.                         *)
LEMMA ReadStep == MergeInv /\ DumpTypeInv /\ ReadInv /\ [Next]_gvars => ReadInv'
<1> SUFFICES ASSUME MergeInv, DumpTypeInv, ReadInv, [Next]_gvars PROVE ReadInv'
  OBVIOUS
<1>1. CASE Merge
  <2>1. UNCHANGED <<design, visited, axioms>> /\ phase \in {"stage", "pairs"} /\ phase' # "done"
    BY <1>1 DEF Merge, MergeNext, Stage, TryMerge, MergeAbort, EndStage, NextInstn
  <2>2. axioms' = {} /\ visited' = {}
    BY <2>1 DEF DumpTypeInv
  <2>3. \A i \in Instns : \A t \in DOMAIN design.uhb[i] : ~ Dumped(i, t)'
    BY <1>1, DumpedNext
  <2>4. \A i \in Instns' : \A t \in DOMAIN design'.uhb[i] : ~ Dumped(i, t)'
    BY <2>1, <2>3 DEF Instns
  <2> QED
    BY <2>1, <2>2, <2>4 DEF ReadInv
<1>2. CASE DumpStage
  BY <1>2, ReadStage
<1>3. ASSUME UNCHANGED <<design, res, sets, all_uhb_parents, visited, axioms, shared_resource>>,
             \A i \in Instns : \A t \in DOMAIN design.uhb[i] : Dumped(i, t)' => Dumped(i, t),
             phase' = "done" => inferred' = HeaderAxioms
      PROVE  ReadInv'
  <2>1. \A ax : ReadFrom(ax)' <=> ReadFrom(ax)
    BY <1>3 DEF ReadFrom, IsLocal, Instns
  <2>2. \A it : SharedOrder(it)' <=> SharedOrder(it)
    BY <1>3 DEF SharedOrder, Holds, Orders!Inferred, IsLocal
  <2>3. \A i, t, p : Roots(i, t)' = Roots(i, t) /\ Spatial(p)' = Spatial(p)
    BY <1>3 DEF Roots, Spatial
  <2>4. \A i \in Instns' : \A t \in DOMAIN design'.uhb[i] : Dumped(i, t)' =>
          \A p \in Roots(i, t)' : Spatial(p)' \subseteq visited'
    BY <1>3, <2>3 DEF ReadInv, Instns
  <2>5. HeaderAxioms' = HeaderAxioms
    BY <1>3 DEF HeaderAxioms
  <2>6. \A ax \in axioms' : ax.of.type = "data" => ReadFrom(ax)'
    BY <1>3, <2>1 DEF ReadInv
  <2>7. \A it \in visited' : SharedOrder(it)' => <<"0", it.l1>> \in shared_resource'.ws
    BY <1>3, <2>2 DEF ReadInv
  <2> QED
    BY <1>3, <2>4, <2>5, <2>6, <2>7 DEF ReadInv
<1>4. CASE DumpIntra
  <2>1. UNCHANGED <<design, res, sets, all_uhb_parents, visited, axioms, shared_resource>> /\ phase' # "done"
    BY <1>4 DEF DumpIntra
  <2> QED
    BY <1>3, <1>4, <2>1, DumpedNext
<1>5. CASE Header
  <2>1. /\ UNCHANGED <<design, res, sets, all_uhb_parents, visited, axioms, shared_resource>>
        /\ inferred' = HeaderAxioms
    BY <1>5 DEF Header, HeaderAxioms
  <2> QED
    BY <1>3, <1>5, <2>1, DumpedNext
<1>6. CASE UNCHANGED gvars
  <2>1. UNCHANGED <<design, res, phase, idx, dep, sets, all_uhb_parents, visited, axioms, shared_resource, inferred>>
    BY <1>6 DEF gvars, mvars
  <2>2. \A i, t : Dumped(i, t)' <=> Dumped(i, t)
    BY <2>1 DEF Dumped
  <2>3. phase' = "done" => inferred' = HeaderAxioms
    BY <2>1 DEF ReadInv
  <2> QED
    BY <1>3, <2>1, <2>2, <2>3
<1> QED
  BY <1>1, <1>2, <1>4, <1>5, <1>6 DEF Next

(* The dump keeps it.                                                      *)
LEMMA ReadInvariant == Spec => []ReadInv
<1>1. Init => ReadInv
  BY DEF Init, ReadInv, MergeInit, Dumped
<1> QED
  BY <1>1, ReadStep, DumpTypeInvariant, MergeInvariant, PTL DEF Spec

(* Coherence: a read that may take its value from a write is ordered       *)
(* before the writes that overwrite it, however the other nodes are merged.*)
THEOREM ReadsCorrect == Spec => []ReadsBeforeOverwrites
<1>1. MergeInv /\ ClassInv /\ DumpTypeInv /\ ReadInv => ReadsBeforeOverwrites
  <2> SUFFICES ASSUME MergeInv, ClassInv, DumpTypeInv, ReadInv, phase = "done", NEW ax \in axioms, ax.of.type = "data"
               PROVE  /\ [kind |-> "fr", n1 |-> ax.n2, n2 |-> ax.n1] \in inferred
                      /\ [kind |-> "final", n1 |-> ax.n1, n2 |-> ax.n1] \in inferred
    BY DEF ReadsBeforeOverwrites
  <2>1. Staged /\ OneStage /\ MemoriesKnown /\ DOMAIN res = Orders!Items /\ ParentsPlaced /\ SetsInv
    BY DesignGood DEF MergeInv, BaseInv
  <2>2. <<ax.n1, ax.n2>> \in shared_resource.rf
    BY DEF ReadInv, ReadFrom
  <2>3. PICK m \in all_uhb_parents : /\ m = ax.of.l1 /\ ax.n1 = <<"0", m>> /\ ~ IsLocal(m)
                                     /\ \E i \in Instns : m \in DOMAIN design.loc[i]
    BY DEF ReadInv, ReadFrom
  <2>4. PICK k \in Instns : \E u \in DOMAIN design.uhb[k] : m \in design.uhb[k][u]
    BY <2>1 DEF ParentsPlaced
  <2>5. PICK u \in DOMAIN design.uhb[k] : m \in Roots(k, u) /\ m \in design.uhb[k][u]
    <3>1. PICK u \in DOMAIN design.uhb[k] : m \in design.uhb[k][u]
      BY <2>4
    <3>2. ax.of \in DOMAIN res
      BY DEF DumpTypeInv
    <3>3. Observes(m)
      BY <2>1, <2>3, <3>2, DataShape
    <3>4. sets[k][u][m] = m /\ DOMAIN sets[k][u] = design.uhb[k][u]
      BY <2>1, <3>1, <3>3, LoneNode DEF SetsInv
    <3> QED
      BY <3>1, <3>4 DEF Roots
  <2>6. m \in design.uhb[k][u]
    BY <2>5
  <2>7. m \in DOMAIN design.loc[k]
    BY <2>1, <2>3, <2>6 DEF MemoriesKnown
  <2> DEFINE it == SpatialItem(k, k, u, m)
  <2>8. it \in Spatial(m)
    BY <2>1, <2>6, SpatialInItems, SpatialFields DEF Spatial
  <2>9. Orders!Inferred(it) /\ it.samecore = Orders!IsLocal(m) /\ it.l1 = m /\ it.type = "spatial"
    BY <2>7 DEF SpatialItem, Orders!Item, Orders!Inferred, Orders!IsMem
  <2> HIDE DEF it
  <2>10. SharedOrder(it)
    BY <2>3, <2>9 DEF SharedOrder, Holds, IsLocal, Orders!IsLocal
  <2>11. it \in visited
    BY <2>5, <2>8 DEF ReadInv, Dumped
  <2>12. ax.n1 \in shared_resource.ws
    BY <2>3, <2>9, <2>10, <2>11 DEF ReadInv
  <2>13. inferred = HeaderAxioms
    BY DEF ReadInv
  <2>14. [kind |-> "final", n1 |-> ax.n1, n2 |-> ax.n1] \in inferred
    BY <2>12, <2>13 DEF HeaderAxioms
  <2>15. Fr(<<ax.n1, ax.n2>>) \in inferred
    BY <2>2, <2>12, <2>13 DEF HeaderAxioms
  <2>16. Fr(<<ax.n1, ax.n2>>) = [kind |-> "fr", n1 |-> ax.n2, n2 |-> ax.n1]
    BY DEF Fr
  <2> QED
    BY <2>14, <2>15, <2>16
<1> QED
  BY <1>1, DumpTypeInvariant, ReadInvariant, MergeInvariant, ClassInvariant, PTL

-----------------------------------------------------------------------------
(* Names.  Every name an axiom gives to a node is the one it has in the    *)
(* paths of the two instructions, if an instruction's graph has every      *)
(* register shared by the cores that no instruction up to this one         *)
(* updates, and every place where an access is observed is on the path of  *)
(* the instruction.                                                        *)

PlacesKnown ==
  \A i \in Instns : \A m \in DOMAIN design.loc[i] : \A a \in design.loc[i][m] : \A n \in DownPool(i, m, a) :
    \E t \in DOMAIN design.uhb[i] : n \in design.uhb[i][t]
PathsKnown ==
  /\ \A i, j \in Instns : \A t \in DOMAIN design.uhb[j] : \A n \in design.uhb[j][t] :
       ~ IsLocal(n) /\ ~ IsMem(j, n) =>
         InGraph(i, n) \/ \E k \in 1 .. i : \E u \in DOMAIN design.uhb[k] : n \in design.uhb[k][u]
  /\ PlacesKnown

(* A name of a representative on the path of an instruction.               *)
OnLevel(i, name) == i \in Instns /\ \E t \in DOMAIN design.uhb[i] : name \in Level(i, t)
IntraDumped(i) == phase \in {"header", "done"} \/ (phase = "dump" /\ i < idx)

NamesInv ==
  /\ \A i \in Instns : IntraDumped(i) =>
       \A e \in Path(i) : <<i, e>> \in edges /\ {e[1], e[2]} \subseteq stage_name
  /\ OneAnswer /\ PathsKnown => \A ax \in axioms : OnLevel(ax.of.i1, ax.n1) /\ OnLevel(ax.of.i2, ax.n2)
  /\ \A i \in Instns : \A t \in DOMAIN design.uhb[i] : Dumped(i, t) => Dumpable(Roots(i, t)) \subseteq visited
  /\ shared_resource.ws \subseteq {ax.n1 : ax \in axioms}
  /\ shared_resource.rf \subseteq {<<ax.n1, ax.n2>> : ax \in axioms}
  /\ phase = "done" => inferred = HeaderAxioms

(* A representative on the path of an instruction represents itself there. *)
LEMMA RootOnPath ==
  ASSUME SetsInv, Staged, OneStage, NEW i \in Instns, NEW k \in Instns,
         NEW t \in DOMAIN design.uhb[i], NEW u \in DOMAIN design.uhb[k], NEW n \in Roots(k, u), n \in design.uhb[i][t]
  PROVE  n \in Roots(i, t)
<1>1. DOMAIN sets[k][u] = design.uhb[k][u] /\ DOMAIN sets[i][t] = design.uhb[i][t]
  BY DEF SetsInv
<1>2. n \in design.uhb[k][u] /\ sets[k][u][n] = n
  BY <1>1 DEF SetsInv, Roots
<1>3. u = t
  BY <1>2 DEF OneStage
<1>4. sets[i][t][n] = n
  BY <1>2, <1>3 DEF SetsInv
<1> QED
  BY <1>1, <1>4 DEF Roots

(* Such a node is named on the path of an instruction as any reference to  *)
(* it is, if the reference knows whether it is a shared memory.            *)
LEMMA NamedOnLevel ==
  ASSUME SetsInv, Staged, OneStage, NEW i \in Instns, NEW k \in Instns,
         NEW t \in DOMAIN design.uhb[i], NEW u \in DOMAIN design.uhb[k], NEW n \in Roots(k, u), n \in design.uhb[i][t],
         NEW b \in BOOLEAN, b <=> SharedArray(i, n)
  PROVE  OnLevel(i, Name(n, b))
<1>1. n \in Roots(i, t)
  BY RootOnPath
<1>2. t # 0
  BY DEF Staged
<1>3. b = SharedArray(i, n)
  BY DEF SharedArray
<1>4. Name(n, b) \in Level(i, t)
  BY <1>1, <1>2, <1>3 DEF Level
<1> QED
  BY <1>4 DEF OnLevel

(* An axiom about two updates of a node.                                   *)
LEMMA SpatialNamed ==
  ASSUME MergeInv, NEW k \in Instns, NEW u \in DOMAIN design.uhb[k], NEW p \in Roots(k, u), NEW it \in Spatial(p)
  PROVE  OnLevel(it.i1, SpatialName(it, it.l1)) /\ OnLevel(it.i2, SpatialName(it, it.l2))
<1>1. SetsInv /\ Staged /\ OneStage /\ MemoriesKnown /\ DOMAIN res = Orders!Items
  BY DesignGood DEF MergeInv, BaseInv
<1>2. PICK i \in Instns, j \in Instns : \E t \in DOMAIN design.uhb[i] \cap DOMAIN design.uhb[j] :
        p \in design.uhb[i][t] \cap design.uhb[j][t] /\ it = SpatialItem(i, j, t, p)
  BY <1>1, SpatialShape
<1>3. PICK t \in DOMAIN design.uhb[i] \cap DOMAIN design.uhb[j] :
        p \in design.uhb[i][t] \cap design.uhb[j][t] /\ it = SpatialItem(i, j, t, p)
  BY <1>2
<1>4. it.i1 = i /\ it.i2 = j /\ it.l1 = p /\ it.l2 = p
  BY <1>3, SpatialFields
<1>5. it.samecore <=> ~ IsMem(i, p) \/ IsLocal(p)
  BY <1>3 DEF SpatialItem, Orders!Item, Orders!IsMem, IsMem, Orders!IsLocal, IsLocal
<1>6. IsMem(i, p) <=> IsMem(j, p)
  BY <1>1, <1>3 DEF MemoriesKnown, IsMem
<1>7. PICK b \in BOOLEAN : SpatialName(it, p) = Name(p, b) /\ (b <=> ~ it.samecore /\ ~ IsLocal(p))
  BY NameArguments
<1>8. (b <=> SharedArray(i, p)) /\ (b <=> SharedArray(j, p))
  BY <1>5, <1>6, <1>7 DEF SharedArray
<1>9. OnLevel(i, Name(p, b))
  BY <1>1, <1>3, <1>8, NamedOnLevel
<1>10. OnLevel(j, Name(p, b))
  BY <1>1, <1>3, <1>8, NamedOnLevel
<1> QED
  BY <1>4, <1>7, <1>9, <1>10

(* The nodes of an order between two nodes are on the paths of its         *)
(* instructions.                                                           *)
LEMMA OrderOnPaths ==
  ASSUME Staged, PlacesKnown, DOMAIN res = Orders!Items, NEW it \in DOMAIN res, it.type # "spatial"
  PROVE  /\ it.i1 \in Instns /\ \E t \in DOMAIN design.uhb[it.i1] : it.l1 \in design.uhb[it.i1][t]
         /\ it.i2 \in Instns /\ \E t \in DOMAIN design.uhb[it.i2] : it.l2 \in design.uhb[it.i2][t]
<1>1. ~ OfElement(it)
  BY SpatialFields DEF OfElement
<1>2. CASE OfStage(it)
  <2>1. PICK i \in Instns, j \in Instns : \E t \in DOMAIN design.uhb[i] \cap DOMAIN design.uhb[j] :
          \E n1 \in design.uhb[i][t], n2 \in design.uhb[j][t] :
            it = Orders!Item(<<"pcr", i, j, Orders!StagePcr(t)>>, "temporal", i, j, n1, n2, TRUE)
    BY <1>2 DEF OfStage
  <2>2. PICK t \in DOMAIN design.uhb[i] \cap DOMAIN design.uhb[j] :
          \E n1 \in design.uhb[i][t], n2 \in design.uhb[j][t] :
            it = Orders!Item(<<"pcr", i, j, Orders!StagePcr(t)>>, "temporal", i, j, n1, n2, TRUE)
    BY <2>1
  <2>3. it.i1 = i /\ it.i2 = j /\ it.l1 \in design.uhb[i][t] /\ it.l2 \in design.uhb[j][t]
    BY <2>2 DEF Orders!Item
  <2> QED
    BY <2>3
<1>3. CASE OfAccess(it)
  <2>1. PICK i \in Instns, j \in Instns : \E m \in DOMAIN design.loc[i] \cap DOMAIN design.loc[j] :
          \E a \in design.loc[i][m], b \in design.loc[j][m] :
            \E n1 \in DownPool(i, m, a), n2 \in DownPool(j, m, b) :
              it = Orders!Item(<<"access", i, j, m, a, b>>, "temporal", i, j, n1, n2, TRUE)
    BY <1>3 DEF OfAccess
  <2>2. it.i1 = i /\ it.i2 = j
    BY <2>1 DEF Orders!Item
  <2>3. \E m \in DOMAIN design.loc[i] : \E a \in design.loc[i][m] : it.l1 \in DownPool(i, m, a)
    BY <2>1 DEF Orders!Item
  <2>4. \E m \in DOMAIN design.loc[j] : \E a \in design.loc[j][m] : it.l2 \in DownPool(j, m, a)
    BY <2>1 DEF Orders!Item
  <2> QED
    BY <2>2, <2>3, <2>4 DEF PlacesKnown
<1>4. CASE OfFlow(it)
  <2>1. PICK i \in Instns, j \in Instns : \E m \in DOMAIN design.loc[i] \cap DOMAIN design.loc[j] :
          \E a \in design.loc[i][m], b \in design.loc[j][m] : \E n \in design.down[j][m] :
            /\ a.write /\ ~ b.write
            /\ it = Orders!Item(<<"flow", i, j, m, a, b>>, "data", i, j, m, n, Orders!IsLocal(m))
    BY <1>4 DEF OfFlow
  <2>2. it.i1 = i /\ it.i2 = j
    BY <2>1 DEF Orders!Item
  <2>3. \E m \in DOMAIN design.loc[i] : \E a \in design.loc[i][m] : it.l1 \in DownPool(i, m, a)
    BY <2>1 DEF Orders!Item, DownPool
  <2>4. \E m \in DOMAIN design.loc[j] : \E a \in design.loc[j][m] : it.l2 \in DownPool(j, m, a)
    BY <2>1 DEF Orders!Item, DownPool
  <2> QED
    BY <2>2, <2>3, <2>4 DEF PlacesKnown
<1> QED
  BY <1>1, <1>2, <1>3, <1>4, ItemShapes

(* An axiom about two nodes: what the instruction being dumped takes for a *)
(* shared memory is one for the instructions of the axiom, unless it is a  *)
(* register that the instruction's graph does not have.                    *)
LEMMA InterNamed ==
  ASSUME SetsInv, Staged, OneStage, MemoriesKnown, NEW k \in Instns, NEW i \in Instns,
         NEW t \in DOMAIN design.uhb[i], NEW n \in design.uhb[i][t],
         NEW j \in Instns, NEW u \in DOMAIN design.uhb[j], n \in Roots(j, u),
         IsLocal(n) \/ InGraph(k, n) \/ IsMem(i, n)
  PROVE  OnLevel(i, InterName(k, n))
<1>1. PICK b \in BOOLEAN : InterName(k, n) = Name(n, b) /\ (b <=> ~ IsLocal(n) /\ TakenForMem(k, n))
  BY NameArguments
<1>2. IsMem(k, n) => IsMem(i, n)
  BY DEF MemoriesKnown, IsMem
<1>3. IsMem(i, n) /\ InGraph(k, n) => IsMem(k, n)
  BY DEF MemoriesKnown, IsMem, InGraph
<1>4. b <=> SharedArray(i, n)
  BY <1>1, <1>2, <1>3 DEF SharedArray, TakenForMem
<1> QED
  BY <1>1, <1>4, NamedOnLevel

(* Dumping a stage gives nodes their names.                                *)
LEMMA NamesStage ==
  ASSUME MergeInv, NamesInv, DumpStage
  PROVE  NamesInv'
<1> DEFINE roots   == Roots(idx, dep)
           spatial == (UNION {Spatial(p) : p \in roots}) \ visited
           inter   == Dumpable(roots) \ visited
           new     == SpatialAxioms(spatial) \cup InterAxioms(idx, inter)
<1>1. /\ phase = "dump" /\ dep <= Len(design.uhb[idx])
      /\ visited' = visited \cup spatial \cup inter
      /\ axioms' = axioms \cup new
      /\ shared_resource' =
           [ws |-> shared_resource.ws \cup {ax.n1 : ax \in {a \in new : a.of.type = "spatial" /\ a.n1[1] = "0"}},
            rf |-> shared_resource.rf \cup {<<ax.n1, ax.n2>> : ax \in {a \in new : a.of.type = "data"}}]
      /\ UNCHANGED <<design, res, phase, idx, sets, all_uhb_parents, edges, stage_name>>
  BY DEF DumpStage
<1>2. /\ SetsInv /\ Staged /\ OneStage /\ MemoriesKnown /\ DOMAIN res = Orders!Items
      /\ idx \in Instns /\ dep \in DOMAIN design.uhb[idx]
  BY <1>1, DesignGood DEF MergeInv, BaseInv, Staged
<1>3. \A i \in Instns : \A t \in DOMAIN design.uhb[i] : Dumped(i, t)' => Dumped(i, t) \/ (i = idx /\ t = dep)
  BY DumpedNext
<1>4. Dumpable(roots) \subseteq visited'
  BY <1>1
<1>5. \A it \in spatial : \E p \in roots : it \in Spatial(p)
  OBVIOUS
<1>6. \A it \in inter : /\ it \in DOMAIN res /\ it.type # "spatial" /\ it \notin visited
                        /\ it.l1 \in all_uhb_parents /\ it.l2 \in all_uhb_parents
  BY DEF Dumpable
<1> HIDE DEF roots, spatial, inter
<1>7. ASSUME OneAnswer, PathsKnown, NEW it \in inter, NEW i \in Instns, NEW n \in {it.l1, it.l2},
             NEW t \in DOMAIN design.uhb[i], n \in design.uhb[i][t]
      PROVE  OnLevel(i, InterName(idx, n))
  <2>1. n \in all_uhb_parents
    BY <1>6, <1>7
  <2>2. PICK j \in Instns : \E u \in DOMAIN design.uhb[j] : n \in Roots(j, u)
    BY <1>1, <1>7, <2>1 DEF MergeInv, ParentsExact
  <2>3. PICK u \in DOMAIN design.uhb[j] : n \in Roots(j, u)
    BY <2>2
  <2>4. IsLocal(n) \/ InGraph(idx, n) \/ IsMem(i, n)
    <3> SUFFICES ASSUME ~ IsLocal(n), ~ InGraph(idx, n), ~ IsMem(i, n)
                 PROVE  FALSE
      OBVIOUS
    <3>1. PICK k \in 1 .. idx : \E v \in DOMAIN design.uhb[k] : n \in design.uhb[k][v]
      BY <1>2, <1>7 DEF PathsKnown
    <3>2. PICK v \in DOMAIN design.uhb[k] : n \in design.uhb[k][v]
      BY <3>1
    <3>3. k \in Instns /\ k < idx
      <4>1. k # idx
        BY <3>2 DEF InGraph
      <4> QED
        BY <1>2, <4>1 DEF Staged
    <3>4. n \in Roots(k, v)
      BY <1>2, <2>3, <3>2, <3>3, RootOnPath
    <3>5. Dumped(k, v)
      BY <1>1, <3>3 DEF Dumped
    <3>6. it \in Dumpable(Roots(k, v))
      BY <1>6, <1>7, <3>4 DEF Dumpable
    <3>7. it \in visited
      BY <3>2, <3>3, <3>5, <3>6 DEF NamesInv
    <3> QED
      BY <1>6, <3>7
  <2> QED
    BY <1>2, <1>7, <2>3, <2>4, InterNamed
<1>8. ASSUME OneAnswer, PathsKnown, NEW ax \in new
      PROVE  OnLevel(ax.of.i1, ax.n1) /\ OnLevel(ax.of.i2, ax.n2)
  <2>1. CASE ax \in SpatialAxioms(spatial)
    <3>1. /\ ax.of \in spatial
          /\ ax.n1 = SpatialName(ax.of, ax.of.l1) /\ ax.n2 = SpatialName(ax.of, ax.of.l2)
      BY <2>1, SpatialAxiom
    <3>2. PICK p \in roots : ax.of \in Spatial(p)
      BY <1>5, <3>1
    <3> QED
      BY <1>2, <3>1, <3>2, SpatialNamed DEF roots
  <2>2. CASE ax \in InterAxioms(idx, inter)
    <3>1. PICK it \in inter : it = ax.of /\ ax.n1 = InterName(idx, it.l1) /\ ax.n2 = InterName(idx, it.l2)
      BY <2>2, InterAxiom
    <3>2. /\ it.i1 \in Instns /\ \E t \in DOMAIN design.uhb[it.i1] : it.l1 \in design.uhb[it.i1][t]
          /\ it.i2 \in Instns /\ \E t \in DOMAIN design.uhb[it.i2] : it.l2 \in design.uhb[it.i2][t]
      BY <1>2, <1>6, <1>8, OrderOnPaths DEF PathsKnown
    <3>3. OnLevel(it.i1, InterName(idx, it.l1))
      BY <1>7, <1>8, <3>2
    <3>4. OnLevel(it.i2, InterName(idx, it.l2))
      BY <1>7, <1>8, <3>2
    <3> QED
      BY <3>1, <3>3, <3>4
  <2> QED
    BY <1>8, <2>1, <2>2
<1> HIDE DEF new
<1>9. \A i, t : Roots(i, t)' = Roots(i, t) /\ Dumpable(Roots(i, t))' = Dumpable(Roots(i, t))
  BY <1>1 DEF Roots, Dumpable
<1>10. \A i, name : OnLevel(i, name)' <=> OnLevel(i, name)
  BY <1>1, <1>9 DEF OnLevel, Instns, Level, SharedArray, IsLocal, IsMem
<1>11. (OneAnswer' <=> OneAnswer) /\ (PathsKnown' <=> PathsKnown)
  BY <1>1, OneAnswerFrame DEF PathsKnown, PlacesKnown, IsLocal, IsMem, InGraph, DownPool, Instns
<1>12. OneAnswer' /\ PathsKnown' => \A ax \in axioms' : OnLevel(ax.of.i1, ax.n1)' /\ OnLevel(ax.of.i2, ax.n2)'
  BY <1>1, <1>8, <1>10, <1>11 DEF NamesInv
<1>13. \A i : Path(i)' = Path(i) /\ (IntraDumped(i)' <=> IntraDumped(i))
  BY <1>1, <1>9 DEF Path, Level, SharedArray, IsLocal, IsMem, IntraDumped
<1>14. \A i \in Instns' : IntraDumped(i)' =>
         \A e \in Path(i)' : <<i, e>> \in edges' /\ {e[1], e[2]} \subseteq stage_name'
  BY <1>1, <1>13 DEF NamesInv, Instns
<1>15. \A i \in Instns' : \A t \in DOMAIN design'.uhb[i] : Dumped(i, t)' => Dumpable(Roots(i, t))' \subseteq visited'
  <2>1. visited \subseteq visited'
    BY <1>1
  <2>2. \A i \in Instns : \A t \in DOMAIN design.uhb[i] : Dumped(i, t)' => Dumpable(Roots(i, t)) \subseteq visited'
    BY <1>3, <1>4, <2>1 DEF NamesInv, roots
  <2> QED
    BY <1>1, <1>9, <2>2 DEF Instns
<1>16. /\ shared_resource'.ws \subseteq {ax.n1 : ax \in axioms'}
       /\ shared_resource'.rf \subseteq {<<ax.n1, ax.n2>> : ax \in axioms'}
  BY <1>1 DEF NamesInv
<1> QED
  BY <1>1, <1>12, <1>14, <1>15, <1>16 DEF NamesInv

(* The invariant of names is inductive.                                    *)
LEMMA NamesStep == MergeInv /\ DumpTypeInv /\ NamesInv /\ [Next]_gvars => NamesInv'
<1> SUFFICES ASSUME MergeInv, DumpTypeInv, NamesInv, [Next]_gvars PROVE NamesInv'
  OBVIOUS
<1>1. CASE Merge
  <2>1. /\ UNCHANGED <<design, res, visited, axioms, shared_resource>>
        /\ phase \in {"stage", "pairs"} /\ phase' \notin {"header", "done"} /\ (phase' = "dump" => idx' = 1)
    BY <1>1 DEF Merge, MergeNext, Stage, TryMerge, MergeAbort, EndStage, NextInstn
  <2>2. axioms' = {} /\ shared_resource' = [ws |-> {}, rf |-> {}]
    BY <2>1 DEF DumpTypeInv
  <2>3. \A i \in Instns' : \A t \in DOMAIN design'.uhb[i] : ~ Dumped(i, t)'
    BY <1>1, <2>1, DumpedNext DEF Instns
  <2>4. \A i \in Instns' : ~ IntraDumped(i)'
    <3>1. Instns' = 1 .. Len(design.uhb)
      BY <2>1, DesignGood DEF Instns, Staged, MergeInv
    <3> QED
      BY <2>1, <3>1 DEF IntraDumped
  <2> QED
    BY <2>1, <2>2, <2>3, <2>4 DEF NamesInv
<1>2. CASE DumpStage
  BY <1>2, NamesStage
<1>3. ASSUME UNCHANGED <<design, res, sets, all_uhb_parents, visited, axioms, shared_resource>>,
             \A i \in Instns : \A t \in DOMAIN design.uhb[i] : Dumped(i, t)' => Dumped(i, t),
             \A i \in Instns : IntraDumped(i)' =>
               \A e \in Path(i) : <<i, e>> \in edges' /\ {e[1], e[2]} \subseteq stage_name',
             phase' = "done" => inferred' = HeaderAxioms
      PROVE  NamesInv'
  <2>1. \A i, t : Roots(i, t)' = Roots(i, t) /\ Dumpable(Roots(i, t))' = Dumpable(Roots(i, t))
    BY <1>3 DEF Roots, Dumpable
  <2>2. \A i, name : OnLevel(i, name)' <=> OnLevel(i, name)
    BY <1>3, <2>1 DEF OnLevel, Instns, Level, SharedArray, IsLocal, IsMem
  <2>3. (OneAnswer' <=> OneAnswer) /\ (PathsKnown' <=> PathsKnown)
    BY <1>3, OneAnswerFrame DEF PathsKnown, PlacesKnown, IsLocal, IsMem, InGraph, DownPool, Instns
  <2>4. \A i : Path(i)' = Path(i)
    BY <1>3, <2>1 DEF Path, Level, SharedArray, IsLocal, IsMem
  <2>5. HeaderAxioms' = HeaderAxioms
    BY <1>3 DEF HeaderAxioms
  <2>6. \A i \in Instns' : \A t \in DOMAIN design'.uhb[i] : Dumped(i, t)' => Dumpable(Roots(i, t))' \subseteq visited'
    BY <1>3, <2>1 DEF NamesInv, Instns
  <2>7. \A i \in Instns' : IntraDumped(i)' =>
          \A e \in Path(i)' : <<i, e>> \in edges' /\ {e[1], e[2]} \subseteq stage_name'
    BY <1>3, <2>4 DEF Instns
  <2>8. OneAnswer' /\ PathsKnown' => \A ax \in axioms' : OnLevel(ax.of.i1, ax.n1)' /\ OnLevel(ax.of.i2, ax.n2)'
    BY <1>3, <2>2, <2>3 DEF NamesInv
  <2> QED
    BY <1>3, <2>5, <2>6, <2>7, <2>8 DEF NamesInv
<1>4. CASE DumpIntra
  <2>1. /\ UNCHANGED <<design, res, sets, all_uhb_parents, visited, axioms, shared_resource>>
        /\ phase = "dump" /\ phase' # "done"
        /\ edges' = edges \cup {<<idx, e>> : e \in Path(idx)}
        /\ stage_name' = stage_name \cup UNION {{e[1], e[2]} : e \in Path(idx)}
        /\ IF idx < Len(design.uhb) THEN idx' = idx + 1 /\ phase' = phase ELSE phase' = "header"
    BY <1>4 DEF DumpIntra
  <2>2. Instns = 1 .. Len(design.uhb) /\ Len(design.uhb) \in Nat /\ idx \in Instns
    BY DesignGood DEF MergeInv, BaseInv, Staged
  <2>3. \A i \in Instns : IntraDumped(i)' => IntraDumped(i) \/ i = idx
    <3> SUFFICES ASSUME NEW i \in Instns, IntraDumped(i)' PROVE i < idx \/ i = idx
      BY <2>1 DEF IntraDumped
    <3> QED
      BY <2>1, <2>2 DEF IntraDumped
  <2>4. ASSUME NEW i \in Instns, IntraDumped(i)', NEW e \in Path(i)
        PROVE  <<i, e>> \in edges' /\ {e[1], e[2]} \subseteq stage_name'
    <3>1. CASE IntraDumped(i)
      BY <2>1, <2>4, <3>1 DEF NamesInv
    <3>2. CASE i = idx
      BY <2>1, <2>4, <3>2
    <3> QED
      BY <2>3, <2>4, <3>1, <3>2
  <2> QED
    BY <1>3, <1>4, <2>1, <2>4, DumpedNext
<1>5. CASE Header
  <2>1. /\ UNCHANGED <<design, res, sets, all_uhb_parents, visited, axioms, shared_resource, edges, stage_name>>
        /\ inferred' = HeaderAxioms /\ phase = "header"
    BY <1>5 DEF Header, HeaderAxioms
  <2>2. \A i \in Instns : IntraDumped(i)
    BY <2>1 DEF IntraDumped
  <2> QED
    BY <1>3, <1>5, <2>1, <2>2, DumpedNext DEF NamesInv
<1>6. CASE UNCHANGED gvars
  <2>1. UNCHANGED <<design, res, phase, idx, dep, sets, all_uhb_parents, visited, axioms, shared_resource,
                    inferred, edges, stage_name>>
    BY <1>6 DEF gvars, mvars
  <2>2. \A i, t : Dumped(i, t)' <=> Dumped(i, t)
    BY <2>1 DEF Dumped
  <2>3. \A i : IntraDumped(i)' <=> IntraDumped(i)
    BY <2>1 DEF IntraDumped
  <2>4. phase' = "done" => inferred' = HeaderAxioms
    BY <2>1 DEF NamesInv
  <2>5. \A i \in Instns : IntraDumped(i)' =>
          \A e \in Path(i) : <<i, e>> \in edges' /\ {e[1], e[2]} \subseteq stage_name'
    BY <2>1, <2>3 DEF NamesInv
  <2> QED
    BY <1>3, <2>1, <2>2, <2>4, <2>5
<1> QED
  BY <1>1, <1>2, <1>4, <1>5, <1>6 DEF Next

(* The dump keeps it.                                                      *)
LEMMA NamesInvariant == Spec => []NamesInv
<1>1. Init => NamesInv
  BY DEF Init, NamesInv, MergeInit, Dumped, IntraDumped
<1> QED
  BY <1>1, NamesStep, DumpTypeInvariant, MergeInvariant, PTL DEF Spec

(* A name on a level of a path is at an end of an edge of the path.        *)
LEMMA LevelOnPath ==
  ASSUME SetsInv, Staged, NEW i \in Instns, NEW t \in DOMAIN design.uhb[i], NEW name \in Level(i, t)
  PROVE  \E e \in Path(i) : e[2] = name
<1>1. Len(design.uhb[i]) \in Nat /\ t \in 1 .. Len(design.uhb[i]) /\ \A u \in DOMAIN design.uhb[i] : design.uhb[i][u] # {}
      /\ DOMAIN design.uhb[i] = 1 .. Len(design.uhb[i])
  BY DEF Staged
<1>2. t - 1 \in 0 .. Len(design.uhb[i]) - 1 /\ (t - 1) + 1 = t
  BY <1>1
<1>3. Level(i, t - 1) # {}
  <2>1. CASE t - 1 = 0
    BY <2>1 DEF Level
  <2>2. CASE t - 1 # 0
    <3>1. t - 1 \in DOMAIN design.uhb[i]
      BY <1>1, <2>2
    <3>2. PICK n : n \in design.uhb[i][t - 1]
      BY <1>1, <3>1
    <3>3. sets[i][t - 1][n] \in Roots(i, t - 1)
      BY <3>1, <3>2 DEF Roots, SetsInv
    <3> QED
      BY <2>2, <3>3 DEF Level
  <2> QED
    BY <2>1, <2>2
<1>4. PICK x : x \in Level(i, t - 1)
  BY <1>3
<1>5. <<x, name>> \in Level(i, t - 1) \X Level(i, (t - 1) + 1)
  BY <1>2, <1>4
<1>6. <<x, name>> \in Path(i)
  BY <1>2, <1>5 DEF Path
<1> QED
  BY <1>6

(* Orders are imposed on instructions whose own paths have the nodes, and  *)
(* whatever is said is said of declared nodes: if compare_prop has one     *)
(* answer and the paths are known to the instructions.                     *)
THEOREM PathsFollowed == Spec => [](PathsKnown => AxiomsFollowPaths)
<1>1. MergeInv /\ NamesInv => (PathsKnown => AxiomsFollowPaths)
  <2> SUFFICES ASSUME MergeInv, NamesInv, PathsKnown, phase = "done", OneAnswer
               PROVE  DeclaredStages /\ \A ax \in axioms : OnPath(ax.of.i1, ax.n1) /\ OnPath(ax.of.i2, ax.n2)
    BY DEF AxiomsFollowPaths
  <2>1. SetsInv /\ Staged
    BY DesignGood DEF MergeInv
  <2>2. \A i \in Instns : IntraDumped(i)
    BY DEF IntraDumped
  <2>3. ASSUME NEW i, NEW name, OnLevel(i, name)
        PROVE  name \in stage_name /\ OnPath(i, name)
    <3>1. PICK t \in DOMAIN design.uhb[i] : i \in Instns /\ name \in Level(i, t)
      BY <2>3 DEF OnLevel
    <3>2. PICK e \in Path(i) : e[2] = name
      BY <2>1, <3>1, LevelOnPath
    <3>3. <<i, e>> \in edges /\ {e[1], e[2]} \subseteq stage_name
      BY <2>2, <3>1, <3>2 DEF NamesInv
    <3>4. <<i, e>>[1] = i /\ name = <<i, e>>[2][2]
      BY <3>2
    <3> QED
      BY <3>2, <3>3, <3>4 DEF OnPath
  <2>4. \A ax \in axioms : /\ OnPath(ax.of.i1, ax.n1) /\ OnPath(ax.of.i2, ax.n2)
                           /\ ax.n1 \in stage_name /\ ax.n2 \in stage_name
    BY <2>3 DEF NamesInv
  <2>5. \A k \in shared_resource.ws : k \in stage_name
    BY <2>4 DEF NamesInv
  <2>6. \A q \in shared_resource.rf : q[1] \in stage_name /\ q[2] \in stage_name
    BY <2>4 DEF NamesInv
  <2>7. inferred = HeaderAxioms
    BY DEF NamesInv
  <2>8. \A ax \in inferred : ax.n1 \in stage_name /\ ax.n2 \in stage_name
    BY <2>5, <2>6, <2>7 DEF HeaderAxioms, Fr
  <2>9. DeclaredStages
    BY <2>4, <2>8 DEF DeclaredStages
  <2> QED
    BY <2>4, <2>9
<1> QED
  BY <1>1, NamesInvariant, MergeInvariant, PTL

-----------------------------------------------------------------------------
(* Verdicts.  What the generated model says of a merged node is what the   *)
(* checker has said of its members, and all of it.                         *)

(* Every axiom is of an order that holds; and every order that has had its *)
(* turn, holds, and is not a flow from a local array has left an axiom.    *)
Kept(it) == Holds(it) /\ (it.type = "data" => ~ IsLocal(it.l1))
AxiomsInv ==
  /\ \A ax \in axioms : Holds(ax.of)
  /\ \A it \in visited : Kept(it) => \E ax \in axioms : ax.of = it

(* The memory a data flow starts from is taken for one by every            *)
(* instruction, so uspec_dump_inter emits it.                              *)
LEMMA FlowName ==
  ASSUME Staged, MemoriesKnown, DOMAIN res = Orders!Items, NEW it \in DOMAIN res, it.type = "data", ~ IsLocal(it.l1),
         NEW k \in Instns
  PROVE  InterName(k, it.l1)[1] = "0"
<1>1. PICK b \in BOOLEAN : InterName(k, it.l1) = Name(it.l1, b) /\ (b <=> ~ IsLocal(it.l1) /\ TakenForMem(k, it.l1))
  BY NameArguments
<1>2. PICK i \in Instns : it.l1 \in DOMAIN design.loc[i]
  BY FlowShape
<1>3. TakenForMem(k, it.l1)
  BY <1>2 DEF TakenForMem, InGraph, IsMem, MemoriesKnown
<1> QED
  BY <1>1, <1>3, NameFacts

(* Dumping a stage leaves an axiom for each order that should have one.    *)
LEMMA AxiomsStage ==
  ASSUME MergeInv, AxiomsInv, DumpStage
  PROVE  AxiomsInv'
<1> DEFINE roots   == Roots(idx, dep)
           spatial == (UNION {Spatial(p) : p \in roots}) \ visited
           inter   == Dumpable(roots) \ visited
           new     == SpatialAxioms(spatial) \cup InterAxioms(idx, inter)
<1>1. /\ visited' = visited \cup spatial \cup inter
      /\ axioms' = axioms \cup new
      /\ UNCHANGED <<design, res>>
  BY DEF DumpStage
<1>2. Staged /\ MemoriesKnown /\ DOMAIN res = Orders!Items /\ idx \in Instns
  BY DesignGood DEF MergeInv, BaseInv
<1>3. \A it \in inter : it \in DOMAIN res
  BY DEF Dumpable
<1> HIDE DEF roots, spatial, inter
<1>4. \A ax \in new : Holds(ax.of)
  BY SpatialAxiom, InterAxiom
<1>5. ASSUME NEW it \in spatial, Kept(it) PROVE \E ax \in new : ax.of = it
  <2> DEFINE ax == Axiom(it, SpatialName(it, it.l1), SpatialName(it, it.l2))
  <2>1. ax \in new
    BY <1>5 DEF Kept, SpatialAxioms
  <2>2. ax.of = it
    BY DEF Axiom
  <2> QED
    BY <2>1, <2>2
<1>6. ASSUME NEW it \in inter, Kept(it) PROVE \E ax \in new : ax.of = it
  <2> DEFINE ax == Axiom(it, InterName(idx, it.l1), InterName(idx, it.l2))
  <2>1. ax.of = it /\ ax.n1 = InterName(idx, it.l1)
    BY DEF Axiom
  <2>2. ax.of.type = "data" => ax.n1[1] = "0"
    BY <1>2, <1>3, <1>6, <2>1, FlowName DEF Kept
  <2>3. ax \in {Axiom(o, InterName(idx, o.l1), InterName(idx, o.l2)) : o \in {x \in inter : Holds(x)}}
    BY <1>6 DEF Kept
  <2> HIDE DEF ax
  <2>4. ax \in new
    BY <2>2, <2>3 DEF InterAxioms
  <2> QED
    BY <2>1, <2>4
<1> HIDE DEF new
<1>7. \A it : (Holds(it)' <=> Holds(it)) /\ (Kept(it)' <=> Kept(it))
  BY <1>1 DEF Kept, Holds, Orders!Inferred, IsLocal
<1>8. \A ax \in axioms' : Holds(ax.of)'
  BY <1>1, <1>4, <1>7 DEF AxiomsInv
<1>9. \A it \in visited' : Kept(it)' => \E ax \in axioms' : ax.of = it
  BY <1>1, <1>5, <1>6, <1>7 DEF AxiomsInv
<1> QED
  BY <1>8, <1>9 DEF AxiomsInv

(* No other step leaves or loses any.                                      *)
LEMMA AxiomsInvariant == Spec => []AxiomsInv
<1>1. Init => AxiomsInv
  BY DEF Init, AxiomsInv
<1>2. MergeInv /\ AxiomsInv /\ [Next]_gvars => AxiomsInv'
  <2> SUFFICES ASSUME MergeInv, AxiomsInv, [Next]_gvars PROVE AxiomsInv'
    OBVIOUS
  <2>1. CASE DumpStage
    BY <2>1, AxiomsStage
  <2>2. CASE ~ DumpStage
    <3>1. UNCHANGED <<design, res, visited, axioms>>
      BY <2>2 DEF Next, Merge, MergeNext, Stage, TryMerge, MergeAbort, EndStage, NextInstn, DumpIntra, Header, gvars, mvars
    <3>2. \A it : (Holds(it)' <=> Holds(it)) /\ (Kept(it)' <=> Kept(it))
      BY <3>1 DEF Kept, Holds, Orders!Inferred, IsLocal
    <3> QED
      BY <3>1, <3>2 DEF AxiomsInv
  <2> QED
    BY <2>1, <2>2
<1> QED
  BY <1>1, <1>2, MergeInvariant, PTL DEF Spec

(* An order has one verdict, whatever file asserts it; and of two nodes    *)
(* that could be merged, an inferred order for the one is an inferred      *)
(* order for the other.                                                    *)
OneVerdict ==
  \A o1, o2 \in DOMAIN res :
    o1.type = o2.type /\ SameInstns(o1, o2) /\ o1.l1 = o2.l1 /\ o1.l2 = o2.l2 => res[o1] = res[o2]
ArraysApart ==
  \A i \in Instns : \A t \in DOMAIN design.uhb[i] : \A n1, n2 \in design.uhb[i][t] :
    /\ SameHolders(n1, n2) /\ SharedArray(i, n1) = SharedArray(i, n2)
    /\ ~ Observes(n1) /\ ~ Observes(n2)
    => IsMem(i, n1) = IsMem(i, n2)

(* Nodes that share a set are one or alike.                                *)
LEMMA TogetherLike ==
  ASSUME SetsInv, ClassInv, NEW n, NEW m, Together(n, m)
  PROVE  Like(n, m)
<1>1. PICK i \in Instns : \E t \in DOMAIN sets[i] : {n, m} \subseteq DOMAIN sets[i][t] /\ sets[i][t][n] = sets[i][t][m]
  BY DEF Together
<1>2. PICK t \in DOMAIN sets[i] : {n, m} \subseteq DOMAIN sets[i][t] /\ sets[i][t][n] = sets[i][t][m]
  BY <1>1
<1>3. t \in DOMAIN design.uhb[i] /\ n \in design.uhb[i][t] /\ m \in design.uhb[i][t]
  BY <1>2 DEF SetsInv
<1> QED
  BY <1>2, <1>3 DEF ClassInv

(* An order of two updates of a node that is alike: the same verdict, or   *)
(* inferred as well.                                                       *)
LEMMA SpatialMember ==
  ASSUME Staged, OneStage, DOMAIN res = Orders!Items, ArraysApart,
         NEW n, NEW m, Like(n, m), NEW o \in Spatial(n), NEW it \in Spatial(m), SameInstns(o, it), Holds(o)
  PROVE  Holds(it)
<1>1. CASE n = m
  <2>1. o \in Spatial(m)
    BY <1>1
  <2>2. o = it
    BY <2>1, SpatialUnique
  <2> QED
    BY <2>2
<1>2. CASE Alike(n, m) /\ ~ Orders!Inferred(o)
  <2>1. PICK it2 \in Spatial(m) : SameInstns(o, it2) /\ res[o] = res[it2]
    BY <1>2 DEF Alike, SpatialMatch
  <2>2. SameInstns(it2, it)
    BY <2>1 DEF SameInstns
  <2>3. it2 = it
    BY <2>2, SpatialUnique
  <2> QED
    BY <1>2, <2>1, <2>3 DEF Holds
<1>3. CASE Alike(n, m) /\ Orders!Inferred(o)
  <2>1. PICK i \in Instns, j \in Instns : \E t \in DOMAIN design.uhb[i] \cap DOMAIN design.uhb[j] :
          n \in design.uhb[i][t] \cap design.uhb[j][t] /\ o = SpatialItem(i, j, t, n)
    BY SpatialShape
  <2>2. PICK t \in (DOMAIN design.uhb[i]) \cap (DOMAIN design.uhb[j]) :
          n \in design.uhb[i][t] \cap design.uhb[j][t] /\ o = SpatialItem(i, j, t, n)
    BY <2>1
  <2>3. IsMem(i, n)
    BY <1>3, <2>2 DEF SpatialItem, Orders!Inferred, Orders!Item, Orders!IsMem, IsMem
  <2>4. m \in design.uhb[i][t] /\ SameHolders(n, m) /\ SharedArray(i, n) = SharedArray(i, m)
    BY <1>3, <2>2 DEF Alike, Peers, SameHolders
  <2>5. IsMem(i, m)
    BY <1>3, <2>2, <2>3, <2>4 DEF ArraysApart, Alike
  <2>6. PICK k \in Instns, l \in Instns : \E u \in DOMAIN design.uhb[k] \cap DOMAIN design.uhb[l] : it = SpatialItem(k, l, u, m)
    BY SpatialShape
  <2>7. PICK u : it = SpatialItem(k, l, u, m)
    BY <2>6
  <2>8. k = i
    BY <2>2, <2>7, SpatialFields DEF SameInstns
  <2>9. Orders!Inferred(it)
    BY <2>5, <2>7, <2>8 DEF SpatialItem, Orders!Inferred, Orders!Item, Orders!IsMem, IsMem
  <2> QED
    BY <2>9 DEF Holds
<1> QED
  BY <1>1, <1>2, <1>3 DEF Like

(* Of an order with an end that has been merged, the file is that of the   *)
(* stage.                                                                  *)
LEMMA TemporalMember ==
  ASSUME Staged, OneStage, DOMAIN res = Orders!Items, PcrInv, OneVerdict,
         NEW o \in DOMAIN res, NEW it \in DOMAIN res, o.type = "temporal", it.type = "temporal", SameInstns(o, it),
         Like(it.l1, o.l1), Like(it.l2, o.l2)
  PROVE  res[it] = res[o]
<1>1. CASE it.l1 = o.l1 /\ it.l2 = o.l2
  <2>1. SameInstns(it, o)
    BY DEF SameInstns
  <2> QED
    BY <1>1, <2>1 DEF OneVerdict
<1>2. ASSUME NEW n \in {it.l1, it.l2}, NEW m \in {o.l1, o.l2}, Alike(n, m) PROVE res[it] = res[o]
  <2>1. it \in Temporal(n) /\ o \in Temporal(m)
    BY <1>2 DEF Temporal
  <2>2. OfStage(it) /\ OfStage(o)
    BY <1>2, <2>1, PlainOrders DEF Alike
  <2>3. SameInstns(it, o)
    BY DEF SameInstns
  <2>4. it.file = o.file /\ it.file[1] = "pcr"
    BY <1>2, <2>2, <2>3, OneFile DEF Alike, Peers
  <2> QED
    BY <2>4 DEF PcrInv
<1> QED
  BY <1>1, <1>2 DEF Like

(* A merged node stands for its members: an axiom about it is proven, or   *)
(* inferred, for every two members, so for every member the checker was    *)
(* asked about, although only the orders of the root are dumped.  It needs *)
(* verdicts that do not contradict each other, and no register merged with *)
(* an array of the same core.                                              *)
THEOREM AxiomsForMembers == Spec => [](OneVerdict /\ ArraysApart => AxiomsHoldForMembers)
<1>1. MergeInv /\ ClassInv /\ PcrInv /\ DumpTypeInv /\ ReadInv /\ AxiomsInv
        => (OneVerdict /\ ArraysApart => AxiomsHoldForMembers)
  <2> SUFFICES ASSUME MergeInv, ClassInv, PcrInv, DumpTypeInv, ReadInv, AxiomsInv, OneVerdict, ArraysApart,
                      NEW ax \in axioms, NEW it \in DOMAIN res,
                      it.type = ax.of.type, it.i1 = ax.of.i1, it.i2 = ax.of.i2,
                      Together(it.l1, ax.of.l1), Together(it.l2, ax.of.l2)
               PROVE  Holds(it)
    BY DEF AxiomsHoldForMembers, Holds
  <2>1. Staged /\ OneStage /\ DOMAIN res = Orders!Items /\ SetsInv
    BY DesignGood DEF MergeInv, BaseInv
  <2>2. PICK o : o = ax.of
    OBVIOUS
  <2>3. o \in DOMAIN res /\ Holds(o)
    BY <2>2 DEF DumpTypeInv, AxiomsInv
  <2>4. o.type = it.type /\ SameInstns(o, it) /\ Like(it.l1, o.l1) /\ Like(it.l2, o.l2)
    BY <2>1, <2>2, TogetherLike DEF SameInstns
  <2>5. CASE it.type = "spatial"
    <3>1. o \in Spatial(o.l1) /\ it \in Spatial(it.l1)
      BY <2>1, <2>3, <2>4, <2>5, SpatialEnds
    <3>2. Like(o.l1, it.l1)
      BY <2>1, <2>4, LikeEquivalence
    <3> QED
      BY <2>1, <2>3, <2>4, <3>1, <3>2, SpatialMember
  <2>6. ASSUME it.type # "spatial", res[it] = res[o] PROVE Holds(it)
    <3>1. ~ Orders!Inferred(o)
      <4>1. OfStage(o) \/ OfAccess(o) \/ OfFlow(o)
        <5>1. ~ OfElement(o)
          BY <2>4, <2>6, SpatialFields DEF OfElement
        <5> QED
          BY <2>1, <2>3, <5>1, ItemShapes
      <4>2. o.file[1] # "inferred"
        BY <4>1 DEF OfStage, OfAccess, OfFlow, Orders!Item
      <4> QED
        BY <4>2 DEF Orders!Inferred
    <3> QED
      BY <2>3, <2>6, <3>1 DEF Holds
  <2>7. CASE it.type = "temporal"
    BY <2>1, <2>3, <2>4, <2>6, <2>7, TemporalMember
  <2>8. CASE it.type = "data"
    <3>1. ~ IsLocal(o.l1)
      BY <2>2, <2>4, <2>8 DEF ReadInv, ReadFrom
    <3>2. Observes(o.l1) /\ Observes(o.l2)
      BY <2>1, <2>3, <2>4, <2>8, <3>1, DataShape
    <3>3. it.l1 = o.l1 /\ it.l2 = o.l2
      BY <2>4, <3>2 DEF Like, Alike
    <3>4. SameInstns(it, o)
      BY <2>4 DEF SameInstns
    <3>5. res[it] = res[o]
      BY <2>3, <2>4, <3>3, <3>4 DEF OneVerdict
    <3> QED
      BY <2>6, <2>8, <3>5
  <2>9. it.type \in {"spatial", "temporal", "data"}
    <3>1. OfElement(it) \/ OfStage(it) \/ OfAccess(it) \/ OfFlow(it)
      BY <2>1, ItemShapes
    <3> QED
      BY <3>1, SpatialFields DEF OfElement, OfStage, OfAccess, OfFlow, Orders!Item
  <2> QED
    BY <2>5, <2>7, <2>8, <2>9
<1> QED
  BY <1>1, MergeInvariant, ClassInvariant, PcrInvariant, DumpTypeInvariant, ReadInvariant, AxiomsInvariant, PTL

(* What a node has become: a representative of its stage, collected and    *)
(* like it.                                                                *)
LEMMA BecomesRoot ==
  ASSUME SetsInv, ClassInv, RootsKept, NEW i \in Instns, NEW t \in DOMAIN design.uhb[i], Collected(i, t),
         NEW n \in design.uhb[i][t], NEW a, a = sets[i][t][n]
  PROVE  /\ a \in design.uhb[i][t] /\ a \in Roots(i, t) /\ a \in all_uhb_parents
         /\ a \in NodeOf(i, n) /\ Like(n, a)
<1>1. DOMAIN sets = Instns /\ DOMAIN sets[i] = DOMAIN design.uhb[i] /\ DOMAIN sets[i][t] = design.uhb[i][t]
  BY DEF SetsInv
<1>2. a \in design.uhb[i][t] /\ sets[i][t][a] = a
  BY DEF SetsInv
<1>3. a \in Roots(i, t)
  BY <1>1 DEF Roots
<1>4. a \in NodeOf(i, n)
  BY <1>1 DEF NodeOf
<1>5. Like(n, a)
  BY <1>2 DEF ClassInv
<1> QED
  BY <1>2, <1>3, <1>4, <1>5 DEF RootsKept

(* An order of one node: that of the representative for the same           *)
(* instructions.                                                           *)
LEMMA SpatialKept ==
  ASSUME MergeInv, ClassInv, ReadInv, phase = "done", NEW n, NEW it \in Spatial(n), res[it] = "proven"
  PROVE  \E o \in visited : /\ Holds(o) /\ o.type = it.type /\ SameInstns(o, it)
                            /\ o.l1 \in NodeOf(it.i1, it.l1) /\ o.l2 \in NodeOf(it.i2, it.l2)
<1>1. Staged /\ OneStage /\ DOMAIN res = Orders!Items /\ SetsInv /\ RootsKept
  BY DesignGood DEF MergeInv, BaseInv
<1>2. PICK i \in Instns, j \in Instns : \E t \in DOMAIN design.uhb[i] \cap DOMAIN design.uhb[j] :
        n \in design.uhb[i][t] \cap design.uhb[j][t] /\ it = SpatialItem(i, j, t, n)
  BY <1>1, SpatialShape
<1>3. PICK t \in (DOMAIN design.uhb[i]) \cap (DOMAIN design.uhb[j]) :
        n \in design.uhb[i][t] \cap design.uhb[j][t] /\ it = SpatialItem(i, j, t, n)
  BY <1>2
<1>4. it.type = "spatial" /\ it.i1 = i /\ it.i2 = j /\ it.l1 = n /\ it.l2 = n
  BY <1>3, SpatialFields
<1>5. PICK a : a = sets[i][t][n]
  OBVIOUS
<1>6. a = sets[j][t][n]
  BY <1>1, <1>3, <1>5 DEF SetsInv
<1>7. Collected(i, t) /\ Collected(j, t) /\ Dumped(i, t)
  BY DEF Collected, Dumped
<1>8. a \in Roots(i, t) /\ a \in NodeOf(i, n) /\ Like(n, a)
  BY <1>1, <1>3, <1>5, <1>7, BecomesRoot
<1>9. a \in NodeOf(j, n)
  BY <1>1, <1>3, <1>6, <1>7, BecomesRoot
<1>10. PICK o \in Spatial(a) : SameInstns(it, o) /\ res[o] = "proven"
  <2>1. CASE n = a
    BY <2>1 DEF SameInstns
  <2>2. CASE SpatialMatch(n, a)
    BY <2>2 DEF SpatialMatch
  <2> QED
    BY <1>8, <2>1, <2>2 DEF Like, Alike
<1>11. o \in visited
  BY <1>7, <1>8, <1>10 DEF ReadInv
<1>12. o.type = "spatial" /\ o.l1 = a /\ o.l2 = a
  <2>1. o \in DOMAIN res /\ o.type = "spatial" /\ o.l1 = a
    BY <1>10 DEF Spatial
  <2> QED
    BY <1>1, <2>1, SpatialEnds
<1> QED
  BY <1>4, <1>8, <1>9, <1>10, <1>11, <1>12 DEF Holds, SameInstns

(* An order of two nodes of a stage: that of their representatives, which  *)
(* the same file asserts, if these are two; and otherwise the order of the *)
(* representative itself, which it asserts as well.                        *)
LEMMA StageKept ==
  ASSUME MergeInv, ClassInv, PcrInv, ReadInv, NamesInv, phase = "done",
         NEW it \in DOMAIN res, OfStage(it), res[it] = "proven"
  PROVE  \E o \in visited : /\ Holds(o) /\ SameInstns(o, it)
                            /\ o.l1 \in NodeOf(it.i1, it.l1) /\ o.l2 \in NodeOf(it.i2, it.l2)
                            /\ \/ o.type = "temporal"
                               \/ o.type = "spatial" /\ o.l1 = o.l2
<1>1. Staged /\ OneStage /\ DOMAIN res = Orders!Items /\ SetsInv /\ RootsKept
  BY DesignGood DEF MergeInv, BaseInv
<1>2. PICK i \in Instns, j \in Instns : \E t \in DOMAIN design.uhb[i] \cap DOMAIN design.uhb[j] :
        \E n1 \in design.uhb[i][t], n2 \in design.uhb[j][t] :
          /\ n1 # n2 /\ ~ SharedMem(i, n1) /\ ~ SharedMem(j, n2)
          /\ it = Orders!Item(<<"pcr", i, j, Orders!StagePcr(t)>>, "temporal", i, j, n1, n2, TRUE)
  BY DEF OfStage
<1>3. PICK t \in (DOMAIN design.uhb[i]) \cap (DOMAIN design.uhb[j]) :
        \E n1 \in design.uhb[i][t], n2 \in design.uhb[j][t] :
          /\ n1 # n2 /\ ~ SharedMem(i, n1) /\ ~ SharedMem(j, n2)
          /\ it = Orders!Item(<<"pcr", i, j, Orders!StagePcr(t)>>, "temporal", i, j, n1, n2, TRUE)
  BY <1>2
<1>4. PICK n1 \in design.uhb[i][t], n2 \in design.uhb[j][t] :
        /\ n1 # n2 /\ ~ SharedMem(i, n1) /\ ~ SharedMem(j, n2)
        /\ it = Orders!Item(<<"pcr", i, j, Orders!StagePcr(t)>>, "temporal", i, j, n1, n2, TRUE)
  BY <1>3
<1>5. /\ it.file = <<"pcr", i, j, Orders!StagePcr(t)>> /\ it.file[1] = "pcr"
      /\ it.i1 = i /\ it.i2 = j /\ it.l1 = n1 /\ it.l2 = n2
  BY <1>4 DEF Orders!Item
<1>6. PICK a, b : a = sets[i][t][n1] /\ b = sets[j][t][n2]
  OBVIOUS
<1>7. Collected(i, t) /\ Collected(j, t) /\ Dumped(i, t)
  BY DEF Collected, Dumped
<1>8. a \in design.uhb[i][t] /\ a \in Roots(i, t) /\ a \in all_uhb_parents /\ a \in NodeOf(i, n1) /\ Like(n1, a)
  BY <1>1, <1>4, <1>6, <1>7, BecomesRoot
<1>9. b \in design.uhb[j][t] /\ b \in all_uhb_parents /\ b \in NodeOf(j, n2) /\ Like(n2, b)
  BY <1>1, <1>4, <1>6, <1>7, BecomesRoot
<1>10. CASE a = b
  <2>1. PICK o : o = SpatialItem(i, j, t, a)
    OBVIOUS
  <2>2. o \in DOMAIN res
    BY <1>1, <1>8, <1>9, <1>10, <2>1, SpatialInItems
  <2>3. o.type = "spatial" /\ o.i1 = i /\ o.i2 = j /\ o.l1 = a /\ o.l2 = a
    BY <2>1, SpatialFields
  <2>4. o \in visited
    <3>1. o \in Spatial(a)
      BY <2>2, <2>3 DEF Spatial
    <3> QED
      BY <1>7, <1>8, <3>1 DEF ReadInv
  <2>5. Holds(o)
    <3>1. CASE Orders!IsMem(i, a)
      BY <2>1, <3>1 DEF SpatialItem, Orders!Item, Orders!Inferred, Holds
    <3>2. CASE ~ Orders!IsMem(i, a)
      <4>1. o.file = it.file
        BY <1>5, <2>1, <3>2 DEF SpatialItem, Orders!Item
      <4> QED
        BY <1>5, <2>2, <4>1 DEF PcrInv, Holds
    <3> QED
      BY <3>1, <3>2
  <2> QED
    BY <1>5, <1>8, <1>9, <1>10, <2>3, <2>4, <2>5 DEF SameInstns
<1>11. CASE a # b
  <2>1. PICK o : o = Orders!Item(<<"pcr", i, j, Orders!StagePcr(t)>>, "temporal", i, j, a, b, TRUE)
    OBVIOUS
  <2>2. o.file = it.file /\ o.type = "temporal" /\ o.i1 = i /\ o.i2 = j /\ o.l1 = a /\ o.l2 = b
    BY <1>5, <2>1 DEF Orders!Item
  <2>3. ~ SharedMem(i, a) /\ ~ SharedMem(j, b)
    <3>1. SharedArray(i, a) = SharedArray(i, n1)
      BY <1>4, <1>8 DEF Like, Alike, Peers
    <3>2. SharedArray(j, b) = SharedArray(j, n2)
      BY <1>4, <1>9 DEF Like, Alike, Peers
    <3> QED
      BY <1>4, <3>1, <3>2 DEF SharedArray, SharedMem
  <2>4. o \in DOMAIN res
    BY <1>1, <1>8, <1>9, <1>11, <2>1, <2>3, StageInItems
  <2>5. o \in visited
    <3>1. o \in Dumpable(Roots(i, t))
      BY <1>8, <1>9, <2>2, <2>4 DEF Dumpable
    <3> QED
      BY <1>7, <3>1 DEF NamesInv
  <2>6. Holds(o)
    BY <1>5, <2>2, <2>4 DEF PcrInv, Holds
  <2> QED
    BY <1>5, <1>8, <1>9, <2>2, <2>5, <2>6 DEF SameInstns
<1> QED
  BY <1>10, <1>11

(* An order of two nodes that observe accesses: it is dumped itself.       *)
LEMMA ObservedKept ==
  ASSUME MergeInv, ClassInv, NamesInv, PlacesKnown, phase = "done",
         NEW it \in DOMAIN res, it.type # "spatial", Observes(it.l1), Observes(it.l2)
  PROVE  it \in visited /\ it.l1 \in NodeOf(it.i1, it.l1) /\ it.l2 \in NodeOf(it.i2, it.l2)
<1>1. Staged /\ DOMAIN res = Orders!Items /\ SetsInv /\ RootsKept
  BY DesignGood DEF MergeInv, BaseInv
<1>2. it.i1 \in Instns /\ it.i2 \in Instns
  BY <1>1, OrderOnPaths
<1>3. PICK t \in DOMAIN design.uhb[it.i1] : it.l1 \in design.uhb[it.i1][t]
  BY <1>1, OrderOnPaths
<1>4. PICK u \in DOMAIN design.uhb[it.i2] : it.l2 \in design.uhb[it.i2][u]
  BY <1>1, OrderOnPaths
<1>5. sets[it.i1][t][it.l1] = it.l1 /\ sets[it.i2][u][it.l2] = it.l2
  BY <1>1, <1>2, <1>3, <1>4, LoneNode
<1>6. Collected(it.i1, t) /\ Collected(it.i2, u) /\ Dumped(it.i1, t)
  BY DEF Collected, Dumped
<1>7. it.l1 \in Roots(it.i1, t) /\ it.l1 \in all_uhb_parents /\ it.l1 \in NodeOf(it.i1, it.l1)
  BY <1>1, <1>2, <1>3, <1>5, <1>6, BecomesRoot
<1>8. it.l2 \in all_uhb_parents /\ it.l2 \in NodeOf(it.i2, it.l2)
  BY <1>1, <1>2, <1>4, <1>5, <1>6, BecomesRoot
<1>9. it \in Dumpable(Roots(it.i1, t))
  BY <1>7, <1>8 DEF Dumpable
<1> QED
  BY <1>2, <1>6, <1>7, <1>8, <1>9 DEF NamesInv

(* Merging loses no order: one that was proven between two nodes is an     *)
(* axiom about the nodes they have become, unless these are one whose own  *)
(* order says it.  It needs every place where an access is observed to be  *)
(* on the path of the instruction: one that is not is no node of any       *)
(* stage, and uspec_dump_inter leaves it out.                              *)
THEOREM OrdersKept == Spec => [](PlacesKnown => ProvenOrdersKept)
<1>1. MergeInv /\ ClassInv /\ PcrInv /\ ReadInv /\ NamesInv /\ AxiomsInv => (PlacesKnown => ProvenOrdersKept)
  <2> SUFFICES ASSUME MergeInv, ClassInv, PcrInv, ReadInv, NamesInv, AxiomsInv, PlacesKnown, phase = "done",
                      NEW it \in DOMAIN res, res[it] = "proven", ~ (it.type = "data" /\ it.samecore)
               PROVE  \E ax \in axioms :
                        /\ ax.of.i1 = it.i1 /\ ax.of.i2 = it.i2
                        /\ ax.of.l1 \in NodeOf(it.i1, it.l1) /\ ax.of.l2 \in NodeOf(it.i2, it.l2)
                        /\ ax.of.type = it.type \/ (it.type = "temporal" /\ ax.of.l1 = ax.of.l2)
    BY DEF ProvenOrdersKept
  <2> DEFINE Says(o) == /\ o.i1 = it.i1 /\ o.i2 = it.i2
                        /\ o.l1 \in NodeOf(it.i1, it.l1) /\ o.l2 \in NodeOf(it.i2, it.l2)
                        /\ o.type = it.type \/ (it.type = "temporal" /\ o.l1 = o.l2)
  <2>1. Staged /\ DOMAIN res = Orders!Items
    BY DesignGood DEF MergeInv, BaseInv
  <2>2. SUFFICES \E o \in visited : Kept(o) /\ Says(o)
    BY DEF AxiomsInv
  <2>3. CASE it.type = "spatial"
    <3>1. it \in Spatial(it.l1)
      BY <2>1, <2>3, SpatialEnds
    <3>2. PICK o \in visited : /\ Holds(o) /\ o.type = it.type /\ SameInstns(o, it)
                               /\ o.l1 \in NodeOf(it.i1, it.l1) /\ o.l2 \in NodeOf(it.i2, it.l2)
      BY <3>1, SpatialKept
    <3> QED
      BY <2>3, <3>2 DEF SameInstns, Kept
  <2>4. CASE OfStage(it)
    <3>1. it.type = "temporal"
      BY <2>4 DEF OfStage, Orders!Item
    <3>2. PICK o \in visited : /\ Holds(o) /\ SameInstns(o, it)
                               /\ o.l1 \in NodeOf(it.i1, it.l1) /\ o.l2 \in NodeOf(it.i2, it.l2)
                               /\ \/ o.type = "temporal"
                                  \/ o.type = "spatial" /\ o.l1 = o.l2
      BY <2>4, StageKept
    <3> QED
      BY <3>1, <3>2 DEF SameInstns, Kept
  <2>5. CASE it.type # "spatial" /\ Observes(it.l1) /\ Observes(it.l2)
    <3>1. it \in visited /\ Says(it)
      BY <2>5, ObservedKept
    <3>2. Kept(it)
      BY <2>1, DataShape DEF Kept, Holds
    <3> QED
      BY <3>1, <3>2
  <2>6. it.type \in {"spatial", "temporal", "data"}
    <3>1. OfElement(it) \/ OfStage(it) \/ OfAccess(it) \/ OfFlow(it)
      BY <2>1, ItemShapes
    <3> QED
      BY <3>1, SpatialFields DEF OfElement, OfStage, OfAccess, OfFlow, Orders!Item
  <2> QED
    BY <2>1, <2>3, <2>4, <2>5, <2>6, TemporalShape, DataShape
<1> QED
  BY <1>1, MergeInvariant, ClassInvariant, PcrInvariant, ReadInvariant, NamesInvariant, AxiomsInvariant, PTL
=============================================================================
