--------------------------- MODULE InterHbiProofs ---------------------------
(***************************************************************************)
(* Theorems about the inter-instruction hypotheses (InterHbi), for every   *)
(* set of designs and every number of executions of the pass.              *)
(***************************************************************************)
EXTENDS InterHbi, SequenceTheorems, FiniteSetTheorems, TLAPS

-----------------------------------------------------------------------------
(* Arithmetic of the loop over files, then over pairs of nodes.            *)

(* A product with a factor of at least one is at least the other factor.   *)
LEMMA Grows == ASSUME NEW n \in Nat, NEW q \in Int, q >= 1 PROVE n * q >= n
OBVIOUS

(* Quotient and remainder are unique.                                      *)
LEMMA DivUnique ==
  ASSUME NEW n \in Nat \ {0}, NEW q \in Int, NEW p \in Int,
         NEW r \in 0 .. n - 1, NEW s \in 0 .. n - 1, n * q + r = n * p + s
  PROVE  q = p /\ r = s
<1>1. n * (q - p) = s - r /\ n * (p - q) = r - s
  OBVIOUS
<1>2. ~ (q - p >= 1) /\ ~ (p - q >= 1)
  BY <1>1, Grows
<1> QED
  BY <1>1, <1>2

(* Quotient and remainder of a natural number.                             *)
LEMMA DivMod ==
  ASSUME NEW n \in Nat \ {0}, NEW a \in Nat
  PROVE  a \div n \in Nat /\ a % n \in 0 .. n - 1 /\ a = n * (a \div n) + (a % n)
OBVIOUS

(* A number below n * m has a quotient below m.                            *)
LEMMA DivBelow ==
  ASSUME NEW n \in Nat \ {0}, NEW m \in Nat, NEW a \in Nat, a < n * m
  PROVE  a \div n \in 0 .. m - 1
<1> DEFINE q == a \div n
<1>1. q \in Nat /\ a >= n * q
  BY DivMod
<1> HIDE DEF q
<1>2. ASSUME q >= m PROVE FALSE
  <2>1. n * (q - m) >= 0
    BY <1>1, <1>2
  <2> QED
    BY <1>1, <2>1
<1> QED
  BY <1>1, <1>2 DEF q

(* The position k of a hypothesis in the loop over three files and n pairs *)
(* of nodes; n positions further is the same pair, for the next file.      *)
LEMMA Position ==
  ASSUME NEW n \in Nat \ {0}, NEW k \in 1 .. 3 * n
  PROVE  /\ (k - 1) \div n \in 0 .. 2
         /\ (k - 1) % n \in 0 .. n - 1
         /\ (k - 1) \div n < 2 => /\ k + n \in 1 .. 3 * n
                                  /\ (k + n - 1) \div n = (k - 1) \div n + 1
                                  /\ (k + n - 1) % n = (k - 1) % n
<1> DEFINE q == (k - 1) \div n
           r == (k - 1) % n
<1>1. q \in Nat /\ r \in 0 .. n - 1 /\ k - 1 = n * q + r
  <2>1. k - 1 \in Nat
    OBVIOUS
  <2> QED
    BY <2>1, DivMod
<1>2. q \in 0 .. 2
  <2> DEFINE a == k - 1
  <2>1. a \in Nat /\ a < n * 3
    OBVIOUS
  <2> HIDE DEF a
  <2>2. a \div n \in 0 .. 3 - 1
    BY <2>1, DivBelow
  <2> QED
    BY <2>2 DEF a
<1>3. ASSUME q < 2 PROVE /\ k + n \in 1 .. 3 * n
                         /\ (k + n - 1) \div n = q + 1
                         /\ (k + n - 1) % n = r
  <2> DEFINE p == (k + n - 1) \div n
             s == (k + n - 1) % n
  <2>1. p \in Nat /\ s \in 0 .. n - 1 /\ k + n - 1 = n * p + s
    <3>1. k + n - 1 \in Nat
      OBVIOUS
    <3> QED
      BY <3>1, DivMod
  <2> HIDE DEF p, q, r, s
  <2>2. q \in {0, 1}
    BY <1>1, <1>3
  <2>3. n * (q + 1) = n * q + n
    BY <2>2
  <2>4. n * (q + 1) + r = n * p + s
    BY <1>1, <2>1, <2>3
  <2>5. q + 1 = p /\ r = s
    BY <1>1, <2>1, <2>4, DivUnique
  <2>6. k + n <= 3 * n
    BY <1>1, <2>2
  <2> QED
    BY <1>1, <2>5, <2>6 DEF p, s
<1> QED
  BY <1>1, <1>2, <1>3

(* The last position of a file.                                            *)
LEMMA LastPosition ==
  ASSUME NEW n \in Nat \ {0}, NEW q \in 0 .. 2
  PROVE  /\ (q + 1) * n \in 1 .. 3 * n
         /\ ((q + 1) * n - 1) \div n = q
<1> DEFINE a == (q + 1) * n - 1
<1>1. a \in Nat /\ a = n * q + (n - 1) /\ (q + 1) * n \in 1 .. 3 * n
  BY q \in {0, 1, 2}
<1>2. a \div n \in Nat /\ a % n \in 0 .. n - 1 /\ a = n * (a \div n) + (a % n)
  BY <1>1, DivMod
<1> HIDE DEF a
<1>3. q = a \div n
  BY <1>1, <1>2, DivUnique
<1> QED
  BY <1>1, <1>3 DEF a

-----------------------------------------------------------------------------
(* Sequences of hypotheses.                                                *)

(* A concatenation has the positions of both sequences, and their elements.*)
LEMMA ToSetConcat ==
  ASSUME NEW S, NEW s \in Seq(S), NEW t \in Seq(S)
  PROVE  /\ s \o t \in Seq(S) /\ Len(s \o t) = Len(s) + Len(t)
         /\ \A k \in 1 .. Len(s) : (s \o t)[k] = s[k]
         /\ \A k \in 1 .. Len(t) : (s \o t)[Len(s) + k] = t[k]
         /\ ToSet(s \o t) = ToSet(s) \cup ToSet(t)
<1>1. PICK u : u = s \o t
  OBVIOUS
<1>2. u \in Seq(S) /\ Len(u) = Len(s) + Len(t)
  BY <1>1, ConcatProperties
<1>3. /\ \A k \in 1 .. Len(s) : u[k] = s[k]
      /\ \A k \in 1 .. Len(t) : u[Len(s) + k] = t[k]
  BY <1>1, ConcatProperties
<1> DOMAIN s = 1 .. Len(s) /\ DOMAIN t = 1 .. Len(t) /\ DOMAIN u = 1 .. Len(u)
    /\ Len(s) \in Nat /\ Len(t) \in Nat
  BY <1>2, LenProperties
<1>4. \A k \in DOMAIN u : u[k] \in ToSet(s) \cup ToSet(t)
  <2> TAKE k \in DOMAIN u
  <2>1. CASE k <= Len(s)
    BY <1>2, <1>3, <2>1 DEF ToSet
  <2>2. CASE k > Len(s)
    <3>1. k - Len(s) \in 1 .. Len(t) /\ Len(s) + (k - Len(s)) = k
      BY <1>2, <2>2
    <3>2. u[k] = t[k - Len(s)]
      BY <1>3, <3>1
    <3> QED
      BY <3>1, <3>2 DEF ToSet
  <2> QED
    BY <1>2, <2>1, <2>2
<1>5. \A k \in DOMAIN s : k \in DOMAIN u /\ s[k] = u[k]
  BY <1>2, <1>3
<1>6. \A k \in DOMAIN t : Len(s) + k \in DOMAIN u /\ t[k] = u[Len(s) + k]
  BY <1>2, <1>3
<1>7. ToSet(u) = ToSet(s) \cup ToSet(t)
  BY ONLY <1>4, <1>5, <1>6 DEF ToSet
<1>8. ToSet(s \o t) = ToSet(u)
  BY <1>1
<1> QED
  BY ONLY <1>1, <1>2, <1>3, <1>7, <1>8

(* The elements of a sequence of one.                                      *)
LEMMA ToSetOne ==
  ASSUME NEW S, NEW e \in S
  PROVE  /\ <<e>> \in Seq(S) /\ Len(<<e>>) = 1 /\ <<e>>[1] = e
         /\ ToSet(<<e>>) = {e}
BY DEF ToSet

(* A function of positions is a sequence, whose last element is at its     *)
(* greatest position.                                                      *)
LEMMA SeqOfPositions ==
  ASSUME NEW S, NEW n \in Nat, NEW s \in [1 .. n -> S]
  PROVE  /\ s \in Seq(S) /\ Len(s) = n /\ DOMAIN s = 1 .. n
         /\ ToSet(s) = {s[k] : k \in 1 .. n}
         /\ Last(s) = s[n]
<1>1. s \in Seq(S) /\ DOMAIN s = 1 .. n
  BY IsASeq
<1>2. Len(s) = n
  BY <1>1, LenProperties
<1> QED
  BY <1>1, <1>2 DEF ToSet, Last

(* An order of a finite set that is not empty visits some of its elements. *)
LEMMA SetOrder ==
  ASSUME NEW P, IsFiniteSet(P), P # {}, NEW o \in SetToSeqs(P)
  PROVE  o \in Seq(P) /\ Len(o) \in Nat \ {0}
BY FS_CardinalityType, FS_EmptySet DEF SetToSeqs

-----------------------------------------------------------------------------
(* What DesignOK says of the design at hand.                               *)

(* There is an instruction type, each has a sequence of stages, and the    *)
(* nodes of a stage that two types have are state elements.                *)
LEMMA Stages ==
  ASSUME design \in Designs
  PROVE  /\ Len(design.uhb) \in Nat \ {0} /\ Instns = 1 .. Len(design.uhb)
         /\ \A i, j \in Instns : \A t \in 1 .. Depth(i, j) :
              /\ design.uhb[i][t] \subseteq Elements(design)
              /\ design.uhb[j][t] \subseteq Elements(design)
<1> DEFINE T == Seq((SUBSET Elements(design)) \ {{}})
<1>1. design.uhb \in Seq(T) /\ design.uhb # << >>
  BY DesignsAssumption DEF DesignOK
<1>2. Len(design.uhb) \in Nat \ {0} /\ Instns = 1 .. Len(design.uhb)
  BY <1>1, EmptySeq, LenProperties DEF Instns
<1>3. \A i \in Instns : design.uhb[i] \in T
  BY <1>1, <1>2, ElementOfSeq
<1>4. \A i \in Instns : \A t \in 1 .. Len(design.uhb[i]) : design.uhb[i][t] \subseteq Elements(design)
  BY <1>3, ElementOfSeq
<1>5. \A i, j \in Instns : 1 .. Depth(i, j) \subseteq 1 .. Len(design.uhb[i]) \cap 1 .. Len(design.uhb[j])
  <2> TAKE i, j \in Instns
  <2>1. Len(design.uhb[i]) \in Nat /\ Len(design.uhb[j]) \in Nat
    BY <1>3, LenProperties
  <2> QED
    BY <2>1 DEF Depth
<1> QED
  BY <1>2, <1>4, <1>5

(* A memory is a state element, and so are the nodes its accesses are      *)
(* observed at, of which there are finitely many and at least one.         *)
LEMMA Accesses ==
  ASSUME design \in Designs, NEW i \in Instns, NEW m \in DOMAIN design.loc[i],
         NEW a \in design.loc[i][m]
  PROVE  /\ m \in Elements(design)
         /\ design.down[i][m] \subseteq Elements(design)
         /\ DownPool(i, m, a) \subseteq Elements(design)
         /\ IsFiniteSet(DownPool(i, m, a)) /\ DownPool(i, m, a) # {}
<1>1. m \in Elements(design) /\ design.down[i][m] \subseteq Elements(design)
  BY DEF Elements, Instns
<1>2. IsFiniteSet(design.down[i][m]) /\ (~ a.write => design.down[i][m] # {})
  BY DesignsAssumption DEF DesignOK, Instns
<1>3. CASE a.write
  BY <1>1, <1>3, FS_Singleton DEF DownPool
<1>4. CASE ~ a.write
  BY <1>1, <1>2, <1>4 DEF DownPool
<1> QED
  BY <1>3, <1>4

-----------------------------------------------------------------------------
(* The inductive invariant.                                                *)

ControlInv ==
  /\ design \in Designs
  /\ phase \in {"spatial", "interface", "pipeline", "done", "abort"}
  /\ i1 \in Instns /\ i2 \in Instns
  /\ calls \in 1 .. MaxCalls
  /\ phase = "spatial" => todo \subseteq SpatialWork
  /\ phase = "interface" => todo \subseteq InterfaceWork
  /\ phase = "pipeline" => todo \subseteq PipelineWork

(* What the file of a hypothesis asserts is that hypothesis. *)
Answers(c, f) ==
  CASE c.type = "data" -> FlowAnswers(c, f)
    [] c.next # -1     -> AccessAnswers(c, f)
    [] OTHER           -> PcrAnswers(c, f)

(* In the first execution every hypothesis is answered by its file; in the *)
(* following ones, where the file of a PC register may be one of an        *)
(* earlier execution, the hypotheses of the interface section are.         *)
Sound(c) ==
  /\ calls = 1 \/ c.type = "data" \/ c.next # -1 =>
       c.seq \in 0 .. hbi_cntr - 1 /\ \A f \in {files[c.seq]} : Answers(c, f)
  /\ c.next >= 0 => c.next \in 0 .. hbi_cntr - 1

Linked(s, k) ==
  /\ s[k].next >= 0 =>
       \E j \in k + 1 .. Len(s) :
         /\ s[j].seq = s[k].next /\ s[j].l1 = s[k].l1 /\ s[j].l2 = s[k].l2
         /\ \/ StepOf(s[k]) = "send" /\ StepOf(s[j]) = "rec"
            \/ StepOf(s[k]) = "rec" /\ StepOf(s[j]) = "proc"
  /\ s[k].next = -2 => StepOf(s[k]) = "proc"

FilesInv ==
  /\ hbi_cntr \in Nat
  /\ \A k \in DOMAIN files : k \in Nat
  /\ 0 .. hbi_cntr - 1 \subseteq DOMAIN files
  /\ hbi_checkings \in Seq(CheckType)
  /\ MetaListsEveryFile
  /\ \A c \in Hypotheses : Sound(c)
  /\ \A k \in DOMAIN hbi_checkings : Linked(hbi_checkings, k)

PcrInv ==
  \A key \in DOMAIN pcr_inorder_hbi :
    /\ pcr_inorder_hbi[key] \in Nat
    /\ calls = 1 =>
         /\ pcr_inorder_hbi[key] \in 0 .. hbi_cntr - 1
         /\ files[pcr_inorder_hbi[key]] =
              [kind |-> "pcr", i1 |-> key[1], i2 |-> key[2], pcr |-> key[3]]

InferredInv == hbi_inferred \subseteq CheckType /\ hbi_inferred_invalid \subseteq CheckType

IInv == ControlInv /\ FilesInv /\ PcrInv /\ InferredInv

(* The invariant contains the properties.                                  *)
LEMMA Enough == ASSUME IInv PROVE TypeOK /\ FileAnswersHypothesis /\ ChainsClosed
<1> USE DEF IInv, ControlInv, FilesInv
<1> DOMAIN hbi_checkings = 1 .. Len(hbi_checkings)
  BY LenProperties
<1>1. \A c \in Hypotheses : c \in CheckType
  BY ElementOfSeq DEF Hypotheses, ToSet
<1>2. \A k \in DOMAIN hbi_meta : hbi_meta[k] \in CheckType
  BY <1>1 DEF MetaListsEveryFile
<1>3. TypeOK
  BY <1>2 DEF TypeOK, PcrInv, InferredInv
<1>4. FileAnswersHypothesis
  BY DEF FileAnswersHypothesis, FilesAnswer, Sound, Answers
<1>5. ChainsClosed
  <2> SUFFICES ASSUME NEW k \in DOMAIN hbi_checkings, Linked(hbi_checkings, k)
               PROVE  /\ hbi_checkings[k].next >= 0 =>
                           \E j \in k + 1 .. Len(hbi_checkings) :
                             /\ hbi_checkings[j].seq = hbi_checkings[k].next
                             /\ <<hbi_checkings[j].l1, hbi_checkings[j].l2>> =
                                <<hbi_checkings[k].l1, hbi_checkings[k].l2>>
                             /\ <<StepOf(hbi_checkings[k]), StepOf(hbi_checkings[j])>> \in
                                {<<"send", "rec">>, <<"rec", "proc">>}
                      /\ hbi_checkings[k].next = -2 => StepOf(hbi_checkings[k]) = "proc"
    BY DEF ChainsClosed
  <2> QED
    BY DEF Linked
<1> QED
  BY <1>3, <1>4, <1>5

-----------------------------------------------------------------------------
(* Steps that push hypotheses.                                             *)

(* What answers a hypothesis depends on the design alone.                  *)
LEMMA AnswersStable ==
  ASSUME design' = design, NEW c, NEW f
  PROVE  Answers(c, f)' <=> Answers(c, f)
BY DEF Answers, FlowAnswers, AccessAnswers, PcrAnswers, Depth, DownPool, StagePcr, InterfaceFile

(* A step that pushes sound hypotheses, writes only new files and lists    *)
(* each of them keeps the invariant on files and hypotheses.               *)
LEMMA Pushed ==
  ASSUME FilesInv, design' = design, calls' = calls,
         NEW new \in Seq(CheckType), hbi_checkings' = hbi_checkings \o new,
         hbi_cntr' \in Nat, hbi_cntr' >= hbi_cntr,
         0 .. hbi_cntr' - 1 \subseteq DOMAIN files', \A k \in DOMAIN files' : k \in Nat,
         \A k \in 0 .. hbi_cntr - 1 : files'[k] = files[k],
         \A c \in ToSet(new) : Sound(c)',
         \A k \in DOMAIN new : Linked(new, k)',
         DOMAIN hbi_meta' = 0 .. hbi_cntr' - 1,
         \A k \in 0 .. hbi_cntr - 1 : hbi_meta'[k] = hbi_meta[k],
         \A k \in hbi_cntr .. hbi_cntr' - 1 : hbi_meta'[k].seq = k /\ hbi_meta'[k] \in ToSet(new)
  PROVE  FilesInv'
<1> USE DEF FilesInv
<1>1. PICK old, all : old = hbi_checkings /\ all = hbi_checkings'
  OBVIOUS
<1> old \in Seq(CheckType) /\ all = old \o new
  BY <1>1
<1>2. /\ all \in Seq(CheckType) /\ old \in Seq(CheckType) /\ Len(all) = Len(old) + Len(new)
      /\ \A k \in 1 .. Len(old) : all[k] = old[k]
      /\ \A k \in 1 .. Len(new) : all[Len(old) + k] = new[k]
      /\ ToSet(all) = ToSet(old) \cup ToSet(new)
  BY ONLY old \in Seq(CheckType), new \in Seq(CheckType), all = old \o new, ToSetConcat
<1>3. Len(old) \in Nat /\ Len(new) \in Nat /\ DOMAIN old = 1 .. Len(old) /\ DOMAIN new = 1 .. Len(new)
      /\ DOMAIN all = 1 .. Len(all)
  BY <1>2, LenProperties
<1>4. CheckType' = CheckType
  BY DEF CheckType, Elements
<1>5. (\A c \in Hypotheses : Sound(c))'
  <2> SUFFICES ASSUME NEW c \in ToSet(all) PROVE Sound(c)'
    BY <1>1 DEF Hypotheses
  <2>1. CASE c \in ToSet(new)
    BY <2>1
  <2>2. CASE c \in ToSet(old)
    <3>1. Sound(c)
      BY <1>1, <2>2 DEF Hypotheses
    <3>2. c.next >= 0 => c.next \in 0 .. hbi_cntr' - 1
      BY <3>1 DEF Sound
    <3>3. ASSUME calls = 1 \/ c.type = "data" \/ c.next # -1
          PROVE  c.seq \in 0 .. hbi_cntr' - 1 /\ \A f \in {files'[c.seq]} : Answers(c, f)'
      <4>1. c.seq \in 0 .. hbi_cntr - 1 /\ \A f \in {files[c.seq]} : Answers(c, f)
        BY <3>1, <3>3 DEF Sound
      <4>2. files'[c.seq] = files[c.seq]
        BY <4>1
      <4> QED
        BY <4>1, <4>2, AnswersStable
    <3> QED
      BY <3>2, <3>3 DEF Sound
  <2> QED
    BY <1>2, <2>1, <2>2
<1>6. (\A k \in DOMAIN hbi_checkings : Linked(hbi_checkings, k))'
  <2> SUFFICES ASSUME NEW k \in DOMAIN all PROVE Linked(all, k)'
    BY <1>1
  <2>1. CASE k <= Len(old)
    <3>1. k \in DOMAIN old /\ all[k] = old[k] /\ all[k] \in CheckType
      BY <1>2, <1>3, <2>1, ElementOfSeq
    <3>2. Linked(old, k) /\ Sound(old[k])
      BY <1>1, <3>1 DEF Hypotheses, ToSet
    <3>3. ASSUME all[k].next # -1 PROVE StepOf(all[k])' = StepOf(all[k])
      BY <3>1, <3>2, <3>3 DEF Sound, StepOf
    <3>4. ASSUME all[k].next >= 0
          PROVE  \E j \in k + 1 .. Len(all) :
                   /\ all[j].seq = all[k].next /\ all[j].l1 = all[k].l1 /\ all[j].l2 = all[k].l2
                   /\ \/ StepOf(all[k])' = "send" /\ StepOf(all[j])' = "rec"
                      \/ StepOf(all[k])' = "rec" /\ StepOf(all[j])' = "proc"
      <4>1. PICK j \in k + 1 .. Len(old) :
                   /\ old[j].seq = all[k].next /\ old[j].l1 = all[k].l1 /\ old[j].l2 = all[k].l2
                   /\ \/ StepOf(all[k]) = "send" /\ StepOf(old[j]) = "rec"
                      \/ StepOf(all[k]) = "rec" /\ StepOf(old[j]) = "proc"
        BY <3>1, <3>2, <3>4 DEF Linked
      <4>2. all[j] = old[j] /\ j \in k + 1 .. Len(all)
        BY <1>2, <1>3
      <4>3. all[k].next \in 0 .. hbi_cntr - 1
        BY <3>1, <3>2, <3>4 DEF Sound
      <4>4. StepOf(all[j])' = StepOf(old[j])
        BY <4>1, <4>2, <4>3 DEF StepOf
      <4>5. StepOf(all[k])' = StepOf(all[k])
        BY <3>3, <3>4
      <4> QED
        BY <4>1, <4>2, <4>4, <4>5
    <3>5. ASSUME all[k].next = -2 PROVE StepOf(all[k])' = "proc"
      BY <3>1, <3>2, <3>3, <3>5 DEF Linked
    <3> QED
      BY <3>4, <3>5 DEF Linked
  <2>2. CASE k > Len(old)
    <3>1. PICK l : l = k - Len(old)
      OBVIOUS
    <3>2. l \in DOMAIN new /\ k = Len(old) + l /\ all[k] = new[l]
      <4>1. l \in 1 .. Len(new) /\ k = Len(old) + l
        BY ONLY <1>2, <1>3, <2>2, <3>1, k \in DOMAIN all
      <4>2. all[Len(old) + l] = new[l]
        BY <1>2, <4>1
      <4> QED
        BY <1>3, <4>1, <4>2
    <3>3. Linked(new, l)'
      BY <3>2
    <3>4. ASSUME all[k].next >= 0
          PROVE  \E j \in k + 1 .. Len(all) :
                   /\ all[j].seq = all[k].next /\ all[j].l1 = all[k].l1 /\ all[j].l2 = all[k].l2
                   /\ \/ StepOf(all[k])' = "send" /\ StepOf(all[j])' = "rec"
                      \/ StepOf(all[k])' = "rec" /\ StepOf(all[j])' = "proc"
      <4>1. PICK j \in l + 1 .. Len(new) :
                   /\ new[j].seq = all[k].next /\ new[j].l1 = all[k].l1 /\ new[j].l2 = all[k].l2
                   /\ \/ StepOf(all[k])' = "send" /\ StepOf(new[j])' = "rec"
                      \/ StepOf(all[k])' = "rec" /\ StepOf(new[j])' = "proc"
        BY <3>2, <3>3, <3>4 DEF Linked
      <4>2. all[Len(old) + j] = new[j] /\ Len(old) + j \in k + 1 .. Len(all)
        BY <1>2, <1>3, <3>2
      <4> QED
        BY <4>1, <4>2
    <3>5. ASSUME all[k].next = -2 PROVE StepOf(all[k])' = "proc"
      BY <3>2, <3>3, <3>5 DEF Linked
    <3> QED
      BY <3>4, <3>5 DEF Linked
  <2> QED
    BY <1>2, <1>3, <2>1, <2>2
<1>7. MetaListsEveryFile'
  <2>1. \A k \in DOMAIN hbi_meta' : hbi_meta'[k].seq = k /\ hbi_meta'[k] \in ToSet(all)
    <3>1. /\ DOMAIN hbi_meta = 0 .. hbi_cntr - 1
          /\ \A k \in 0 .. hbi_cntr - 1 : hbi_meta[k].seq = k /\ hbi_meta[k] \in ToSet(old)
      BY <1>1 DEF MetaListsEveryFile, Hypotheses
    <3>2. ASSUME NEW k \in 0 .. hbi_cntr' - 1
          PROVE  hbi_meta'[k].seq = k /\ hbi_meta'[k] \in ToSet(all)
      <4>1. hbi_cntr \in Nat
        OBVIOUS
      <4>2. CASE k < hbi_cntr
        <5>1. k \in 0 .. hbi_cntr - 1
          BY <4>1, <4>2
        <5> QED
          BY <1>2, <3>1, <5>1
      <4>3. CASE k >= hbi_cntr
        <5>1. k \in hbi_cntr .. hbi_cntr' - 1
          BY <4>1, <4>3
        <5> QED
          BY <1>2, <5>1
      <4> QED
        BY <4>1, <4>2, <4>3
    <3>3. DOMAIN hbi_meta' = 0 .. hbi_cntr' - 1
      OBVIOUS
    <3> QED
      BY ONLY <3>2, <3>3
  <2> QED
    BY <1>1, <2>1 DEF MetaListsEveryFile, Hypotheses
<1> QED
  BY <1>1, <1>2, <1>4, <1>5, <1>6, <1>7

(* The file of a PC register answers a hypothesis about a stage it orders. *)
LEMMA PcrAnswered ==
  ASSUME NEW t \in 1 .. Depth(i1, i2), NEW l1 \in design.uhb[i1][t], NEW l2 \in design.uhb[i2][t],
         NEW type \in {"spatial", "temporal"}, NEW seq
  PROVE  Answers(Check(seq, type, l1, l2, TRUE, -1),
                 [kind |-> "pcr", i1 |-> i1, i2 |-> i2, pcr |-> StagePcr(t)])
BY DEF Answers, PcrAnswers, Check

(* A hypothesis about nodes of the design is well formed.                  *)
LEMMA CheckWellFormed ==
  ASSUME ControlInv, NEW seq \in Nat \cup {-1}, NEW type \in {"spatial", "temporal", "data"},
         NEW l1 \in Elements(design), NEW l2 \in Elements(design), NEW samecore \in BOOLEAN,
         NEW next \in Nat \cup {-1, -2}
  PROVE  Check(seq, type, l1, l2, samecore, next) \in CheckType
<1>1. i1 \in Nat /\ i2 \in Nat
  BY Stages DEF ControlInv
<1> QED
  BY <1>1 DEF Check, CheckType

(* struct_temporal_pipeline: the hypothesis is pushed with the file of its *)
(* PC register, which is new unless the pair has one already.              *)
LEMMA PcrStep ==
  ASSUME IInv, design' = design, calls' = calls,
         NEW t \in 1 .. Depth(i1, i2), NEW l1 \in design.uhb[i1][t], NEW l2 \in design.uhb[i2][t],
         NEW type \in {"spatial", "temporal"}, PcrCheck(t, type, l1, l2)
  PROVE  FilesInv' /\ PcrInv'
<1>1. PICK pcr, key, f, seq, chk :
        /\ pcr = StagePcr(t) /\ key = PcrKey(pcr)
        /\ f = [kind |-> "pcr", i1 |-> i1, i2 |-> i2, pcr |-> pcr]
        /\ seq = IF key \in DOMAIN pcr_inorder_hbi THEN pcr_inorder_hbi[key] ELSE hbi_cntr
        /\ chk = Check(seq, type, l1, l2, TRUE, -1)
  OBVIOUS
<1>2. /\ hbi_checkings' = Append(hbi_checkings, chk)
      /\ IF key \in DOMAIN pcr_inorder_hbi
         THEN UNCHANGED <<hbi_cntr, files, hbi_meta, pcr_inorder_hbi>>
         ELSE NewPcrFile(seq, pcr, chk)
  BY <1>1 DEF PcrCheck
<1>3. /\ hbi_cntr \in Nat /\ \A k \in DOMAIN files : k \in Nat
      /\ 0 .. hbi_cntr - 1 \subseteq DOMAIN files /\ hbi_checkings \in Seq(CheckType)
      /\ DOMAIN hbi_meta = 0 .. hbi_cntr - 1
  BY DEF IInv, FilesInv, MetaListsEveryFile
<1>4. seq \in Nat
  BY <1>1, <1>3 DEF IInv, PcrInv
<1>5. chk \in CheckType
  BY <1>1, <1>4, Stages, CheckWellFormed DEF IInv, ControlInv
<1>6. hbi_checkings' = hbi_checkings \o <<chk>>
  BY <1>2, <1>3, <1>5, AppendIsConcat
<1>7. Answers(chk, f)'
  BY <1>1, PcrAnswered, AnswersStable
<1>8. key[1] = i1 /\ key[2] = i2 /\ key[3] = pcr
  BY <1>1 DEF PcrKey
<1>9. ASSUME hbi_cntr' \in Nat, hbi_cntr' >= hbi_cntr,
             0 .. hbi_cntr' - 1 \subseteq DOMAIN files', \A k \in DOMAIN files' : k \in Nat,
             \A k \in 0 .. hbi_cntr - 1 : files'[k] = files[k],
             DOMAIN hbi_meta' = 0 .. hbi_cntr' - 1,
             \A k \in 0 .. hbi_cntr - 1 : hbi_meta'[k] = hbi_meta[k],
             \A k \in hbi_cntr .. hbi_cntr' - 1 : k = seq /\ hbi_meta'[k] = chk,
             calls = 1 => seq \in 0 .. hbi_cntr' - 1 /\ files'[seq] = f
      PROVE  FilesInv'
  <2>1. <<chk>> \in Seq(CheckType) /\ DOMAIN <<chk>> = {1} /\ <<chk>>[1] = chk /\ ToSet(<<chk>>) = {chk}
    BY <1>5, ToSetOne
  <2>2. chk.seq = seq /\ chk.type \in {"spatial", "temporal"} /\ chk.next = -1
    BY <1>1 DEF Check
  <2>3. Sound(chk)'
    BY <1>7, <1>9, <2>2 DEF Sound
  <2>4. Linked(<<chk>>, 1)'
    BY <2>1, <2>2 DEF Linked
  <2>5. \A k \in hbi_cntr .. hbi_cntr' - 1 : hbi_meta'[k].seq = k /\ hbi_meta'[k] \in ToSet(<<chk>>)
    BY <1>9, <2>1, <2>2
  <2>6. (\A c \in ToSet(<<chk>>) : Sound(c)') /\ (\A k \in DOMAIN <<chk>> : Linked(<<chk>>, k)')
    BY <2>1, <2>3, <2>4
  <2> HIDE DEF Sound, Linked
  <2> QED
    BY <1>6, <1>9, <2>1, <2>5, <2>6, Pushed DEF IInv
<1>10. CASE key \in DOMAIN pcr_inorder_hbi
  <2>1. UNCHANGED <<hbi_cntr, files, hbi_meta, pcr_inorder_hbi>> /\ seq = pcr_inorder_hbi[key]
    BY <1>1, <1>2, <1>10
  <2>2. calls = 1 => seq \in 0 .. hbi_cntr - 1 /\ files[seq] = f
    BY <1>1, <1>8, <1>10, <2>1 DEF IInv, PcrInv
  <2>3. FilesInv'
    BY <1>3, <1>9, <2>1, <2>2
  <2>4. PcrInv'
    BY <2>1 DEF IInv, PcrInv
  <2> QED
    BY <2>3, <2>4
<1>11. CASE key \notin DOMAIN pcr_inorder_hbi
  <2>1. seq = hbi_cntr /\ files' = Put(files, seq, f) /\ hbi_cntr' = hbi_cntr + 1
        /\ hbi_meta' = Put(hbi_meta, seq, chk) /\ pcr_inorder_hbi' = Put(pcr_inorder_hbi, key, seq)
    BY <1>1, <1>2, <1>11 DEF NewPcrFile, PcrFile
  <2>2. /\ DOMAIN files' = DOMAIN files \cup {seq} /\ files'[seq] = f
        /\ \A k \in 0 .. hbi_cntr - 1 : files'[k] = files[k]
    BY <1>3, <2>1 DEF Put
  <2>3. /\ DOMAIN hbi_meta' = 0 .. hbi_cntr' - 1
        /\ \A k \in 0 .. hbi_cntr - 1 : hbi_meta'[k] = hbi_meta[k]
        /\ \A k \in hbi_cntr .. hbi_cntr' - 1 : k = seq /\ hbi_meta'[k] = chk
    BY <1>3, <2>1 DEF Put
  <2>4. /\ hbi_cntr' \in Nat /\ hbi_cntr' >= hbi_cntr
        /\ 0 .. hbi_cntr' - 1 \subseteq DOMAIN files' /\ \A k \in DOMAIN files' : k \in Nat
        /\ seq \in 0 .. hbi_cntr' - 1
    BY <1>3, <2>1, <2>2
  <2>5. FilesInv'
    BY <1>9, <2>2, <2>3, <2>4
  <2>6. PcrInv'
    <3> SUFFICES ASSUME NEW k \in DOMAIN pcr_inorder_hbi'
                 PROVE  /\ pcr_inorder_hbi'[k] \in Nat
                        /\ calls = 1 =>
                             /\ pcr_inorder_hbi'[k] \in 0 .. hbi_cntr' - 1
                             /\ files'[pcr_inorder_hbi'[k]] =
                                  [kind |-> "pcr", i1 |-> k[1], i2 |-> k[2], pcr |-> k[3]]
      BY DEF PcrInv
    <3>1. CASE k = key
      BY <1>1, <1>4, <1>8, <2>1, <2>2, <2>4, <3>1 DEF Put
    <3>2. CASE k # key
      <4>1. k \in DOMAIN pcr_inorder_hbi /\ pcr_inorder_hbi'[k] = pcr_inorder_hbi[k]
        BY <2>1, <3>2 DEF Put
      <4> QED
        BY <1>3, <2>1, <2>2, <4>1 DEF IInv, PcrInv
    <3> QED
      BY <3>1, <3>2
  <2> QED
    BY <2>5, <2>6
<1> QED
  BY <1>10, <1>11

(* A step that leaves files and hypotheses alone keeps what is said of     *)
(* them.                                                                   *)
LEMMA FilesUnchanged ==
  ASSUME FilesInv, UNCHANGED <<design, calls, hbi_cntr, files, hbi_checkings, hbi_meta>>
  PROVE  FilesInv'
<1>1. /\ hbi_cntr \in Nat /\ \A k \in DOMAIN files : k \in Nat
      /\ 0 .. hbi_cntr - 1 \subseteq DOMAIN files /\ hbi_checkings \in Seq(CheckType)
      /\ DOMAIN hbi_meta = 0 .. hbi_cntr - 1
  BY DEF FilesInv, MetaListsEveryFile
<1>2. PICK none : none = << >>
  OBVIOUS
<1>3. none \in Seq(CheckType) /\ ToSet(none) = {} /\ DOMAIN none = {}
  <2>1. none \in Seq(CheckType) /\ DOMAIN none = {}
    BY <1>2, EmptySeq
  <2> QED
    BY ONLY <2>1 DEF ToSet
<1>4. hbi_checkings' = hbi_checkings \o none
  BY <1>2, <1>1, ConcatEmptySeq
<1>5. (\A c \in ToSet(none) : Sound(c)') /\ (\A k \in DOMAIN none : Linked(none, k)')
  BY <1>3
<1>6. design' = design /\ calls' = calls /\ hbi_cntr' = hbi_cntr /\ files' = files /\ hbi_meta' = hbi_meta
  OBVIOUS
<1>7. /\ hbi_cntr' \in Nat /\ hbi_cntr' >= hbi_cntr
      /\ 0 .. hbi_cntr' - 1 \subseteq DOMAIN files' /\ \A k \in DOMAIN files' : k \in Nat
      /\ \A k \in 0 .. hbi_cntr - 1 : files'[k] = files[k] /\ hbi_meta'[k] = hbi_meta[k]
      /\ DOMAIN hbi_meta' = 0 .. hbi_cntr' - 1
      /\ hbi_cntr .. hbi_cntr' - 1 = {}
  BY ONLY <1>1, <1>6
<1> QED
  BY <1>3, <1>4, <1>5, <1>6, <1>7, Pushed

(* The hypotheses of one data-flow file: the value the first instruction   *)
(* writes is the one each register fed by the second one's read gets.      *)
LEMMA FlowHypotheses ==
  ASSUME NEW C, NEW m, NEW P, NEW o \in Seq(P), Len(o) \in Nat \ {0}, NEW seq, NEW samecore,
         \A l2 \in P : Check(seq, "data", m, l2, samecore, -1) \in C
  PROVE  /\ FlowChecks(m, o, seq, samecore) \in Seq(C)
         /\ Last(FlowChecks(m, o, seq, samecore)) \in ToSet(FlowChecks(m, o, seq, samecore))
         /\ ToSet(FlowChecks(m, o, seq, samecore)) \subseteq C
<1>1. PICK s : s = FlowChecks(m, o, seq, samecore)
  OBVIOUS
<1>2. \A k \in 1 .. Len(o) : o[k] \in P
  BY ElementOfSeq
<1>3. s = [k \in 1 .. Len(o) |-> Check(seq, "data", m, o[k], samecore, -1)]
  BY <1>1 DEF FlowChecks
<1>4. s \in [1 .. Len(o) -> C]
  BY <1>2, <1>3
<1>5. s \in Seq(C) /\ ToSet(s) = {s[k] : k \in 1 .. Len(o)} /\ Last(s) = s[Len(o)]
  BY <1>4, SeqOfPositions
<1>6. ToSet(s) \subseteq C /\ Last(s) \in ToSet(s)
  BY <1>4, <1>5
<1> QED
  BY <1>1, <1>5, <1>6

(* A hypothesis of a data-flow file is answered by it.                     *)
LEMMA FlowAnswered ==
  ASSUME NEW m, NEW b, ~ b.write, NEW l2 \in DownPool(i2, m, b), NEW seq, NEW samecore \in BOOLEAN,
         NEW f, f.kind = IF samecore THEN "flow_local" ELSE "flow",
         f.mem = m, f.i1 = i1, f.i2 = i2
  PROVE  Answers(Check(seq, "data", m, l2, samecore, -1), f)
BY DEF Answers, FlowAnswers, Check, DownPool

(* The hypotheses of a protocol: for each of the three files, in order, one *)
(* per pair of nodes, followed n positions further by the one of the next  *)
(* file for the same pair.                                                 *)
Protocol(T, n, P, Q) ==
  /\ T \in [1 .. 3 * n -> CheckType]
  /\ \A k \in 1 .. 3 * n : \E i \in 0 .. 2, l1 \in P, l2 \in Q :
       /\ T[k] = Check(hbi_cntr + i, "temporal", l1, l2, TRUE, RelevantFile(i))
       /\ i < 2 => /\ k + n \in 1 .. 3 * n
                   /\ T[k + n] = Check(hbi_cntr + i + 1, "temporal", l1, l2, TRUE, RelevantFile(i + 1))
  /\ \A i \in 0 .. 2 : (i + 1) * n \in 1 .. 3 * n /\ T[(i + 1) * n].seq = hbi_cntr + i

(* The loop of generate over files and pairs of nodes pushes them so.      *)
LEMMA ProtocolHypotheses ==
  ASSUME ControlInv, hbi_cntr \in Nat,
         NEW P \in SUBSET Elements(design), NEW o1 \in Seq(P), Len(o1) \in Nat \ {0},
         NEW Q \in SUBSET Elements(design), NEW o2 \in Seq(Q), Len(o2) \in Nat \ {0}
  PROVE  /\ Len(o1) * Len(o2) \in Nat \ {0}
         /\ Protocol(InterfaceChecks(o1, o2), Len(o1) * Len(o2), P, Q)
<1>1. PICK n : n = Len(o1) * Len(o2)
  OBVIOUS
<1> DEFINE F(k) == (k - 1) \div n
           R(k) == (k - 1) % n
           L1(k) == o1[1 + (R(k) \div Len(o2))]
           L2(k) == o2[1 + (R(k) % Len(o2))]
           C(k) == Check(hbi_cntr + F(k), "temporal", L1(k), L2(k), TRUE, RelevantFile(F(k)))
<1>2. PICK T : T = InterfaceChecks(o1, o2)
  OBVIOUS
<1>3. n \in Nat \ {0}
  BY <1>1, Grows
<1>4. T = [k \in 1 .. 3 * n |-> C(k)]
  BY <1>1, <1>2 DEF InterfaceChecks
<1>5. \A k \in 1 .. 3 * n : F(k) \in 0 .. 2 /\ (k - 1) % n \in 0 .. n - 1
  BY <1>3, Position
<1>6. ASSUME NEW k \in 1 .. 3 * n PROVE L1(k) \in P /\ L2(k) \in Q
  <2>1. PICK j : j = (k - 1) % n
    OBVIOUS
  <2>2. j \in Nat /\ j < Len(o2) * Len(o1)
    BY <1>1, <1>3, <1>5, <2>1
  <2>3. j \div Len(o2) \in 0 .. Len(o1) - 1
    BY <2>2, DivBelow
  <2>4. j % Len(o2) \in 0 .. Len(o2) - 1
    BY <2>2, DivMod
  <2>5. 1 + (j \div Len(o2)) \in 1 .. Len(o1) /\ 1 + (j % Len(o2)) \in 1 .. Len(o2)
    BY <2>3, <2>4
  <2> QED
    BY <2>1, <2>5, ElementOfSeq
<1>7. RelevantFile(0) \in Nat /\ RelevantFile(1) \in Nat /\ RelevantFile(2) = -2
  BY DEF RelevantFile
<1>8. ASSUME NEW k \in 1 .. 3 * n PROVE C(k) \in CheckType
  <2>1. F(k) \in {0, 1, 2}
    BY <1>5
  <2>2. hbi_cntr + F(k) \in Nat /\ RelevantFile(F(k)) \in Nat \cup {-1, -2}
    BY <1>7, <2>1
  <2>3. L1(k) \in Elements(design) /\ L2(k) \in Elements(design)
    BY <1>6
  <2> HIDE DEF F, L1, L2
  <2> QED
    BY <2>2, <2>3, CheckWellFormed
<1>9. T \in [1 .. 3 * n -> CheckType]
  BY <1>4, <1>8
<1>10. ASSUME NEW k \in 1 .. 3 * n
       PROVE  \E i \in 0 .. 2, l1 \in P, l2 \in Q :
               /\ T[k] = Check(hbi_cntr + i, "temporal", l1, l2, TRUE, RelevantFile(i))
               /\ i < 2 => /\ k + n \in 1 .. 3 * n
                           /\ T[k + n] = Check(hbi_cntr + i + 1, "temporal", l1, l2, TRUE, RelevantFile(i + 1))
  <2>1. PICK i, l1, l2 : i = F(k) /\ l1 = L1(k) /\ l2 = L2(k)
    OBVIOUS
  <2>2. i \in 0 .. 2 /\ l1 \in P /\ l2 \in Q
    BY <1>5, <1>6, <2>1
  <2>3. T[k] = Check(hbi_cntr + i, "temporal", l1, l2, TRUE, RelevantFile(i))
    BY <1>4, <2>1
  <2>4. ASSUME i < 2
        PROVE  /\ k + n \in 1 .. 3 * n
               /\ T[k + n] = Check(hbi_cntr + i + 1, "temporal", l1, l2, TRUE, RelevantFile(i + 1))
    <3>1. /\ k + n \in 1 .. 3 * n
          /\ (k + n - 1) \div n = (k - 1) \div n + 1 /\ (k + n - 1) % n = (k - 1) % n
      BY <1>3, <2>1, <2>4, Position
    <3>2. F(k + n) = i + 1 /\ R(k + n) = R(k)
      BY <1>3, <2>1, <3>1
    <3> HIDE DEF F, R
    <3>3. F(k + n) = i + 1 /\ L1(k + n) = l1 /\ L2(k + n) = l2
      BY ONLY <2>1, <3>2
    <3>4. T[k + n] = C(k + n)
      BY <1>4, <3>1
    <3>5. hbi_cntr + (i + 1) = hbi_cntr + i + 1
      BY <2>2
    <3> HIDE DEF F, L1, L2
    <3> QED
      BY <3>1, <3>3, <3>4, <3>5
  <2> HIDE DEF F, L1, L2, C
  <2> QED
    BY <2>2, <2>3, <2>4
<1>11. ASSUME NEW i \in 0 .. 2
       PROVE  (i + 1) * n \in 1 .. 3 * n /\ T[(i + 1) * n].seq = hbi_cntr + i
  <2>1. PICK k : k = (i + 1) * n
    OBVIOUS
  <2>2. k \in 1 .. 3 * n /\ F(k) = i
    BY <1>3, <2>1, LastPosition
  <2>3. T[k] = C(k)
    BY <1>4, <2>2
  <2>4. C(k).seq = hbi_cntr + F(k)
    BY DEF Check
  <2> HIDE DEF F, C
  <2> QED
    BY <2>1, <2>2, <2>3, <2>4
<1> HIDE DEF F, R, L1, L2, C
<1>12. Protocol(T, n, P, Q)
  BY ONLY <1>9, <1>10, <1>11 DEF Protocol
<1> QED
  BY ONLY <1>1, <1>2, <1>3, <1>12

(* A hypothesis of a protocol file is answered by it.                      *)
LEMMA AccessAnswered ==
  ASSUME NEW m \in DOMAIN design.loc[i1] \cap DOMAIN design.loc[i2],
         NEW a \in design.loc[i1][m], NEW b \in design.loc[i2][m],
         NEW l1 \in DownPool(i1, m, a), NEW l2 \in DownPool(i2, m, b),
         NEW i \in 0 .. 2, NEW seq, NEW next, next # -1
  PROVE  Answers(Check(seq, "temporal", l1, l2, TRUE, next), InterfaceFile(Steps[i + 1], i1, i2, m, a, b))
<1>1. PICK s, f, c : /\ s = Steps[i + 1] /\ f = InterfaceFile(s, i1, i2, m, a, b)
                     /\ c = Check(seq, "temporal", l1, l2, TRUE, next)
  OBVIOUS
<1>2. s \in ToSet(Steps)
  BY <1>1 DEF Steps, ToSet
<1>3. c.i1 = i1 /\ c.i2 = i2 /\ c.l1 = l1 /\ c.l2 = l2 /\ c.type = "temporal" /\ c.next # -1
  BY <1>1 DEF Check
<1>4. f = InterfaceFile(s, c.i1, c.i2, m, a, b)
  BY <1>1, <1>3
<1>5. AccessAnswers(c, f)
  BY <1>2, <1>3, <1>4 DEF AccessAnswers
<1> QED
  BY <1>1, <1>3, <1>5 DEF Answers

(* A step that only writes new files keeps the files of PC registers.      *)
LEMMA PcrUnchanged ==
  ASSUME PcrInv, hbi_cntr \in Nat, hbi_cntr' \in Nat, hbi_cntr' >= hbi_cntr,
         \A k \in 0 .. hbi_cntr - 1 : files'[k] = files[k],
         UNCHANGED <<calls, pcr_inorder_hbi>>
  PROVE  PcrInv'
<1> SUFFICES ASSUME NEW k \in DOMAIN pcr_inorder_hbi, calls = 1
             PROVE  /\ pcr_inorder_hbi[k] \in 0 .. hbi_cntr' - 1
                    /\ files'[pcr_inorder_hbi[k]] =
                         [kind |-> "pcr", i1 |-> k[1], i2 |-> k[2], pcr |-> k[3]]
  BY DEF PcrInv
<1> QED
  BY DEF PcrInv

(* The pair of accesses of a local array: at most one data-flow file.      *)
LEMMA LocalStep ==
  ASSUME IInv, design' = design, calls' = calls,
         NEW m \in DOMAIN design.loc[i1] \cap DOMAIN design.loc[i2],
         NEW a \in design.loc[i1][m], NEW b \in design.loc[i2][m],
         NEW o2 \in SetToSeqs(DownPool(i2, m, b)), LocalInterface(m, a, b, o2)
  PROVE  FilesInv' /\ PcrInv' /\ hbi_inferred_invalid' \subseteq CheckType
<1> USE DEF IInv
<1>1. PICK P : P = DownPool(i2, m, b)
  OBVIOUS
<1>2. m \in Elements(design) /\ P \in SUBSET Elements(design) /\ IsFiniteSet(P) /\ P # {}
  BY <1>1, Accesses DEF ControlInv
<1>3. o2 \in Seq(P) /\ Len(o2) \in Nat \ {0}
  BY <1>1, <1>2, SetOrder
<1>4. hbi_inferred_invalid' \subseteq CheckType
  <2>1. ToSet(o2) \subseteq Elements(design)
    BY <1>2, <1>3, ElementOfSeq, LenProperties DEF ToSet
  <2>2. \A t \in ToSet(o2) : Check(-1, "temporal", m, t, TRUE, -1) \in CheckType
    BY <1>2, <2>1, CheckWellFormed
  <2> QED
    BY <2>2 DEF LocalInterface, InferredInv
<1>5. hbi_cntr \in Nat /\ (\A k \in DOMAIN files : k \in Nat) /\ 0 .. hbi_cntr - 1 \subseteq DOMAIN files
      /\ DOMAIN hbi_meta = 0 .. hbi_cntr - 1
  BY DEF FilesInv, MetaListsEveryFile
<1>6. CASE ~ (a.write /\ ~ b.write)
  <2>1. UNCHANGED <<hbi_checkings, files, hbi_meta, hbi_cntr, pcr_inorder_hbi>>
    BY <1>6 DEF LocalInterface
  <2>2. FilesInv'
    BY <2>1, FilesUnchanged
  <2>3. PcrInv'
    BY <1>5, <2>1, PcrUnchanged
  <2> QED
    BY <1>4, <2>2, <2>3
<1>7. CASE a.write /\ ~ b.write
  <2>1. PICK flow, f :
          /\ flow = FlowChecks(m, o2, hbi_cntr, TRUE)
          /\ f = [kind |-> "flow_local", i1 |-> i1, i2 |-> i2, mem |-> m,
                  pcr1 |-> a.dep - 1, pcr2 |-> ReadPcr(b)]
    OBVIOUS
  <2>2. /\ hbi_checkings' = hbi_checkings \o flow /\ files' = Put(files, hbi_cntr, f)
        /\ hbi_meta' = Put(hbi_meta, hbi_cntr, Last(flow)) /\ hbi_cntr' = hbi_cntr + 1
        /\ UNCHANGED pcr_inorder_hbi
    BY <1>7, <2>1 DEF LocalInterface
  <2>3. /\ flow \in Seq(CheckType) /\ Last(flow) \in ToSet(flow)
        /\ ToSet(flow) \subseteq {Check(hbi_cntr, "data", m, l2, TRUE, -1) : l2 \in P}
    <3>1. \A l2 \in P : Check(hbi_cntr, "data", m, l2, TRUE, -1) \in CheckType
      BY <1>2, <1>5, CheckWellFormed
    <3>2. flow = FlowChecks(m, o2, hbi_cntr, TRUE)
      BY <2>1
    <3> QED
      <4> DEFINE C == {Check(hbi_cntr, "data", m, l2, TRUE, -1) : l2 \in P}
      <4>1. \A l2 \in P : Check(hbi_cntr, "data", m, l2, TRUE, -1) \in C
        OBVIOUS
      <4>2. C \subseteq CheckType
        BY <3>1
      <4> HIDE DEF C
      <4>3. flow \in Seq(C) /\ Last(flow) \in ToSet(flow) /\ ToSet(flow) \subseteq C
        BY ONLY <1>3, <3>2, <4>1, FlowHypotheses
      <4>4. flow \in Seq(CheckType)
        BY ONLY <4>2, <4>3
      <4> QED
        BY <4>3, <4>4 DEF C
  <2>4. /\ hbi_cntr' \in Nat /\ hbi_cntr' >= hbi_cntr
        /\ DOMAIN files' = DOMAIN files \cup {hbi_cntr} /\ files'[hbi_cntr] = f
        /\ \A k \in 0 .. hbi_cntr - 1 : files'[k] = files[k]
        /\ DOMAIN hbi_meta' = 0 .. hbi_cntr' - 1 /\ hbi_meta'[hbi_cntr] = Last(flow)
        /\ \A k \in 0 .. hbi_cntr - 1 : hbi_meta'[k] = hbi_meta[k]
    BY <1>5, <2>2 DEF Put
  <2>5. 0 .. hbi_cntr' - 1 \subseteq DOMAIN files' /\ \A k \in DOMAIN files' : k \in Nat
    BY <1>5, <2>2, <2>4
  <2>6. \A c \in ToSet(flow) : c.seq = hbi_cntr /\ c.next = -1 /\ Answers(c, f)
    <3> SUFFICES ASSUME NEW l2 \in P, NEW c, c = Check(hbi_cntr, "data", m, l2, TRUE, -1)
                 PROVE  c.seq = hbi_cntr /\ c.next = -1 /\ Answers(c, f)
      BY <2>3
    <3>1. f.kind = "flow_local" /\ f.mem = m /\ f.i1 = i1 /\ f.i2 = i2
      BY <2>1
    <3>2. Answers(c, f)
      BY <1>1, <1>7, <3>1, FlowAnswered
    <3> QED
      BY <3>2 DEF Check
  <2>7. \A c \in ToSet(flow) : Sound(c)'
    <3> SUFFICES ASSUME NEW c \in ToSet(flow)
                 PROVE  /\ c.seq \in 0 .. hbi_cntr' - 1 /\ \A g \in {files'[c.seq]} : Answers(c, g)'
                        /\ c.next >= 0 => c.next \in 0 .. hbi_cntr' - 1
      BY DEF Sound
    <3>1. Answers(c, f)'
      BY <2>6, AnswersStable
    <3> QED
      BY <1>5, <2>2, <2>4, <2>6, <3>1
  <2>8. \A k \in DOMAIN flow : Linked(flow, k)'
    BY <2>6 DEF Linked, ToSet
  <2>9. \A k \in hbi_cntr .. hbi_cntr' - 1 : hbi_meta'[k].seq = k /\ hbi_meta'[k] \in ToSet(flow)
    BY <1>5, <2>2, <2>3, <2>4, <2>6
  <2>10. FilesInv'
    BY <2>2, <2>3, <2>4, <2>5, <2>7, <2>8, <2>9, Pushed
  <2>11. PcrInv'
    BY <1>5, <2>2, <2>4, PcrUnchanged
  <2> QED
    BY <1>4, <2>10, <2>11
<1> QED
  BY <1>6, <1>7

(* The pair of accesses of a shared memory: the three files of its         *)
(* protocol, and the data-flow file of a write and a read.                 *)
LEMMA SharedStep ==
  ASSUME IInv, design' = design, calls' = calls,
         NEW m \in DOMAIN design.loc[i1] \cap DOMAIN design.loc[i2],
         NEW a \in design.loc[i1][m], NEW b \in design.loc[i2][m],
         NEW o1 \in SetToSeqs(DownPool(i1, m, a)), NEW o2 \in SetToSeqs(DownPool(i2, m, b)),
         SharedInterface(m, a, b, o1, o2)
  PROVE  FilesInv' /\ PcrInv'
<1> USE DEF IInv
<1>1. PICK P, Q : P = DownPool(i1, m, a) /\ Q = DownPool(i2, m, b)
  OBVIOUS
<1>2. /\ m \in Elements(design) /\ P \in SUBSET Elements(design) /\ Q \in SUBSET Elements(design)
      /\ IsFiniteSet(P) /\ P # {} /\ IsFiniteSet(Q) /\ Q # {}
  BY <1>1, Accesses DEF ControlInv
<1>3. o1 \in Seq(P) /\ Len(o1) \in Nat \ {0} /\ o2 \in Seq(Q) /\ Len(o2) \in Nat \ {0}
  BY <1>1, <1>2, SetOrder
<1>4. hbi_cntr \in Nat /\ (\A k \in DOMAIN files : k \in Nat) /\ 0 .. hbi_cntr - 1 \subseteq DOMAIN files
      /\ DOMAIN hbi_meta = 0 .. hbi_cntr - 1 /\ hbi_checkings \in Seq(CheckType)
  BY <1>1 DEF FilesInv, MetaListsEveryFile
<1>5. PICK T, isFlow, flow, flowFile, added :
        /\ T = InterfaceChecks(o1, o2)
        /\ isFlow = (a.write /\ ~ b.write)
        /\ flow = IF isFlow THEN FlowChecks(m, o2, hbi_cntr + 3, FALSE) ELSE << >>
        /\ flowFile = [kind |-> "flow", i1 |-> i1, i2 |-> i2, mem |-> m]
        /\ added = IF isFlow THEN 4 ELSE 3
  OBVIOUS
<1>6. ControlInv /\ hbi_cntr \in Nat
  BY <1>1, <1>4
<1>7. PICK n : n = Len(o1) * Len(o2)
  OBVIOUS
<1>8. n \in Nat \ {0} /\ Protocol(T, n, P, Q)
  <2>1. Len(o1) * Len(o2) \in Nat \ {0} /\ Protocol(InterfaceChecks(o1, o2), Len(o1) * Len(o2), P, Q)
    BY ONLY <1>6, <1>2, <1>3, ProtocolHypotheses
  <2> QED
    BY ONLY <1>5, <1>7, <2>1
<1>9. /\ T \in [1 .. 3 * n -> CheckType]
      /\ \A k \in 1 .. 3 * n : \E i \in 0 .. 2, l1 \in P, l2 \in Q :
           /\ T[k] = Check(hbi_cntr + i, "temporal", l1, l2, TRUE, RelevantFile(i))
           /\ i < 2 => /\ k + n \in 1 .. 3 * n
                       /\ T[k + n] = Check(hbi_cntr + i + 1, "temporal", l1, l2, TRUE, RelevantFile(i + 1))
      /\ \A i \in 0 .. 2 : (i + 1) * n \in 1 .. 3 * n /\ T[(i + 1) * n].seq = hbi_cntr + i
  BY ONLY <1>1, <1>8 DEF Protocol
<1>10. /\ hbi_checkings' = hbi_checkings \o T \o flow
       /\ hbi_cntr' = hbi_cntr + added
       /\ files' = PutAll(files, [k \in hbi_cntr .. hbi_cntr + added - 1 |->
            IF k = hbi_cntr + 3 THEN flowFile ELSE InterfaceFile(Steps[k - hbi_cntr + 1], i1, i2, m, a, b)])
       /\ hbi_meta' = PutAll(hbi_meta, [k \in hbi_cntr .. hbi_cntr + added - 1 |->
            IF k = hbi_cntr + 3 THEN Last(flow) ELSE T[(k - hbi_cntr + 1) * n]])
       /\ UNCHANGED pcr_inorder_hbi
  BY <1>1, <1>5, <1>7 DEF SharedInterface
<1>11. T \in Seq(CheckType) /\ Len(T) = 3 * n /\ ToSet(T) = {T[k] : k \in 1 .. 3 * n}
  <2>1. PICK l : l = 3 * n
    OBVIOUS
  <2>2. l \in Nat /\ T \in [1 .. l -> CheckType]
    BY <1>9, <1>8, <2>1
  <2>3. T \in Seq(CheckType) /\ Len(T) = l /\ ToSet(T) = {T[k] : k \in 1 .. l}
    BY ONLY <2>2, SeqOfPositions
  <2> QED
    BY ONLY <2>1, <2>3
<1>12. /\ flow \in Seq(CheckType)
       /\ isFlow => Last(flow) \in ToSet(flow)
       /\ \A c \in ToSet(flow) : isFlow /\ \E l2 \in Q : c = Check(hbi_cntr + 3, "data", m, l2, FALSE, -1)
  <2>1. CASE isFlow
    <3> DEFINE C == {Check(hbi_cntr + 3, "data", m, l2, FALSE, -1) : l2 \in Q}
    <3>1. \A l2 \in Q : Check(hbi_cntr + 3, "data", m, l2, FALSE, -1) \in C
      OBVIOUS
    <3>2. hbi_cntr + 3 \in Nat /\ ControlInv
      BY <1>4
    <3>3. PICK seq, samecore : seq = hbi_cntr + 3 /\ samecore = FALSE
      OBVIOUS
    <3>4. C \subseteq CheckType
      BY ONLY <1>2, <3>2, CheckWellFormed
    <3>5. flow = FlowChecks(m, o2, hbi_cntr + 3, FALSE)
      BY <1>5, <2>1
    <3> HIDE DEF C
    <3>6. o2 \in Seq(Q) /\ Len(o2) \in Nat \ {0}
      BY <1>3
    <3>7. flow \in Seq(C) /\ Last(flow) \in ToSet(flow) /\ ToSet(flow) \subseteq C
      <4>1. \A l2 \in Q : Check(seq, "data", m, l2, samecore, -1) \in C
        BY ONLY <3>1, <3>3
      <4>2. flow = FlowChecks(m, o2, seq, samecore)
        BY ONLY <3>5, <3>3
      <4>3. FlowChecks(m, o2, seq, samecore) \in Seq(C)
        BY ONLY <3>6, <4>1, FlowHypotheses
      <4>4. Last(FlowChecks(m, o2, seq, samecore)) \in ToSet(FlowChecks(m, o2, seq, samecore))
        BY ONLY <3>6, <4>1, FlowHypotheses
      <4>5. ToSet(FlowChecks(m, o2, seq, samecore)) \subseteq C
        BY ONLY <3>6, <4>1, FlowHypotheses
      <4> QED
        BY ONLY <4>2, <4>3, <4>4, <4>5
    <3>8. flow \in Seq(CheckType)
      BY ONLY <3>4, <3>7
    <3> QED
      BY <2>1, <3>7, <3>8 DEF C
  <2>2. CASE ~ isFlow
    <3>1. flow = << >>
      BY <1>5, <2>2
    <3>2. flow \in Seq(CheckType) /\ DOMAIN flow = {}
      BY <3>1, EmptySeq
    <3>3. ToSet(flow) = {}
      BY ONLY <3>2 DEF ToSet
    <3> QED
      BY <2>2, <3>2, <3>3
  <2> QED
    BY <2>1, <2>2
<1>13. PICK new : new = T \o flow
  OBVIOUS
<1>14. /\ new \in Seq(CheckType) /\ Len(new) = 3 * n + Len(flow)
       /\ \A k \in 1 .. 3 * n : new[k] = T[k]
       /\ \A k \in 1 .. Len(flow) : new[3 * n + k] = flow[k]
       /\ ToSet(new) = ToSet(T) \cup ToSet(flow)
  <2>1. T \in Seq(CheckType) /\ flow \in Seq(CheckType)
    BY <1>11, <1>12
  <2>2. /\ new \in Seq(CheckType) /\ Len(new) = Len(T) + Len(flow)
        /\ \A k \in 1 .. Len(T) : new[k] = T[k]
        /\ \A k \in 1 .. Len(flow) : new[Len(T) + k] = flow[k]
        /\ ToSet(new) = ToSet(T) \cup ToSet(flow)
    BY ONLY <1>13, <2>1, ToSetConcat
  <2> QED
    BY ONLY <1>11, <2>2
<1>15. hbi_checkings' = hbi_checkings \o new
  <2>1. PICK old : old = hbi_checkings
    OBVIOUS
  <2>2. old \in Seq(CheckType) /\ T \in Seq(CheckType) /\ flow \in Seq(CheckType)
    BY <1>4, <1>11, <1>12, <2>1
  <2>3. (old \o T) \o flow = old \o (T \o flow)
    BY ONLY <2>2, ConcatAssociative
  <2> QED
    BY ONLY <1>10, <1>13, <2>1, <2>3
<1>16. added \in {3, 4} /\ (isFlow <=> added = 4)
  BY <1>5
<1>17. /\ DOMAIN files' = DOMAIN files \cup (hbi_cntr .. hbi_cntr + added - 1)
       /\ \A k \in 0 .. hbi_cntr - 1 : files'[k] = files[k]
       /\ \A i \in 0 .. 2 : files'[hbi_cntr + i] = InterfaceFile(Steps[i + 1], i1, i2, m, a, b)
       /\ isFlow => files'[hbi_cntr + 3] = flowFile
  BY <1>4, <1>10, <1>16 DEF PutAll
<1>18. /\ DOMAIN hbi_meta' = 0 .. hbi_cntr' - 1
       /\ \A k \in 0 .. hbi_cntr - 1 : hbi_meta'[k] = hbi_meta[k]
       /\ \A i \in 0 .. 2 : hbi_meta'[hbi_cntr + i] = T[(i + 1) * n]
       /\ isFlow => hbi_meta'[hbi_cntr + 3] = Last(flow)
  BY <1>4, <1>10, <1>16 DEF PutAll
<1>19. /\ hbi_cntr' \in Nat /\ hbi_cntr' >= hbi_cntr
       /\ 0 .. hbi_cntr' - 1 \subseteq DOMAIN files' /\ \A k \in DOMAIN files' : k \in Nat
  <2>1. hbi_cntr' = hbi_cntr + 3 \/ hbi_cntr' = hbi_cntr + 4
    BY <1>10, <1>16
  <2>2. hbi_cntr' \in Nat /\ hbi_cntr' >= hbi_cntr
    BY ONLY <1>4, <2>1
  <2>3. 0 .. hbi_cntr' - 1 = (0 .. hbi_cntr - 1) \cup (hbi_cntr .. hbi_cntr + added - 1)
    BY ONLY <1>4, <1>10, <1>16
  <2>4. \A k \in hbi_cntr .. hbi_cntr + added - 1 : k \in Nat
    BY ONLY <1>4, <1>16
  <2> QED
    BY <1>4, <1>17, <2>2, <2>3, <2>4
<1>20. \A c \in ToSet(new) : Sound(c)'
  <2> SUFFICES ASSUME NEW c \in ToSet(new)
               PROVE  /\ c.seq \in 0 .. hbi_cntr' - 1 /\ \A g \in {files'[c.seq]} : Answers(c, g)'
                      /\ c.next >= 0 => c.next \in 0 .. hbi_cntr' - 1
    BY DEF Sound
  <2>1. CASE c \in ToSet(T)
    <3>1. PICK i \in 0 .. 2, l1 \in P, l2 \in Q :
            c = Check(hbi_cntr + i, "temporal", l1, l2, TRUE, RelevantFile(i))
      <4>1. PICK k \in 1 .. 3 * n : c = T[k]
        BY ONLY <1>11, <2>1
      <4> QED
        BY ONLY <1>9, <4>1
    <3>2. c.seq = hbi_cntr + i /\ c.next = RelevantFile(i)
      BY ONLY <3>1 DEF Check
    <3>3. RelevantFile(i) # -1 /\ (RelevantFile(i) >= 0 => RelevantFile(i) \in 0 .. hbi_cntr' - 1)
      BY ONLY <1>4, <1>10, <1>16, i \in 0 .. 2 DEF RelevantFile
    <3>4. c.seq \in 0 .. hbi_cntr' - 1
      BY ONLY <1>4, <1>10, <1>16, <3>2, i \in 0 .. 2
    <3>5. Answers(c, InterfaceFile(Steps[i + 1], i1, i2, m, a, b))
      BY <1>1, <3>1, <3>3, AccessAnswered
    <3>6. PICK g : g = InterfaceFile(Steps[i + 1], i1, i2, m, a, b)
      OBVIOUS
    <3>7. Answers(c, g)' /\ files'[c.seq] = g
      BY <1>17, <3>2, <3>5, <3>6, AnswersStable
    <3> QED
      BY ONLY <3>2, <3>3, <3>4, <3>7
  <2>2. CASE c \in ToSet(flow)
    <3>1. PICK l2 \in Q : c = Check(hbi_cntr + 3, "data", m, l2, FALSE, -1)
      BY ONLY <1>12, <2>2
    <3>2. isFlow /\ files'[hbi_cntr + 3] = flowFile
      BY ONLY <1>12, <1>17, <2>2
    <3>3. c.seq = hbi_cntr + 3 /\ c.next = -1
      BY ONLY <3>1 DEF Check
    <3>4. c.seq \in 0 .. hbi_cntr' - 1
      BY ONLY <1>4, <1>10, <1>16, <3>2, <3>3
    <3>5. ~ b.write /\ flowFile.kind = "flow" /\ flowFile.mem = m /\ flowFile.i1 = i1 /\ flowFile.i2 = i2
      <4>1. ~ b.write
        BY ONLY <1>5, <3>2, Zenon
      <4>2. flowFile = [kind |-> "flow", i1 |-> i1, i2 |-> i2, mem |-> m]
        BY ONLY <1>5, Zenon
      <4> QED
        BY ONLY <4>1, <4>2
    <3>6. Answers(c, flowFile)
      BY <1>1, <3>1, <3>5, FlowAnswered
    <3>7. Answers(c, flowFile)' /\ files'[c.seq] = flowFile
      BY <3>2, <3>3, <3>6, AnswersStable
    <3> QED
      BY ONLY <3>3, <3>4, <3>7
  <2> QED
    BY <1>14, <2>1, <2>2
<1>21. \A k \in DOMAIN new : Linked(new, k)'
  <2> SUFFICES ASSUME NEW k \in DOMAIN new
               PROVE  Linked(new, k)'
    OBVIOUS
  <2>1. Len(flow) \in Nat /\ DOMAIN new = 1 .. 3 * n + Len(flow) /\ DOMAIN flow = 1 .. Len(flow)
    BY ONLY <1>12, <1>14, LenProperties
  <2>2. CASE k \in 1 .. 3 * n
    <3>1. PICK i \in 0 .. 2, l1 \in P, l2 \in Q :
              /\ T[k] = Check(hbi_cntr + i, "temporal", l1, l2, TRUE, RelevantFile(i))
              /\ i < 2 => /\ k + n \in 1 .. 3 * n
                          /\ T[k + n] = Check(hbi_cntr + i + 1, "temporal", l1, l2, TRUE, RelevantFile(i + 1))
      BY ONLY <1>9, <2>2
    <3>2. new[k] = T[k]
      BY ONLY <1>14, <2>2
    <3>3. new[k].seq = hbi_cntr + i /\ new[k].next = RelevantFile(i) /\ new[k].l1 = l1 /\ new[k].l2 = l2
      BY ONLY <3>1, <3>2 DEF Check
    <3>4. StepOf(new[k])' = Steps[i + 1]
      BY ONLY <1>17, <3>3, i \in 0 .. 2 DEF StepOf, InterfaceFile
    <3>5. ASSUME i < 2
          PROVE  /\ k + n \in k + 1 .. Len(new)
                 /\ new[k + n].seq = new[k].next /\ new[k + n].l1 = l1 /\ new[k + n].l2 = l2
                 /\ StepOf(new[k + n])' = Steps[i + 2]
      <4>1. k + n \in 1 .. 3 * n
        BY ONLY <3>1, <3>5
      <4>2. k + n \in k + 1 .. Len(new)
        BY ONLY <1>14, <1>8, <2>1, <2>2, <4>1
      <4>3. new[k + n] = T[k + n]
        BY ONLY <1>14, <4>1
      <4>4. new[k + n].seq = hbi_cntr + i + 1 /\ new[k + n].l1 = l1 /\ new[k + n].l2 = l2
        BY ONLY <3>1, <3>5, <4>3 DEF Check
      <4>5. RelevantFile(i) = hbi_cntr + i + 1
        BY ONLY <3>5 DEF RelevantFile
      <4>6. StepOf(new[k + n])' = files'[hbi_cntr + i + 1].kind
        BY ONLY <4>4 DEF StepOf
      <4>7. files'[hbi_cntr + (i + 1)] = InterfaceFile(Steps[(i + 1) + 1], i1, i2, m, a, b)
            /\ hbi_cntr + (i + 1) = hbi_cntr + i + 1 /\ (i + 1) + 1 = i + 2
        BY ONLY <1>4, <1>17, <3>5, i \in 0 .. 2
      <4>8. StepOf(new[k + n])' = Steps[i + 2]
        BY ONLY <4>6, <4>7 DEF InterfaceFile
      <4> QED
        BY ONLY <3>3, <4>2, <4>4, <4>5, <4>8
    <3>6. CASE i = 0
      BY ONLY <3>3, <3>4, <3>5, <3>6, <1>4 DEF Linked, RelevantFile, Steps
    <3>7. CASE i = 1
      BY ONLY <3>3, <3>4, <3>5, <3>7, <1>4 DEF Linked, RelevantFile, Steps
    <3>8. CASE i = 2
      BY ONLY <3>3, <3>4, <3>8 DEF Linked, RelevantFile, Steps
    <3> QED
      BY ONLY <3>6, <3>7, <3>8, i \in 0 .. 2
  <2>3. CASE k \notin 1 .. 3 * n
    <3>1. PICK l : l = k - 3 * n
      OBVIOUS
    <3>2. l \in 1 .. Len(flow) /\ k = 3 * n + l
      BY ONLY <1>8, <2>1, <2>3, <3>1, k \in DOMAIN new
    <3>3. new[k] = flow[l] /\ flow[l] \in ToSet(flow)
      BY ONLY <1>14, <2>1, <3>2 DEF ToSet
    <3>4. new[k].next = -1
      BY ONLY <1>12, <3>3 DEF Check
    <3> QED
      BY ONLY <3>4 DEF Linked
  <2> QED
    BY <2>2, <2>3
<1>22. \A k \in hbi_cntr .. hbi_cntr' - 1 : hbi_meta'[k].seq = k /\ hbi_meta'[k] \in ToSet(new)
  <2> SUFFICES ASSUME NEW k \in hbi_cntr .. hbi_cntr' - 1
               PROVE  hbi_meta'[k].seq = k /\ hbi_meta'[k] \in ToSet(new)
    OBVIOUS
  <2>1. PICK i : i = k - hbi_cntr
    OBVIOUS
  <2>2. k = hbi_cntr + i /\ (i \in 0 .. 2 \/ (i = 3 /\ isFlow))
    BY ONLY <1>4, <1>10, <1>16, <2>1, k \in hbi_cntr .. hbi_cntr' - 1
  <2>3. CASE i \in 0 .. 2
    <3>1. (i + 1) * n \in 1 .. 3 * n /\ T[(i + 1) * n].seq = hbi_cntr + i
      BY ONLY <1>9, <2>3
    <3>2. hbi_meta'[k] = T[(i + 1) * n]
      BY ONLY <1>18, <2>2, <2>3
    <3>3. T[(i + 1) * n] \in ToSet(T)
      BY ONLY <1>11, <3>1
    <3> QED
      BY ONLY <1>14, <2>2, <3>1, <3>2, <3>3
  <2>4. CASE i = 3 /\ isFlow
    <3>1. hbi_meta'[k] = Last(flow) /\ Last(flow) \in ToSet(flow)
      BY ONLY <1>12, <1>18, <2>2, <2>4
    <3>2. Last(flow).seq = hbi_cntr + 3
      BY ONLY <1>12, <3>1 DEF Check
    <3> QED
      BY ONLY <1>14, <2>2, <2>4, <3>1, <3>2
  <2> QED
    BY ONLY <2>2, <2>3, <2>4
<1>23. FilesInv'
  <2>1. FilesInv /\ design' = design /\ calls' = calls
    OBVIOUS
  <2> QED
    BY ONLY <2>1, <1>14, <1>15, <1>17, <1>18, <1>19, <1>20, <1>21, <1>22, Pushed
<1>24. PcrInv'
  BY <1>4, <1>10, <1>17, <1>19, PcrUnchanged
<1> QED
  BY <1>23, <1>24

-----------------------------------------------------------------------------
(* The induction.                                                          *)

(* The work of a section is about nodes and accesses the pair really has.  *)
LEMMA WorkItems ==
  /\ \A t, n : <<t, n>> \in SpatialWork =>
       t \in 1 .. Depth(i1, i2) /\ n \in design.uhb[i1][t] /\ n \in design.uhb[i2][t]
  /\ \A m, a, b : <<m, a, b>> \in InterfaceWork =>
       /\ m \in DOMAIN design.loc[i1] \cap DOMAIN design.loc[i2]
       /\ a \in design.loc[i1][m] /\ b \in design.loc[i2][m]
  /\ \A t, n1, n2 : <<t, n1, n2>> \in PipelineWork =>
       t \in 1 .. Depth(i1, i2) /\ n1 \in design.uhb[i1][t] /\ n2 \in design.uhb[i2][t]
<1>1. ASSUME NEW t, NEW n, <<t, n>> \in SpatialWork
      PROVE  t \in 1 .. Depth(i1, i2) /\ n \in design.uhb[i1][t] /\ n \in design.uhb[i2][t]
  BY <1>1 DEF SpatialWork
<1>2. ASSUME NEW m, NEW a, NEW b, <<m, a, b>> \in InterfaceWork
      PROVE  /\ m \in DOMAIN design.loc[i1] \cap DOMAIN design.loc[i2]
             /\ a \in design.loc[i1][m] /\ b \in design.loc[i2][m]
  BY <1>2 DEF InterfaceWork
<1>3. ASSUME NEW t, NEW n1, NEW n2, <<t, n1, n2>> \in PipelineWork
      PROVE  t \in 1 .. Depth(i1, i2) /\ n1 \in design.uhb[i1][t] /\ n2 \in design.uhb[i2][t]
  BY <1>3 DEF PipelineWork
<1> QED
  BY <1>1, <1>2, <1>3

(* An item of a section leaves the pair and its remaining work in place.   *)
LEMMA ControlKept ==
  ASSUME ControlInv, UNCHANGED <<design, i1, i2, calls>>, todo' \subseteq todo,
         phase' = phase \/ phase' = "abort"
  PROVE  ControlInv'
<1>1. SpatialWork' = SpatialWork /\ InterfaceWork' = InterfaceWork /\ PipelineWork' = PipelineWork
  BY DEF SpatialWork, InterfaceWork, PipelineWork, Depth
<1>2. Instns' = Instns
  BY DEF Instns
<1> QED
  BY <1>1, <1>2 DEF ControlInv

(* The form of a hypothesis depends on the design alone.                   *)
LEMMA CheckTypeStable == ASSUME design' = design PROVE CheckType' = CheckType
BY DEF CheckType, Elements

(* Spatial keeps the invariant.                                            *)
LEMMA SpatialKeeps ==
  ASSUME IInv, NEW t, NEW n, Spatial(t, n)
  PROVE  IInv'
<1> USE DEF IInv
<1>1. /\ phase = "spatial" /\ <<t, n>> \in todo /\ todo' \subseteq todo
      /\ UNCHANGED <<design, phase, i1, i2, hbi_inferred_invalid, calls>>
  BY DEF Spatial, TakeInStageOrder
<1>2. t \in 1 .. Depth(i1, i2) /\ n \in design.uhb[i1][t] /\ n \in design.uhb[i2][t]
  BY <1>1, WorkItems DEF ControlInv
<1>3. ControlInv' /\ CheckType' = CheckType
  BY <1>1, ControlKept, CheckTypeStable
<1>4. CASE IsMem(i1, n)
  <2>1. hbi_inferred' = hbi_inferred \cup {Check(-1, "spatial", n, n, IsLocal(n), -1)} /\ UNCHANGED output
    BY <1>4 DEF Spatial
  <2>2. n \in Elements(design)
    BY <1>2, Stages DEF ControlInv
  <2>3. i1 \in Nat /\ i2 \in Nat
    BY Stages DEF ControlInv
  <2>4. Check(-1, "spatial", n, n, IsLocal(n), -1) \in CheckType
    BY <2>2, <2>3 DEF Check, CheckType, IsLocal
  <2>5. InferredInv'
    BY <1>1, <1>3, <2>1, <2>4 DEF InferredInv
  <2>6. FilesInv' /\ PcrInv'
    BY <1>1, <2>1, FilesUnchanged DEF output, PcrInv
  <2> QED
    BY <1>3, <2>5, <2>6
<1>5. CASE ~ IsMem(i1, n)
  <2>1. PcrCheck(t, "spatial", n, n) /\ UNCHANGED hbi_inferred
    BY <1>5 DEF Spatial
  <2>2. FilesInv' /\ PcrInv'
    BY <1>1, <1>2, <2>1, PcrStep
  <2> QED
    BY <1>1, <1>3, <2>1, <2>2 DEF InferredInv
<1> QED
  BY <1>4, <1>5

(* Pipeline keeps the invariant.                                           *)
LEMMA PipelineKeeps ==
  ASSUME IInv, NEW t, NEW n1, NEW n2, Pipeline(t, n1, n2)
  PROVE  IInv'
<1> USE DEF IInv
<1>1. /\ phase = "pipeline" /\ <<t, n1, n2>> \in todo /\ todo' \subseteq todo
      /\ UNCHANGED <<design, phase, i1, i2, hbi_inferred, hbi_inferred_invalid, calls>>
      /\ UNCHANGED output \/ PcrCheck(t, "temporal", n1, n2)
  BY DEF Pipeline, TakeInStageOrder
<1>2. t \in 1 .. Depth(i1, i2) /\ n1 \in design.uhb[i1][t] /\ n2 \in design.uhb[i2][t]
  BY <1>1, WorkItems DEF ControlInv
<1>3. ControlInv' /\ InferredInv'
  BY <1>1, ControlKept, CheckTypeStable DEF InferredInv
<1>4. CASE UNCHANGED output
  BY <1>1, <1>3, <1>4, FilesUnchanged DEF output, PcrInv
<1>5. CASE PcrCheck(t, "temporal", n1, n2)
  BY <1>1, <1>2, <1>3, <1>5, PcrStep
<1> QED
  BY <1>1, <1>4, <1>5

(* Interface keeps the invariant.                                          *)
LEMMA InterfaceKeeps ==
  ASSUME IInv, NEW m, NEW a, NEW b, Interface(m, a, b)
  PROVE  IInv'
<1> USE DEF IInv
<1>1. /\ phase = "interface" /\ <<m, a, b>> \in todo /\ todo' \subseteq todo
      /\ UNCHANGED <<design, phase, i1, i2, hbi_inferred, calls>>
  BY DEF Interface
<1>2. m \in DOMAIN design.loc[i1] \cap DOMAIN design.loc[i2]
      /\ a \in design.loc[i1][m] /\ b \in design.loc[i2][m]
  BY <1>1, WorkItems DEF ControlInv
<1>3. ControlInv' /\ CheckType' = CheckType
  BY <1>1, ControlKept, CheckTypeStable
<1>4. PICK o1 \in SetToSeqs(DownPool(i1, m, a)), o2 \in SetToSeqs(DownPool(i2, m, b)) :
        IF IsLocal(m) THEN LocalInterface(m, a, b, o2) ELSE SharedInterface(m, a, b, o1, o2)
  BY DEF Interface
<1>5. CASE IsLocal(m)
  BY <1>1, <1>2, <1>3, <1>4, <1>5, LocalStep DEF InferredInv
<1>6. CASE ~ IsLocal(m)
  <2>1. FilesInv' /\ PcrInv'
    BY <1>1, <1>2, <1>4, <1>6, SharedStep
  <2>2. UNCHANGED hbi_inferred_invalid
    BY <1>4, <1>6 DEF SharedInterface
  <2> QED
    BY <1>1, <1>3, <2>1, <2>2 DEF InferredInv
<1> QED
  BY <1>5, <1>6

(* A step that stops, or moves to the next section or pair, keeps the      *)
(* invariant.                                                              *)
LEMMA ControlKeeps ==
  ASSUME IInv, UNCHANGED <<design, output, hbi_inferred, hbi_inferred_invalid, calls>>, ControlInv'
  PROVE  IInv'
<1> USE DEF IInv
<1>1. FilesInv' /\ PcrInv'
  BY FilesUnchanged DEF output, PcrInv
<1>2. InferredInv'
  BY CheckTypeStable DEF InferredInv
<1> QED
  BY <1>1, <1>2

(* EndSection moves to a pair the design has.                              *)
LEMMA EndSectionKeeps == ASSUME IInv, EndSection PROVE IInv'
<1>1. UNCHANGED <<design, output, hbi_inferred, hbi_inferred_invalid, calls>>
  BY DEF EndSection
<1>2. /\ Len(design.uhb) \in Nat \ {0} /\ Instns = 1 .. Len(design.uhb)
      /\ design' = design /\ Instns' = Instns
      /\ i1 \in Instns /\ i2 \in Instns
  BY <1>1, Stages DEF IInv, ControlInv, Instns
<1>3. CASE phase = "spatial"
  <2>1. phase' = "interface" /\ todo' = InterfaceWork /\ i1' = i1 /\ i2' = i2
    BY <1>3 DEF EndSection
  <2>2. InterfaceWork' = InterfaceWork
    BY <1>2, <2>1 DEF InterfaceWork
  <2> QED
    BY <1>1, <1>2, <2>1, <2>2, ControlKeeps DEF IInv, ControlInv
<1>4. CASE phase = "interface"
  <2>1. phase' = "pipeline" /\ todo' = PipelineWork /\ i1' = i1 /\ i2' = i2
    BY <1>4 DEF EndSection
  <2>2. PipelineWork' = PipelineWork
    BY <1>2, <2>1 DEF PipelineWork, Depth
  <2> QED
    BY <1>1, <1>2, <2>1, <2>2, ControlKeeps DEF IInv, ControlInv
<1>5. CASE phase = "pipeline"
  <2>1. CASE i1 = Len(design.uhb) /\ i2 = Len(design.uhb)
    <3>1. phase' = "done" /\ i1' = i1 /\ i2' = i2
      BY <1>5, <2>1 DEF EndSection
    <3> QED
      BY <1>1, <1>2, <3>1, ControlKeeps DEF IInv, ControlInv
  <2>2. CASE ~ (i1 = Len(design.uhb) /\ i2 = Len(design.uhb))
    <3>1. /\ phase' = "spatial" /\ todo' = SpatialWork'
          /\ i1' = IF i2 = Len(design.uhb) THEN i1 + 1 ELSE i1
          /\ i2' = IF i2 = Len(design.uhb) THEN 1 ELSE i2 + 1
      BY <1>5, <2>2 DEF EndSection
    <3>2. i1' \in Instns /\ i2' \in Instns
      BY ONLY <1>2, <2>2, <3>1
    <3> QED
      BY <1>1, <1>2, <3>1, <3>2, ControlKeeps DEF IInv, ControlInv
  <2> QED
    BY <2>1, <2>2
<1> QED
  BY <1>3, <1>4, <1>5 DEF EndSection

(* A second execution starts over with the files of the first in place.    *)
LEMMA CallAgainKeeps == ASSUME IInv, CallAgain PROVE IInv'
<1> USE DEF IInv
<1>1. /\ design' = design /\ files' = files /\ pcr_inorder_hbi' = pcr_inorder_hbi
      /\ UNCHANGED <<hbi_inferred, hbi_inferred_invalid>>
      /\ phase' = "spatial" /\ i1' = 1 /\ i2' = 1 /\ todo' = SpatialWork'
      /\ calls < MaxCalls /\ calls' = calls + 1
      /\ hbi_cntr' = 0 /\ hbi_checkings' = << >> /\ hbi_meta' = << >>
  BY DEF CallAgain
<1>2. calls' \in 1 .. MaxCalls /\ calls' # 1
  BY <1>1, DesignsAssumption DEF ControlInv
<1>3. ControlInv'
  <2>1. 1 \in Instns'
    BY <1>1, Stages DEF ControlInv, Instns
  <2> QED
    BY <1>1, <1>2, <2>1 DEF ControlInv
<1>4. FilesInv'
  <2>1. hbi_checkings' \in Seq(CheckType') /\ DOMAIN hbi_checkings' = {} /\ DOMAIN hbi_meta' = {}
    BY <1>1, EmptySeq
  <2>2. Hypotheses' = {}
    BY ONLY <2>1 DEF Hypotheses, ToSet
  <2>3. 0 .. hbi_cntr' - 1 = {}
    BY <1>1
  <2> QED
    BY <1>1, <2>1, <2>2, <2>3 DEF FilesInv, MetaListsEveryFile
<1>5. PcrInv'
  BY <1>1, <1>2 DEF PcrInv
<1>6. InferredInv'
  BY <1>1, CheckTypeStable DEF InferredInv
<1> QED
  BY <1>3, <1>4, <1>5, <1>6

(* The initial states satisfy the invariant.                               *)
LEMMA Initially == ASSUME Init PROVE IInv
<1> USE DEF Init
<1>1. ControlInv
  BY Stages, DesignsAssumption DEF ControlInv
<1>2. FilesInv
  <2>1. hbi_checkings \in Seq(CheckType) /\ DOMAIN hbi_checkings = {}
        /\ DOMAIN hbi_meta = {} /\ DOMAIN files = {}
    BY EmptySeq
  <2>2. Hypotheses = {}
    BY ONLY <2>1 DEF Hypotheses, ToSet
  <2>3. 0 .. hbi_cntr - 1 = {}
    OBVIOUS
  <2> QED
    BY <2>1, <2>2, <2>3 DEF FilesInv, MetaListsEveryFile
<1>3. PcrInv
  <2>1. DOMAIN pcr_inorder_hbi = {}
    BY EmptySeq
  <2> QED
    BY <2>1 DEF PcrInv
<1>4. InferredInv
  BY DEF InferredInv
<1> QED
  BY <1>1, <1>2, <1>3, <1>4 DEF IInv

(* Every step keeps the invariant.                                         *)
LEMMA Inductive == ASSUME IInv, [Next]_vars PROVE IInv'
<1>1. ASSUME NEW w \in todo, Spatial(w[1], w[2]) PROVE IInv'
  BY <1>1, SpatialKeeps
<1>2. ASSUME NEW w \in todo, Interface(w[1], w[2], w[3]) PROVE IInv'
  BY <1>2, InterfaceKeeps
<1>3. ASSUME NEW w \in todo, InterfaceAbort(w[1], w[2], w[3]) PROVE IInv'
  <2>1. phase' = "abort" /\ UNCHANGED <<design, i1, i2, todo, output, hbi_inferred, hbi_inferred_invalid, calls>>
    BY <1>3 DEF InterfaceAbort
  <2>2. ControlInv'
    BY <2>1, ControlKept DEF IInv
  <2> QED
    BY <2>1, <2>2, ControlKeeps
<1>4. ASSUME NEW w \in todo, Pipeline(w[1], w[2], w[3]) PROVE IInv'
  BY <1>4, PipelineKeeps
<1>5. CASE UNCHANGED vars
  <2>1. /\ UNCHANGED <<design, output, hbi_inferred, hbi_inferred_invalid, calls>>
        /\ UNCHANGED <<phase, i1, i2, todo>>
    BY <1>5 DEF vars
  <2>2. ControlInv'
    BY <2>1, ControlKept DEF IInv
  <2> QED
    BY <2>1, <2>2, ControlKeeps
<1> QED
  BY <1>1, <1>2, <1>3, <1>4, <1>5, EndSectionKeeps, CallAgainKeeps DEF Next

(* The invariant holds throughout.                                         *)
THEOREM Invariance == Spec => []IInv
<1>1. Init => IInv
  BY Initially
<1>2. IInv /\ [Next]_vars => IInv'
  BY Inductive
<1> QED
  BY <1>1, <1>2, PTL DEF Spec

(* The variables of generate keep their types: a hypothesis is about two   *)
(* state elements of the design, and carries a file number, or -1 when it  *)
(* needs none.                                                             *)
THEOREM TypeCorrect == Spec => []TypeOK
<1>1. IInv => TypeOK
  BY Enough
<1> QED
  BY <1>1, Invariance, PTL

(* Every file is listed once for the checker, under its own number and for *)
(* a hypothesis that waits for it; and in the first execution the file a   *)
(* hypothesis names asserts that hypothesis.                               *)
THEOREM FilesCorrect == Spec => []FileAnswersHypothesis
<1>1. IInv => FileAnswersHypothesis
  BY Enough
<1> QED
  BY <1>1, Invariance, PTL

(* Every send hypothesis is followed by its receive hypothesis, and that   *)
(* one by the process hypothesis that closes the chain.                    *)
THEOREM ChainsCorrect == Spec => []ChainsClosed
<1>1. IInv => ChainsClosed
  BY Enough
<1> QED
  BY <1>1, Invariance, PTL

(* In a later execution too, where the file of a PC register may be one of *)
(* an earlier one, the hypotheses about accesses are answered.             *)
AccessesAnswered ==
  \A c \in Hypotheses : c.type = "data" \/ c.next # -1 =>
    c.seq \in DOMAIN files /\ Answers(c, files[c.seq])

(* The file a protocol or data-flow hypothesis names asserts it, in every  *)
(* execution of the pass.                                                  *)
THEOREM AccessFilesCorrect == Spec => []AccessesAnswered
<1>1. IInv => AccessesAnswered
  BY DEF IInv, FilesInv, Sound, AccessesAnswered
<1> QED
  BY <1>1, Invariance, PTL

-----------------------------------------------------------------------------
(* The orders the design calls for.  Each is made by one work item of one  *)
(* section of generate; those of the items generate has taken have been    *)
(* made, as many of each kind as the design has.                           *)

PcrOrder(i, j, t, type, n1, n2) ==
  Orders!Item(<<"pcr", i, j, StagePcr(t)>>, type, i, j, n1, n2, TRUE)
SpatialOrder(i, j, t, n) ==
  IF IsMem(i, n) THEN Orders!Item(<<"inferred">>, "spatial", i, j, n, n, IsLocal(n))
  ELSE PcrOrder(i, j, t, "spatial", n, n)
Ordered(i, j, n1, n2) == n1 # n2 /\ ~ SharedMem(i, n1) /\ ~ SharedMem(j, n2)
AccessOrder(i, j, m, a, b, n1, n2) ==
  Orders!Item(<<"access", i, j, m, a, b>>, "temporal", i, j, n1, n2, TRUE)
FlowOrder(i, j, m, a, b, n) == Orders!Item(<<"flow", i, j, m, a, b>>, "data", i, j, m, n, IsLocal(m))
AccessOrders(i, j, m, a, b) ==
  IF IsLocal(m) THEN {} ELSE {AccessOrder(i, j, m, a, b, p[1], p[2]) : p \in DownPool(i, m, a) \X DownPool(j, m, b)}
FlowOrders(i, j, m, a, b) ==
  IF a.write /\ ~ b.write THEN {FlowOrder(i, j, m, a, b, n) : n \in design.down[j][m]} ELSE {}

(* The work items of a section of a pair, and the orders one of them makes.*)
Sections == {"spatial", "interface", "pipeline"}
Work(i, j, section) ==
  CASE section = "spatial" ->
         UNION {{t} \X (design.uhb[i][t] \cap design.uhb[j][t]) : t \in 1 .. Depth(i, j)}
    [] section = "interface" ->
         UNION {{m} \X design.loc[i][m] \X design.loc[j][m] : m \in DOMAIN design.loc[i] \cap DOMAIN design.loc[j]}
    [] section = "pipeline" ->
         UNION {{t} \X design.uhb[i][t] \X design.uhb[j][t] : t \in 1 .. Depth(i, j)}
OrdersOf(i, j, section, w) ==
  CASE section = "spatial"   -> {SpatialOrder(i, j, w[1], w[2])}
    [] section = "interface" -> AccessOrders(i, j, w[1], w[2], w[3]) \cup FlowOrders(i, j, w[1], w[2], w[3])
    [] section = "pipeline"  ->
         IF Ordered(i, j, w[2], w[3]) THEN {PcrOrder(i, j, w[1], "temporal", w[2], w[3])} ELSE {}

(* How far generate has come.                                              *)
Before(i, j) == i < i1 \/ (i = i1 /\ j < i2)
AtPair(i, j) == i = i1 /\ j = i2
Past == CASE phase = "spatial"   -> {}
          [] phase = "interface" -> {"spatial"}
          [] phase = "pipeline"  -> {"spatial", "interface"}
          [] OTHER               -> Sections
Taken(i, j, section, w) ==
  Before(i, j) \/ (AtPair(i, j) /\ (section \in Past \/ (section = phase /\ w \notin todo)))
Made ==
  {it \in Orders!Items :
     \E i, j \in Instns, section \in Sections : \E w \in Work(i, j, section) :
       Taken(i, j, section, w) /\ it \in OrdersOf(i, j, section, w)}

(* What generate has made so far, and the file of an order about one       *)
(* PC register.                                                            *)
Found == {c \in Hypotheses : c.next < 0} \cup hbi_inferred
FileOf(c) ==
  IF c.seq = -1 THEN <<"inferred">> ELSE <<"pcr", files[c.seq].i1, files[c.seq].i2, files[c.seq].pcr>>
AboutUpdates(c) == c.type # "data" /\ c.next = -1

(* As many of each kind as those that should have been made, and of the    *)
(* orders of two updates, each with its file.                              *)
CountInv ==
  /\ IsFiniteSet(Found) /\ IsFiniteSet(Made)
  /\ \A kind : Count(Found, kind) = Count(Made, kind)
  /\ \A c \in hbi_inferred : c.seq = -1
  /\ \A c \in Found : AboutUpdates(c) => \E it \in Made : Kind(it) = Kind(c) /\ it.file = FileOf(c)
MadeInv ==
  phase # "abort" =>
    /\ \A it \in Made : \E c \in Found : Kind(c) = Kind(it)
    /\ phase = "done" => AtPair(Len(design.uhb), Len(design.uhb))
    /\ calls = 1 => CountInv
-----------------------------------------------------------------------------
(* Counting.                                                               *)

(* Two sets that have nothing in common are counted one after the other.   *)
LEMMA CountSum ==
  ASSUME NEW A, NEW B, IsFiniteSet(A), IsFiniteSet(B), A \cap B = {}, NEW kind
  PROVE  Count(A \cup B, kind) = Count(A, kind) + Count(B, kind)
<1> DEFINE As == {x \in A : Kind(x) = kind}
           Bs == {x \in B : Kind(x) = kind}
<1>1. IsFiniteSet(As) /\ IsFiniteSet(Bs)
  BY FS_Subset
<1>2. As \cap Bs = {} /\ {x \in A \cup B : Kind(x) = kind} = As \cup Bs
  OBVIOUS
<1>3. Cardinality(As) \in Nat /\ Cardinality(Bs) \in Nat
  BY <1>1, FS_CardinalityType
<1> HIDE DEF As, Bs
<1>4. Cardinality(As \cup Bs) = Cardinality(As) + Cardinality(Bs)
  BY <1>1, <1>2, <1>3, FS_Union, FS_EmptySet
<1> QED
  BY <1>2, <1>4 DEF Count, As, Bs

(* Two sets with one member of every kind they have, and the same kinds,   *)
(* count the same.                                                         *)
LEMMA CountOfKinds ==
  ASSUME NEW A, NEW B,
         \A x \in A : \E y \in B : Kind(y) = Kind(x), \A y \in B : \E x \in A : Kind(x) = Kind(y),
         \A x, y \in A : Kind(x) = Kind(y) => x = y, \A x, y \in B : Kind(x) = Kind(y) => x = y,
         NEW kind
  PROVE  Count(A, kind) = Count(B, kind)
<1> DEFINE As == {x \in A : Kind(x) = kind}
           Bs == {x \in B : Kind(x) = kind}
<1>1. CASE \E x \in A : Kind(x) = kind
  <2>1. PICK x \in A, y \in B : Kind(x) = kind /\ Kind(y) = kind
    BY <1>1
  <2>2. As = {x} /\ Bs = {y}
    BY <2>1
  <2> QED
    BY <2>2, FS_Singleton DEF Count
<1>2. CASE ~ \E x \in A : Kind(x) = kind
  <2>1. As = {} /\ Bs = {}
    BY <1>2
  <2> QED
    BY <2>1 DEF Count
<1> QED
  BY <1>1, <1>2

-----------------------------------------------------------------------------
(* The orders of the design, by section.                                   *)

(* DesignOrders asks the design what generate asks it.                     *)
LEMMA SameDesign ==
  /\ Orders!Instns = Instns
  /\ \A i, j : Orders!Depth(i, j) = Depth(i, j)
  /\ \A t : Orders!StagePcr(t) = StagePcr(t)
  /\ \A i, n : Orders!IsMem(i, n) <=> IsMem(i, n)
  /\ \A n : Orders!IsLocal(n) <=> IsLocal(n)
  /\ \A i, n : Orders!SharedMem(i, n) <=> SharedMem(i, n)
  /\ \A i, m, a : Orders!DownPool(i, m, a) = DownPool(i, m, a)
BY DEF Orders!Instns, Orders!Depth, Orders!StagePcr, Orders!IsMem, Orders!IsLocal, Orders!SharedMem,
   Orders!DownPool, Instns, Depth, StagePcr, IsMem, IsLocal, SharedMem, DownPool

(* A step does not change the orders the design calls for.                 *)
LEMMA OrdersFrame ==
  ASSUME UNCHANGED design
  PROVE  Orders!Items' = Orders!Items
BY DEF Orders!Items, Orders!PairItems, Orders!StageItems, Orders!InferredItems,
   Orders!AccessItems, Orders!FlowItems, Orders!Item, Orders!PcrType, Orders!StagePcr, Orders!IsMem,
   Orders!SharedMem, Orders!IsLocal, Orders!DownPool, Orders!Depth, Orders!Instns

(* The orders of a pair of accesses.                                       *)
LEMMA AccessesOrdered ==
  ASSUME NEW i, NEW j, NEW m, NEW a, NEW b
  PROVE  /\ Orders!AccessItems(i, j, m, a, b) = AccessOrders(i, j, m, a, b)
         /\ Orders!FlowItems(i, j, m, a, b) = FlowOrders(i, j, m, a, b)
<1>1. Orders!AccessItems(i, j, m, a, b) = AccessOrders(i, j, m, a, b)
  BY SameDesign DEF Orders!AccessItems, AccessOrders, AccessOrder
<1>2. Orders!FlowItems(i, j, m, a, b) = FlowOrders(i, j, m, a, b)
  BY DEF Orders!FlowItems, FlowOrders, FlowOrder, Orders!IsLocal, IsLocal
<1> QED
  BY <1>1, <1>2

(* The orders of a pair of instructions are those of its stages and those  *)
(* of its accesses.                                                        *)
LEMMA PairOrders ==
  ASSUME NEW i, NEW j
  PROVE  /\ \A t \in 1 .. Depth(i, j) :
              Orders!StageItems(i, j, t) \cup Orders!InferredItems(i, j, t) \subseteq Orders!PairItems(i, j)
         /\ \A m \in DOMAIN design.loc[i] \cap DOMAIN design.loc[j] :
              \A p \in design.loc[i][m] \X design.loc[j][m] :
                Orders!AccessItems(i, j, m, p[1], p[2]) \cup Orders!FlowItems(i, j, m, p[1], p[2])
                  \subseteq Orders!PairItems(i, j)
<1> DEFINE StageSet(t) == Orders!StageItems(i, j, t) \cup Orders!InferredItems(i, j, t)
           AccessSet(m, p) == Orders!AccessItems(i, j, m, p[1], p[2]) \cup Orders!FlowItems(i, j, m, p[1], p[2])
           Stagewise == {StageSet(t) : t \in 1 .. Orders!Depth(i, j)}
           Of(m) == {AccessSet(m, p) : p \in design.loc[i][m] \X design.loc[j][m]}
           Accesswise == UNION {Of(m) : m \in DOMAIN design.loc[i] \cap DOMAIN design.loc[j]}
<1>1. Orders!PairItems(i, j) = UNION (Stagewise \cup Accesswise)
  BY DEF Orders!PairItems
<1>2. \A t \in 1 .. Depth(i, j) : StageSet(t) \in Stagewise
  BY SameDesign
<1>3. \A m \in DOMAIN design.loc[i] \cap DOMAIN design.loc[j] :
        \A p \in design.loc[i][m] \X design.loc[j][m] : AccessSet(m, p) \in Accesswise
  <2> TAKE m \in DOMAIN design.loc[i] \cap DOMAIN design.loc[j]
  <2> TAKE p \in design.loc[i][m] \X design.loc[j][m]
  <2>1. AccessSet(m, p) \in Of(m)
    OBVIOUS
  <2> HIDE DEF Of, AccessSet
  <2> QED
    BY <2>1
<1> HIDE DEF Stagewise, Accesswise
<1>4. \A X \in Stagewise \cup Accesswise : X \subseteq Orders!PairItems(i, j)
  BY <1>1
<1> QED
  BY ONLY <1>2, <1>3, <1>4

(* The order of two updates of one element is called for.                  *)
LEMMA SpatialCalled ==
  ASSUME NEW i \in Instns, NEW j \in Instns, NEW t \in 1 .. Depth(i, j),
         NEW n \in design.uhb[i][t] \cap design.uhb[j][t]
  PROVE  SpatialOrder(i, j, t, n) \in Orders!Items
<1>1. SpatialOrder(i, j, t, n) \in Orders!StageItems(i, j, t) \cup Orders!InferredItems(i, j, t)
  <2>1. CASE IsMem(i, n)
    <3>1. n \in {m \in design.uhb[i][t] \cap design.uhb[j][t] : Orders!IsMem(i, m)}
      BY <2>1, SameDesign
    <3>2. SpatialOrder(i, j, t, n) = Orders!Item(<<"inferred">>, "spatial", i, j, n, n, Orders!IsLocal(n))
      BY <2>1 DEF SpatialOrder, IsLocal, Orders!IsLocal
    <3> QED
      BY <3>1, <3>2 DEF Orders!InferredItems
  <2>2. CASE ~ IsMem(i, n)
    <3> DEFINE p == <<n, n>>
    <3>1. p \in {q \in design.uhb[i][t] \X design.uhb[j][t] :
                   IF q[1] = q[2] THEN ~ Orders!IsMem(i, q[1])
                   ELSE ~ Orders!SharedMem(i, q[1]) /\ ~ Orders!SharedMem(j, q[2])}
      BY <2>2, SameDesign
    <3>2. SpatialOrder(i, j, t, n)
            = Orders!Item(<<"pcr", i, j, Orders!StagePcr(t)>>, Orders!PcrType(p[1], p[2]), i, j, p[1], p[2], TRUE)
      BY <2>2, SameDesign DEF SpatialOrder, PcrOrder, Orders!PcrType
    <3> HIDE DEF p
    <3> QED
      BY <3>1, <3>2 DEF Orders!StageItems
  <2> QED
    BY <2>1, <2>2
<1>2. SpatialOrder(i, j, t, n) \in Orders!PairItems(i, j)
  BY <1>1, PairOrders
<1> QED
  BY <1>2, <<i, j>> \in Instns \X Instns, SameDesign DEF Orders!Items

(* And of the updates of two elements of a stage.                          *)
LEMMA PipelineCalled ==
  ASSUME NEW i \in Instns, NEW j \in Instns, NEW t \in 1 .. Depth(i, j),
         NEW n1 \in design.uhb[i][t], NEW n2 \in design.uhb[j][t], Ordered(i, j, n1, n2)
  PROVE  PcrOrder(i, j, t, "temporal", n1, n2) \in Orders!Items
<1> DEFINE p == <<n1, n2>>
<1>1. p \in {q \in design.uhb[i][t] \X design.uhb[j][t] :
               IF q[1] = q[2] THEN ~ Orders!IsMem(i, q[1])
               ELSE ~ Orders!SharedMem(i, q[1]) /\ ~ Orders!SharedMem(j, q[2])}
  BY SameDesign DEF Ordered
<1>2. PcrOrder(i, j, t, "temporal", n1, n2)
        = Orders!Item(<<"pcr", i, j, Orders!StagePcr(t)>>, Orders!PcrType(p[1], p[2]), i, j, p[1], p[2], TRUE)
  BY SameDesign DEF PcrOrder, Orders!PcrType, Ordered
<1> HIDE DEF p
<1>3. PcrOrder(i, j, t, "temporal", n1, n2) \in Orders!StageItems(i, j, t)
  BY <1>1, <1>2 DEF Orders!StageItems
<1>4. PcrOrder(i, j, t, "temporal", n1, n2) \in Orders!PairItems(i, j)
  BY <1>3, PairOrders
<1> QED
  BY <1>4, <<i, j>> \in Instns \X Instns, SameDesign DEF Orders!Items

(* And of two accesses of a memory.                                        *)
LEMMA AccessesCalled ==
  ASSUME NEW i \in Instns, NEW j \in Instns, NEW m \in DOMAIN design.loc[i] \cap DOMAIN design.loc[j],
         NEW a \in design.loc[i][m], NEW b \in design.loc[j][m]
  PROVE  AccessOrders(i, j, m, a, b) \cup FlowOrders(i, j, m, a, b) \subseteq Orders!Items
<1> DEFINE p == <<a, b>>
<1>1. p \in design.loc[i][m] \X design.loc[j][m] /\ p[1] = a /\ p[2] = b
  OBVIOUS
<1> HIDE DEF p
<1>2. Orders!AccessItems(i, j, m, p[1], p[2]) \cup Orders!FlowItems(i, j, m, p[1], p[2]) \subseteq Orders!PairItems(i, j)
  BY <1>1, PairOrders
<1>3. Orders!PairItems(i, j) \subseteq Orders!Items
  BY <<i, j>> \in Instns \X Instns, SameDesign DEF Orders!Items
<1> QED
  BY <1>1, <1>2, <1>3, AccessesOrdered

(* Nothing else is called for.                                             *)
LEMMA NothingElse ==
  ASSUME NEW it \in Orders!Items
  PROVE  \E i, j \in Instns :
           \/ \E t \in 1 .. Depth(i, j) : \E n \in design.uhb[i][t] \cap design.uhb[j][t] :
                it = SpatialOrder(i, j, t, n)
           \/ \E t \in 1 .. Depth(i, j) : \E n1 \in design.uhb[i][t], n2 \in design.uhb[j][t] :
                Ordered(i, j, n1, n2) /\ it = PcrOrder(i, j, t, "temporal", n1, n2)
           \/ \E m \in DOMAIN design.loc[i] \cap DOMAIN design.loc[j] :
                \E a \in design.loc[i][m], b \in design.loc[j][m] :
                  it \in AccessOrders(i, j, m, a, b) \cup FlowOrders(i, j, m, a, b)
<1>1. PICK i \in Instns, j \in Instns : it \in Orders!PairItems(i, j)
  BY SameDesign DEF Orders!Items
<1>2. \/ \E t \in 1 .. Depth(i, j) : it \in Orders!StageItems(i, j, t) \cup Orders!InferredItems(i, j, t)
      \/ \E m \in DOMAIN design.loc[i] \cap DOMAIN design.loc[j] :
           \E p \in design.loc[i][m] \X design.loc[j][m] :
             it \in Orders!AccessItems(i, j, m, p[1], p[2]) \cup Orders!FlowItems(i, j, m, p[1], p[2])
  BY <1>1, SameDesign DEF Orders!PairItems
<1>3. CASE \E t \in 1 .. Depth(i, j) : it \in Orders!StageItems(i, j, t) \cup Orders!InferredItems(i, j, t)
  <2>1. PICK t \in 1 .. Depth(i, j) : it \in Orders!StageItems(i, j, t) \/ it \in Orders!InferredItems(i, j, t)
    BY <1>3
  <2>2. CASE it \in Orders!StageItems(i, j, t)
    <3>1. PICK p \in design.uhb[i][t] \X design.uhb[j][t] :
            /\ IF p[1] = p[2] THEN ~ IsMem(i, p[1]) ELSE ~ SharedMem(i, p[1]) /\ ~ SharedMem(j, p[2])
            /\ it = Orders!Item(<<"pcr", i, j, StagePcr(t)>>, Orders!PcrType(p[1], p[2]), i, j, p[1], p[2], TRUE)
      BY <2>2, SameDesign DEF Orders!StageItems
    <3>2. CASE p[1] = p[2]
      <4>1. it = SpatialOrder(i, j, t, p[1])
        BY <3>1, <3>2 DEF SpatialOrder, PcrOrder, Orders!PcrType
      <4> QED
        BY <3>1, <3>2, <4>1
    <3>3. CASE p[1] # p[2]
      <4>1. it = PcrOrder(i, j, t, "temporal", p[1], p[2]) /\ Ordered(i, j, p[1], p[2])
        BY <3>1, <3>3 DEF PcrOrder, Orders!PcrType, Ordered
      <4> QED
        BY <3>1, <4>1
    <3> QED
      BY <3>2, <3>3
  <2>3. CASE it \in Orders!InferredItems(i, j, t)
    <3>1. PICK n \in design.uhb[i][t] \cap design.uhb[j][t] :
            /\ Orders!IsMem(i, n)
            /\ it = Orders!Item(<<"inferred">>, "spatial", i, j, n, n, Orders!IsLocal(n))
      BY ONLY <2>3 DEF Orders!InferredItems
    <3>2. it = SpatialOrder(i, j, t, n)
      BY <3>1 DEF SpatialOrder, IsLocal, Orders!IsLocal, IsMem, Orders!IsMem
    <3> QED
      BY <3>2
  <2> QED
    BY <2>1, <2>2, <2>3
<1>4. CASE \E m \in DOMAIN design.loc[i] \cap DOMAIN design.loc[j] :
             \E p \in design.loc[i][m] \X design.loc[j][m] :
               it \in Orders!AccessItems(i, j, m, p[1], p[2]) \cup Orders!FlowItems(i, j, m, p[1], p[2])
  <2>1. PICK m \in DOMAIN design.loc[i] \cap DOMAIN design.loc[j] : \E p \in design.loc[i][m] \X design.loc[j][m] :
          it \in Orders!AccessItems(i, j, m, p[1], p[2]) \cup Orders!FlowItems(i, j, m, p[1], p[2])
    BY <1>4
  <2>2. PICK a \in design.loc[i][m], b \in design.loc[j][m] :
          it \in Orders!AccessItems(i, j, m, a, b) \cup Orders!FlowItems(i, j, m, a, b)
    BY <2>1
  <2> QED
    BY <2>2, AccessesOrdered
<1> QED
  BY <1>2, <1>3, <1>4

(* A work item, by its components.                                         *)
LEMMA WorkForms ==
  ASSUME NEW i, NEW j
  PROVE  /\ \A w \in Work(i, j, "spatial") :
              /\ w[1] \in 1 .. Depth(i, j) /\ w[2] \in design.uhb[i][w[1]] \cap design.uhb[j][w[1]]
              /\ w = <<w[1], w[2]>>
         /\ \A w \in Work(i, j, "interface") :
              /\ w[1] \in DOMAIN design.loc[i] \cap DOMAIN design.loc[j]
              /\ w[2] \in design.loc[i][w[1]] /\ w[3] \in design.loc[j][w[1]] /\ w = <<w[1], w[2], w[3]>>
         /\ \A w \in Work(i, j, "pipeline") :
              /\ w[1] \in 1 .. Depth(i, j) /\ w[2] \in design.uhb[i][w[1]] /\ w[3] \in design.uhb[j][w[1]]
              /\ w = <<w[1], w[2], w[3]>>
         /\ \A t \in 1 .. Depth(i, j) : \A n \in design.uhb[i][t] \cap design.uhb[j][t] :
              <<t, n>> \in Work(i, j, "spatial")
         /\ \A m \in DOMAIN design.loc[i] \cap DOMAIN design.loc[j] :
              \A a \in design.loc[i][m], b \in design.loc[j][m] : <<m, a, b>> \in Work(i, j, "interface")
         /\ \A t \in 1 .. Depth(i, j) : \A n1 \in design.uhb[i][t], n2 \in design.uhb[j][t] :
              <<t, n1, n2>> \in Work(i, j, "pipeline")
<1>1. Work(i, j, "spatial") = UNION {{t} \X (design.uhb[i][t] \cap design.uhb[j][t]) : t \in 1 .. Depth(i, j)}
  BY DEF Work
<1>2. Work(i, j, "interface") =
        UNION {{m} \X design.loc[i][m] \X design.loc[j][m] : m \in DOMAIN design.loc[i] \cap DOMAIN design.loc[j]}
  BY DEF Work
<1>3. Work(i, j, "pipeline") = UNION {{t} \X design.uhb[i][t] \X design.uhb[j][t] : t \in 1 .. Depth(i, j)}
  BY DEF Work
<1>4. \A w \in Work(i, j, "spatial") :
              /\ w[1] \in 1 .. Depth(i, j) /\ w[2] \in design.uhb[i][w[1]] \cap design.uhb[j][w[1]]
              /\ w = <<w[1], w[2]>>
  BY ONLY <1>1
<1>5. \A w \in Work(i, j, "interface") :
              /\ w[1] \in DOMAIN design.loc[i] \cap DOMAIN design.loc[j]
              /\ w[2] \in design.loc[i][w[1]] /\ w[3] \in design.loc[j][w[1]] /\ w = <<w[1], w[2], w[3]>>
  BY ONLY <1>2
<1>6. \A w \in Work(i, j, "pipeline") :
              /\ w[1] \in 1 .. Depth(i, j) /\ w[2] \in design.uhb[i][w[1]] /\ w[3] \in design.uhb[j][w[1]]
              /\ w = <<w[1], w[2], w[3]>>
  BY ONLY <1>3
<1>7. \A t \in 1 .. Depth(i, j) : \A n \in design.uhb[i][t] \cap design.uhb[j][t] :
        <<t, n>> \in Work(i, j, "spatial")
  BY ONLY <1>1
<1>8. \A m \in DOMAIN design.loc[i] \cap DOMAIN design.loc[j] :
        \A a \in design.loc[i][m], b \in design.loc[j][m] : <<m, a, b>> \in Work(i, j, "interface")
  BY ONLY <1>2
<1>9. \A t \in 1 .. Depth(i, j) : \A n1 \in design.uhb[i][t], n2 \in design.uhb[j][t] :
        <<t, n1, n2>> \in Work(i, j, "pipeline")
  BY ONLY <1>3
<1> QED
  BY ONLY <1>4, <1>5, <1>6, <1>7, <1>8, <1>9

(* The orders a work item makes are called for.                            *)
LEMMA WorkCalled ==
  ASSUME NEW i \in Instns, NEW j \in Instns, NEW section \in Sections, NEW w \in Work(i, j, section)
  PROVE  OrdersOf(i, j, section, w) \subseteq Orders!Items
<1>1. CASE section = "spatial"
  <2>1. OrdersOf(i, j, section, w) = {SpatialOrder(i, j, w[1], w[2])}
    BY <1>1 DEF OrdersOf
  <2>2. w[1] \in 1 .. Depth(i, j) /\ w[2] \in design.uhb[i][w[1]] \cap design.uhb[j][w[1]]
    BY <1>1, WorkForms
  <2> QED
    BY <2>1, <2>2, SpatialCalled
<1>2. CASE section = "interface"
  <2>1. OrdersOf(i, j, section, w) = AccessOrders(i, j, w[1], w[2], w[3]) \cup FlowOrders(i, j, w[1], w[2], w[3])
    BY <1>2 DEF OrdersOf
  <2>2. /\ w[1] \in DOMAIN design.loc[i] \cap DOMAIN design.loc[j]
        /\ w[2] \in design.loc[i][w[1]] /\ w[3] \in design.loc[j][w[1]]
    BY <1>2, WorkForms
  <2> QED
    BY <2>1, <2>2, AccessesCalled
<1>3. CASE section = "pipeline"
  <2>1. OrdersOf(i, j, section, w) =
          IF Ordered(i, j, w[2], w[3]) THEN {PcrOrder(i, j, w[1], "temporal", w[2], w[3])} ELSE {}
    BY <1>3 DEF OrdersOf
  <2>2. w[1] \in 1 .. Depth(i, j) /\ w[2] \in design.uhb[i][w[1]] /\ w[3] \in design.uhb[j][w[1]]
    BY <1>3, WorkForms
  <2> QED
    BY <2>1, <2>2, PipelineCalled
<1> QED
  BY <1>1, <1>2, <1>3 DEF Sections

(* And every order called for is made by a work item.                      *)
LEMMA EveryOrder ==
  ASSUME NEW it \in Orders!Items
  PROVE  \E i, j \in Instns, section \in Sections : \E w \in Work(i, j, section) : it \in OrdersOf(i, j, section, w)
<1>1. PICK i \in Instns, j \in Instns :
        \/ \E t \in 1 .. Depth(i, j) : \E n \in design.uhb[i][t] \cap design.uhb[j][t] :
             it = SpatialOrder(i, j, t, n)
        \/ \E t \in 1 .. Depth(i, j) : \E n1 \in design.uhb[i][t], n2 \in design.uhb[j][t] :
             Ordered(i, j, n1, n2) /\ it = PcrOrder(i, j, t, "temporal", n1, n2)
        \/ \E m \in DOMAIN design.loc[i] \cap DOMAIN design.loc[j] :
             \E a \in design.loc[i][m], b \in design.loc[j][m] :
               it \in AccessOrders(i, j, m, a, b) \cup FlowOrders(i, j, m, a, b)
  BY NothingElse
<1>2. ASSUME NEW t \in 1 .. Depth(i, j), NEW n \in design.uhb[i][t] \cap design.uhb[j][t],
             it = SpatialOrder(i, j, t, n)
      PROVE  \E section \in Sections : \E w \in Work(i, j, section) : it \in OrdersOf(i, j, section, w)
  <2>1. PICK w : w = <<t, n>>
    OBVIOUS
  <2>2. w \in Work(i, j, "spatial") /\ OrdersOf(i, j, "spatial", w) = {SpatialOrder(i, j, t, n)}
    BY <2>1, WorkForms DEF OrdersOf
  <2> QED
    BY <1>2, <2>2 DEF Sections
<1>3. ASSUME NEW t \in 1 .. Depth(i, j), NEW n1 \in design.uhb[i][t], NEW n2 \in design.uhb[j][t],
             Ordered(i, j, n1, n2), it = PcrOrder(i, j, t, "temporal", n1, n2)
      PROVE  \E section \in Sections : \E w \in Work(i, j, section) : it \in OrdersOf(i, j, section, w)
  <2>1. PICK w : w = <<t, n1, n2>>
    OBVIOUS
  <2>2. w \in Work(i, j, "pipeline")
    BY <2>1, WorkForms
  <2>3. OrdersOf(i, j, "pipeline", w) = {PcrOrder(i, j, t, "temporal", n1, n2)}
    BY <1>3, <2>1 DEF OrdersOf
  <2> QED
    BY <1>3, <2>2, <2>3 DEF Sections
<1>4. ASSUME NEW m \in DOMAIN design.loc[i] \cap DOMAIN design.loc[j],
             NEW a \in design.loc[i][m], NEW b \in design.loc[j][m],
             it \in AccessOrders(i, j, m, a, b) \cup FlowOrders(i, j, m, a, b)
      PROVE  \E section \in Sections : \E w \in Work(i, j, section) : it \in OrdersOf(i, j, section, w)
  <2>1. PICK w : w = <<m, a, b>>
    OBVIOUS
  <2>2. w \in Work(i, j, "interface")
    BY <2>1, WorkForms
  <2>3. OrdersOf(i, j, "interface", w) = AccessOrders(i, j, m, a, b) \cup FlowOrders(i, j, m, a, b)
    BY <2>1 DEF OrdersOf
  <2> QED
    BY <1>4, <2>2, <2>3 DEF Sections
<1> QED
  BY <1>1, <1>2, <1>3, <1>4

(* A node is at one stage of an instruction's path.                        *)
LEMMA OneStage ==
  ASSUME design \in Designs, NEW i \in Instns, NEW j \in Instns,
         NEW t \in 1 .. Depth(i, j), NEW u \in 1 .. Depth(i, j),
         NEW n \in design.uhb[i][t] \cap design.uhb[i][u]
  PROVE  t = u
<1>1. design.uhb \in Seq(Seq((SUBSET Elements(design)) \ {{}}))
  BY DesignsAssumption DEF DesignOK
<1>2. design.uhb[i] \in Seq((SUBSET Elements(design)) \ {{}}) /\ design.uhb[j] \in Seq((SUBSET Elements(design)) \ {{}})
  BY <1>1, ElementOfSeq, LenProperties DEF Instns
<1>3. DOMAIN design.uhb[i] = 1 .. Len(design.uhb[i]) /\ Len(design.uhb[i]) \in Nat /\ Len(design.uhb[j]) \in Nat
  BY <1>2, LenProperties
<1>4. t \in DOMAIN design.uhb[i] /\ u \in DOMAIN design.uhb[i]
  BY <1>3 DEF Depth
<1>5. \A v \in DOMAIN design.uhb[i] : design.uhb[i][t] \cap design.uhb[i][v] # {} => t = v
  BY <1>4, DesignsAssumption DEF DesignOK, Instns
<1> QED
  BY <1>4, <1>5

(* What an order says of the work item that makes it.                      *)
LEMMA OrderFields ==
  ASSUME NEW i, NEW j, NEW section \in Sections, NEW w \in Work(i, j, section), NEW it \in OrdersOf(i, j, section, w)
  PROVE  /\ it.i1 = i /\ it.i2 = j
         /\ section = "spatial" => /\ it.type = "spatial" /\ it.l1 = w[2] /\ it.l2 = w[2]
                                   /\ it.file[1] \in {"pcr", "inferred"} /\ it = SpatialOrder(i, j, w[1], w[2])
         /\ section = "pipeline" => /\ it.type = "temporal" /\ it.l1 = w[2] /\ it.l2 = w[3]
                                    /\ it.file[1] = "pcr" /\ it = PcrOrder(i, j, w[1], "temporal", w[2], w[3])
         /\ section = "interface" => /\ it.file[1] \in {"access", "flow"}
                                     /\ it.file[4] = w[1] /\ it.file[5] = w[2] /\ it.file[6] = w[3]
<1>1. CASE section = "spatial"
  <2>1. it = SpatialOrder(i, j, w[1], w[2])
    BY <1>1 DEF OrdersOf
  <2> QED
    BY <1>1, <2>1 DEF SpatialOrder, PcrOrder, Orders!Item
<1>2. CASE section = "pipeline"
  <2>1. it = PcrOrder(i, j, w[1], "temporal", w[2], w[3])
    BY <1>2 DEF OrdersOf
  <2> QED
    BY <1>2, <2>1 DEF PcrOrder, Orders!Item
<1>3. CASE section = "interface"
  <2>1. it \in AccessOrders(i, j, w[1], w[2], w[3]) \/ it \in FlowOrders(i, j, w[1], w[2], w[3])
    BY <1>3 DEF OrdersOf
  <2>2. CASE it \in AccessOrders(i, j, w[1], w[2], w[3])
    BY <1>3, <2>2 DEF AccessOrders, AccessOrder, Orders!Item
  <2>3. CASE it \in FlowOrders(i, j, w[1], w[2], w[3])
    BY <1>3, <2>3 DEF FlowOrders, FlowOrder, Orders!Item
  <2> QED
    BY <2>1, <2>2, <2>3
<1> QED
  BY <1>1, <1>2, <1>3 DEF Sections

(* No two work items make the same order.                                  *)
LEMMA OneWork ==
  ASSUME design \in Designs,
         NEW i \in Instns, NEW j \in Instns, NEW section \in Sections, NEW w \in Work(i, j, section),
         NEW k \in Instns, NEW l \in Instns, NEW other \in Sections, NEW v \in Work(k, l, other),
         NEW it \in OrdersOf(i, j, section, w), it \in OrdersOf(k, l, other, v)
  PROVE  k = i /\ l = j /\ other = section /\ v = w
<1>1. k = i /\ l = j
  BY OrderFields
<1>2. other = section
  <2>1. section = "interface" <=> it.file[1] \in {"access", "flow"}
    BY OrderFields DEF Sections
  <2>2. other = "interface" <=> it.file[1] \in {"access", "flow"}
    BY OrderFields DEF Sections
  <2>3. section = "spatial" => it.type = "spatial"
    BY OrderFields
  <2>4. other = "spatial" => it.type = "spatial"
    BY OrderFields
  <2>5. section = "pipeline" => it.type = "temporal"
    BY OrderFields
  <2>6. other = "pipeline" => it.type = "temporal"
    BY OrderFields
  <2> QED
    BY <2>1, <2>2, <2>3, <2>4, <2>5, <2>6 DEF Sections
<1>3. v \in Work(i, j, section) /\ it \in OrdersOf(i, j, section, v)
  BY <1>1, <1>2
<1>4. CASE section = "spatial"
  <2>1. /\ w[1] \in 1 .. Depth(i, j) /\ w[2] \in design.uhb[i][w[1]] /\ w = <<w[1], w[2]>>
        /\ v[1] \in 1 .. Depth(i, j) /\ v[2] \in design.uhb[i][v[1]] /\ v = <<v[1], v[2]>>
    BY <1>3, <1>4, WorkForms
  <2>2. w[2] = v[2]
    BY <1>3, <1>4, OrderFields
  <2>3. w[1] = v[1]
    BY <2>1, <2>2, OneStage
  <2> QED
    BY <1>1, <1>2, <2>1, <2>2, <2>3
<1>5. CASE section = "pipeline"
  <2>1. /\ w[1] \in 1 .. Depth(i, j) /\ w[2] \in design.uhb[i][w[1]] /\ w = <<w[1], w[2], w[3]>>
        /\ v[1] \in 1 .. Depth(i, j) /\ v[2] \in design.uhb[i][v[1]] /\ v = <<v[1], v[2], v[3]>>
    BY <1>3, <1>5, WorkForms
  <2>2. w[2] = v[2] /\ w[3] = v[3]
    BY <1>3, <1>5, OrderFields
  <2>3. w[1] = v[1]
    BY <2>1, <2>2, OneStage
  <2> QED
    BY <1>1, <1>2, <2>1, <2>2, <2>3
<1>6. CASE section = "interface"
  <2>1. w = <<w[1], w[2], w[3]>> /\ v = <<v[1], v[2], v[3]>>
    BY <1>3, <1>6, WorkForms
  <2>2. w[1] = v[1] /\ w[2] = v[2] /\ w[3] = v[3]
    BY <1>3, <1>6, OrderFields
  <2> QED
    BY <1>1, <1>2, <2>1, <2>2
<1> QED
  BY <1>4, <1>5, <1>6 DEF Sections

(* Orders of two updates of the same kind are one order.                   *)
LEMMA OneUpdateOrder ==
  ASSUME design \in Designs, NEW x \in Orders!Items, NEW y \in Orders!Items, Kind(x) = Kind(y),
         x.file[1] \in {"pcr", "inferred"}, y.file[1] \in {"pcr", "inferred"}
  PROVE  x = y
<1>1. PICK i \in Instns, j \in Instns, section \in Sections :
        \E w \in Work(i, j, section) : x \in OrdersOf(i, j, section, w)
  BY EveryOrder
<1>2. PICK w \in Work(i, j, section) : x \in OrdersOf(i, j, section, w)
  BY <1>1
<1>3. PICK k \in Instns, l \in Instns, other \in Sections :
        \E v \in Work(k, l, other) : y \in OrdersOf(k, l, other, v)
  BY EveryOrder
<1>4. PICK v \in Work(k, l, other) : y \in OrdersOf(k, l, other, v)
  BY <1>3
<1>5. x.type = y.type /\ x.i1 = y.i1 /\ x.i2 = y.i2 /\ x.l1 = y.l1 /\ x.l2 = y.l2
  BY DEF Kind
<1>6. k = i /\ l = j
  BY <1>2, <1>4, <1>5, OrderFields
<1>7. section \in {"spatial", "pipeline"} /\ other \in {"spatial", "pipeline"}
  BY <1>2, <1>4, OrderFields DEF Sections
<1>8. other = section
  BY <1>2, <1>4, <1>5, <1>7, OrderFields
<1>9. CASE section = "spatial"
  <2>1. x = SpatialOrder(i, j, w[1], w[2]) /\ y = SpatialOrder(i, j, v[1], v[2]) /\ w[2] = v[2]
    BY <1>2, <1>4, <1>5, <1>6, <1>8, <1>9, OrderFields
  <2>2. w[1] = v[1]
    BY <1>2, <1>4, <1>6, <1>8, <1>9, <2>1, WorkForms, OneStage
  <2> QED
    BY <2>1, <2>2
<1>10. CASE section = "pipeline"
  <2>1. /\ x = PcrOrder(i, j, w[1], "temporal", w[2], w[3]) /\ y = PcrOrder(i, j, v[1], "temporal", v[2], v[3])
        /\ w[2] = v[2] /\ w[3] = v[3]
    BY <1>2, <1>4, <1>5, <1>6, <1>8, <1>10, OrderFields
  <2>2. w[1] = v[1]
    BY <1>2, <1>4, <1>6, <1>8, <1>10, <2>1, WorkForms, OneStage
  <2> QED
    BY <2>1, <2>2
<1> QED
  BY <1>7, <1>9, <1>10

-----------------------------------------------------------------------------
(* The orders made so far grow by those of the work item taken.            *)

(* Work items and their orders depend on the design alone.                 *)
LEMMA WorkFrame ==
  ASSUME design' = design
  PROVE  /\ Instns' = Instns /\ Orders!Items' = Orders!Items
         /\ \A i, j, section : Work(i, j, section)' = Work(i, j, section)
         /\ \A i, j, section, w : OrdersOf(i, j, section, w)' = OrdersOf(i, j, section, w)
<1>1. Instns' = Instns
  BY DEF Instns
<1>2. \A i, j, section : Work(i, j, section)' = Work(i, j, section)
  BY DEF Work, Depth
<1>3. \A i, j, section, w : OrdersOf(i, j, section, w)' = OrdersOf(i, j, section, w)
  BY DEF OrdersOf, SpatialOrder, PcrOrder, AccessOrders, AccessOrder, FlowOrders, FlowOrder, Ordered,
         Orders!Item, DownPool, StagePcr, SharedMem, IsMem, IsLocal
<1> QED
  BY <1>1, <1>2, <1>3, OrdersFrame

(* The pair generate is at is not before itself.                           *)
LEMMA NotBefore == ASSUME design \in Designs, i1 \in Instns, i2 \in Instns PROVE ~ Before(i1, i2) /\ AtPair(i1, i2)
BY Stages DEF Before, AtPair

(* A step that takes a work item makes its orders, which are new.          *)
LEMMA WorkTaken ==
  ASSUME design \in Designs, i1 \in Instns, i2 \in Instns, phase \in Sections,
         NEW w \in Work(i1, i2, phase), w \in todo, todo' = todo \ {w},
         UNCHANGED <<design, phase, i1, i2>>
  PROVE  /\ Made' = Made \cup OrdersOf(i1, i2, phase, w)
         /\ Made \cap OrdersOf(i1, i2, phase, w) = {}
<1>1. phase \notin Past
  BY DEF Past, Sections
<1>2. Past' = Past
  BY DEF Past
<1>3. \A i, j, section, v :
        Taken(i, j, section, v)' <=> Taken(i, j, section, v) \/ (AtPair(i, j) /\ section = phase /\ v = w)
  BY <1>1, <1>2 DEF Taken, Before, AtPair
<1>4. ASSUME NEW it PROVE it \in Made' <=> it \in Made \/ it \in OrdersOf(i1, i2, phase, w)
  <2>1. it \in Made' <=>
          /\ it \in Orders!Items
          /\ \E i, j \in Instns, section \in Sections : \E v \in Work(i, j, section) :
               Taken(i, j, section, v)' /\ it \in OrdersOf(i, j, section, v)
    BY WorkFrame DEF Made, Sections
  <2>2. ASSUME it \in Made' PROVE it \in Made \/ it \in OrdersOf(i1, i2, phase, w)
    <3>1. PICK i \in Instns, j \in Instns, section \in Sections : \E v \in Work(i, j, section) :
            Taken(i, j, section, v)' /\ it \in OrdersOf(i, j, section, v)
      BY <2>1, <2>2
    <3>2. PICK v \in Work(i, j, section) : Taken(i, j, section, v)' /\ it \in OrdersOf(i, j, section, v)
      BY <3>1
    <3>3. CASE Taken(i, j, section, v)
      BY <2>1, <2>2, <3>2, <3>3 DEF Made
    <3>4. CASE AtPair(i, j) /\ section = phase /\ v = w
      BY <3>2, <3>4 DEF AtPair
    <3> QED
      BY <1>3, <3>2, <3>3, <3>4
  <2>3. ASSUME it \in Made PROVE it \in Made'
    <3>1. PICK i \in Instns, j \in Instns, section \in Sections : \E v \in Work(i, j, section) :
            Taken(i, j, section, v) /\ it \in OrdersOf(i, j, section, v)
      BY <2>3 DEF Made
    <3>2. PICK v \in Work(i, j, section) : Taken(i, j, section, v) /\ it \in OrdersOf(i, j, section, v)
      BY <3>1
    <3>3. it \in Orders!Items
      BY <2>3 DEF Made
    <3> QED
      BY <1>3, <2>1, <3>2, <3>3
  <2>4. ASSUME it \in OrdersOf(i1, i2, phase, w) PROVE it \in Made'
    <3>1. it \in Orders!Items
      BY <2>4, WorkCalled
    <3>2. Taken(i1, i2, phase, w)'
      BY <1>3, NotBefore
    <3> QED
      BY <2>1, <2>4, <3>1, <3>2
  <2> QED
    BY <2>2, <2>3, <2>4
<1>5. ASSUME NEW it \in Made, it \in OrdersOf(i1, i2, phase, w) PROVE FALSE
  <2>1. PICK i \in Instns, j \in Instns, section \in Sections : \E v \in Work(i, j, section) :
          Taken(i, j, section, v) /\ it \in OrdersOf(i, j, section, v)
    BY DEF Made
  <2>2. PICK v \in Work(i, j, section) : Taken(i, j, section, v) /\ it \in OrdersOf(i, j, section, v)
    BY <2>1
  <2>3. i = i1 /\ j = i2 /\ section = phase /\ v = w
    BY <1>5, <2>2, OneWork
  <2>4. ~ Taken(i1, i2, phase, w)
    BY <1>1, NotBefore DEF Taken
  <2> QED
    BY <2>2, <2>3, <2>4
<1> QED
  BY <1>4, <1>5

(* A step that takes no work item and moves the control where the same     *)
(* items have been taken makes nothing.                                    *)
LEMMA NothingTaken ==
  ASSUME design' = design,
         \A i, j \in Instns, section \in Sections : \A v \in Work(i, j, section) :
           Taken(i, j, section, v)' <=> Taken(i, j, section, v)
  PROVE  Made' = Made
<1>1. Made' = {it \in Orders!Items :
                 \E i, j \in Instns, section \in Sections : \E v \in Work(i, j, section) :
                   Taken(i, j, section, v)' /\ it \in OrdersOf(i, j, section, v)}
  BY WorkFrame DEF Made, Sections
<1>2. ASSUME NEW it PROVE it \in Made' <=> it \in Made
  <2>1. ASSUME it \in Made PROVE it \in Made'
    <3>1. PICK i \in Instns, j \in Instns, section \in Sections : \E v \in Work(i, j, section) :
            Taken(i, j, section, v) /\ it \in OrdersOf(i, j, section, v)
      BY <2>1 DEF Made
    <3>2. PICK v \in Work(i, j, section) : Taken(i, j, section, v) /\ it \in OrdersOf(i, j, section, v)
      BY <3>1
    <3> QED
      BY <1>1, <2>1, <3>2 DEF Made
  <2>2. ASSUME it \in Made' PROVE it \in Made
    <3>1. PICK i \in Instns, j \in Instns, section \in Sections : \E v \in Work(i, j, section) :
            Taken(i, j, section, v)' /\ it \in OrdersOf(i, j, section, v)
      BY <1>1, <2>2
    <3>2. PICK v \in Work(i, j, section) : Taken(i, j, section, v)' /\ it \in OrdersOf(i, j, section, v)
      BY <3>1
    <3> QED
      BY <1>1, <2>2, <3>2 DEF Made
  <2> QED
    BY <2>1, <2>2
<1> QED
  BY <1>2

(* The end of a section, with no work left, is such a step.                *)
LEMMA SectionEnds == ASSUME ControlInv, EndSection PROVE Made' = Made
<1>1. /\ design' = design /\ todo = {} /\ design \in Designs
      /\ Len(design.uhb) \in Nat \ {0} /\ Instns = 1 .. Len(design.uhb)
      /\ i1 \in Instns /\ i2 \in Instns
  BY Stages DEF EndSection, ControlInv
<1>2. CASE phase = "spatial"
  <2>1. phase' = "interface" /\ todo' = InterfaceWork /\ i1' = i1 /\ i2' = i2
    BY <1>2 DEF EndSection
  <2>2. InterfaceWork = Work(i1, i2, "interface")
    BY DEF InterfaceWork, Work
  <2>3. ASSUME NEW i \in Instns, NEW j \in Instns, NEW section \in Sections, NEW v \in Work(i, j, section)
        PROVE  Taken(i, j, section, v)' <=> Taken(i, j, section, v)
    BY <1>1, <1>2, <2>1, <2>2 DEF Taken, Before, AtPair, Past, Sections
  <2> QED
    BY <1>1, <2>3, NothingTaken
<1>3. CASE phase = "interface"
  <2>1. phase' = "pipeline" /\ todo' = PipelineWork /\ i1' = i1 /\ i2' = i2
    BY <1>3 DEF EndSection
  <2>2. PipelineWork = Work(i1, i2, "pipeline")
    BY DEF PipelineWork, Work
  <2>3. ASSUME NEW i \in Instns, NEW j \in Instns, NEW section \in Sections, NEW v \in Work(i, j, section)
        PROVE  Taken(i, j, section, v)' <=> Taken(i, j, section, v)
    BY <1>1, <1>3, <2>1, <2>2 DEF Taken, Before, AtPair, Past, Sections
  <2> QED
    BY <1>1, <2>3, NothingTaken
<1>4. CASE phase = "pipeline"
  <2>1. CASE i1 = Len(design.uhb) /\ i2 = Len(design.uhb)
    <3>1. phase' = "done" /\ i1' = i1 /\ i2' = i2 /\ todo' = todo
      BY <1>4, <2>1 DEF EndSection
    <3>2. ASSUME NEW i \in Instns, NEW j \in Instns, NEW section \in Sections, NEW v \in Work(i, j, section)
          PROVE  Taken(i, j, section, v)' <=> Taken(i, j, section, v)
      BY <1>1, <1>4, <3>1 DEF Taken, Before, AtPair, Past, Sections
    <3> QED
      BY <1>1, <3>2, NothingTaken
  <2>2. CASE ~ (i1 = Len(design.uhb) /\ i2 = Len(design.uhb))
    <3>1. /\ phase' = "spatial" /\ todo' = SpatialWork'
          /\ i1' = IF i2 = Len(design.uhb) THEN i1 + 1 ELSE i1
          /\ i2' = IF i2 = Len(design.uhb) THEN 1 ELSE i2 + 1
      BY <1>4, <2>2 DEF EndSection
    <3>2. SpatialWork' = Work(i1', i2', "spatial")
      BY <1>1 DEF SpatialWork, Work, Depth
    <3>3. ASSUME NEW i \in Instns, NEW j \in Instns, NEW section \in Sections, NEW v \in Work(i, j, section)
          PROVE  Taken(i, j, section, v)' <=> Taken(i, j, section, v)
      <4>1. Before(i, j)' <=> Before(i, j) \/ AtPair(i, j)
        BY ONLY <1>1, <2>2, <3>1, i \in Instns, j \in Instns DEF Before, AtPair
      <4>2. Taken(i, j, section, v) <=> Before(i, j) \/ AtPair(i, j)
        BY <1>1, <1>4 DEF Taken, Past, Sections
      <4>3. Taken(i, j, section, v)' <=>
              Before(i, j)' \/ (AtPair(i, j)' /\ section = "spatial" /\ v \notin todo')
        BY <3>1 DEF Taken, Past
      <4>4. AtPair(i, j)' /\ section = "spatial" => v \in todo'
        BY <3>1, <3>2 DEF AtPair
      <4> QED
        BY <4>1, <4>2, <4>3, <4>4
    <3> QED
      BY <1>1, <3>3, NothingTaken
  <2> QED
    BY <2>1, <2>2
<1> QED
  BY <1>2, <1>3, <1>4 DEF EndSection

(* When generate starts nothing has been made.                             *)
LEMMA NothingMade ==
  ASSUME design \in Designs, phase = "spatial", i1 = 1, i2 = 1, todo = SpatialWork
  PROVE  Made = {}
<1>1. SpatialWork = Work(1, 1, "spatial") /\ Instns = 1 .. Len(design.uhb) /\ Len(design.uhb) \in Nat
  BY Stages DEF SpatialWork, Work
<1>2. ASSUME NEW i \in Instns, NEW j \in Instns, NEW section \in Sections, NEW v \in Work(i, j, section)
      PROVE  ~ Taken(i, j, section, v)
  BY <1>1 DEF Taken, Before, AtPair, Past
<1> QED
  BY <1>2 DEF Made

(* When it ends everything has.                                            *)
LEMMA AllMade ==
  ASSUME design \in Designs, phase = "done", AtPair(Len(design.uhb), Len(design.uhb))
  PROVE  Made = Orders!Items
<1>1. Instns = 1 .. Len(design.uhb) /\ Len(design.uhb) \in Nat
  BY Stages
<1>2. ASSUME NEW i \in Instns, NEW j \in Instns, NEW section \in Sections, NEW v
      PROVE  Taken(i, j, section, v)
  BY <1>1 DEF Taken, Before, AtPair, Past
<1>3. ASSUME NEW it \in Orders!Items PROVE it \in Made
  <2>1. PICK i \in Instns, j \in Instns, section \in Sections :
          \E w \in Work(i, j, section) : it \in OrdersOf(i, j, section, w)
    BY EveryOrder
  <2> QED
    BY <1>2, <2>1 DEF Made
<1> QED
  BY <1>3 DEF Made

-----------------------------------------------------------------------------
(* The steps of generate make the orders of the work item they take.       *)

(* A set whose members all come from those of a finite set is finite.      *)
LEMMA FiniteImage ==
  ASSUME NEW S, IsFiniteSet(S), NEW T, NEW f \in [S -> T], \A y \in T : \E x \in S : f[x] = y
  PROVE  IsFiniteSet(T)
<1>1. f \in Surjection(S, T)
  BY DEF Surjection
<1> QED
  BY <1>1, FS_Surjection

(* Hypotheses pushed are found, unless they are inside a chain.            *)
LEMMA FoundGrows ==
  ASSUME hbi_checkings \in Seq(CheckType), hbi_inferred' = hbi_inferred,
         NEW C, NEW new \in Seq(C), hbi_checkings' = hbi_checkings \o new
  PROVE  Found' = Found \cup {c \in ToSet(new) : c.next < 0}
<1>1. PICK old, Q, R : old = hbi_checkings /\ Q = CheckType /\ R = Q \cup C
  OBVIOUS
<1>2. Seq(Q) \subseteq Seq(R) /\ Seq(C) \subseteq Seq(R)
  BY ONLY <1>1
<1>3. old \in Seq(R) /\ new \in Seq(R)
  BY <1>1, <1>2
<1>4. ToSet(old \o new) = ToSet(old) \cup ToSet(new)
  BY ONLY <1>3, ToSetConcat
<1>5. Hypotheses' = Hypotheses \cup ToSet(new)
  BY ONLY <1>1, <1>4, hbi_checkings' = hbi_checkings \o new DEF Hypotheses
<1> QED
  BY <1>5 DEF Found

(* Orders made in new hypotheses, one of each kind for each order of that  *)
(* kind, keep the count.                                                   *)
LEMMA Grown ==
  ASSUME MadeInv, phase \in Sections, UNCHANGED <<phase, calls>>,
         NEW D, NEW N, Made' = Made \cup D, Made \cap D = {}, Found' = Found \cup N,
         IsFiniteSet(D), IsFiniteSet(N),
         \A x \in D : \E y \in N : Kind(y) = Kind(x), \A y \in N : \E x \in D : Kind(x) = Kind(y),
         \A x, y \in D : Kind(x) = Kind(y) => x = y, \A x, y \in N : Kind(x) = Kind(y) => x = y,
         calls = 1 => Found \cap N = {},
         \A c \in hbi_inferred' : c \in hbi_inferred \/ c.seq = -1,
         \A c \in Found : calls = 1 /\ AboutUpdates(c) => FileOf(c)' = FileOf(c),
         \A c \in N : calls = 1 /\ AboutUpdates(c) => \E x \in D : Kind(x) = Kind(c) /\ x.file = FileOf(c)'
  PROVE  MadeInv'
<1>1. phase # "abort" /\ phase' # "abort" /\ phase' # "done" /\ calls' = calls
  BY DEF Sections
<1>2. \A it \in Made' : \E c \in Found' : Kind(c) = Kind(it)
  BY <1>1 DEF MadeInv
<1>3. ASSUME calls = 1 PROVE CountInv'
  <2>1. CountInv /\ Found \cap N = {}
    BY <1>1, <1>3 DEF MadeInv
  <2>2. IsFiniteSet(Found') /\ IsFiniteSet(Made')
    BY <2>1, FS_Union DEF CountInv
  <2>3. ASSUME NEW kind PROVE Count(Found', kind) = Count(Made', kind)
    <3>1. Count(Found', kind) = Count(Found, kind) + Count(N, kind)
      BY <2>1, CountSum DEF CountInv
    <3>2. Count(Made', kind) = Count(Made, kind) + Count(D, kind)
      BY <2>1, CountSum DEF CountInv
    <3>3. Count(N, kind) = Count(D, kind)
      BY CountOfKinds
    <3>4. Count(Found, kind) = Count(Made, kind)
      BY <2>1 DEF CountInv
    <3> QED
      BY <3>1, <3>2, <3>3, <3>4
  <2>4. \A c \in hbi_inferred' : c.seq = -1
    BY <2>1 DEF CountInv
  <2>5. ASSUME NEW c \in Found', AboutUpdates(c) PROVE \E it \in Made' : Kind(it) = Kind(c) /\ it.file = FileOf(c)'
    <3>1. CASE c \in N
      BY <1>3, <2>5, <3>1
    <3>2. CASE c \in Found
      BY <1>3, <2>1, <2>5, <3>2 DEF CountInv
    <3> QED
      BY <3>1, <3>2
  <2> QED
    BY <2>2, <2>3, <2>4, <2>5 DEF CountInv, Count, AboutUpdates
<1> QED
  BY <1>1, <1>2, <1>3 DEF MadeInv

(* An order of two updates that has not been made is not found either.     *)
LEMMA UpdateNotFound ==
  ASSUME design \in Designs, CountInv, NEW x \in Orders!Items, x \notin Made, x.file[1] \in {"pcr", "inferred"},
         NEW c, AboutUpdates(c), Kind(c) = Kind(x)
  PROVE  c \notin Found
<1> SUFFICES ASSUME c \in Found PROVE FALSE
  OBVIOUS
<1>1. PICK it \in Made : Kind(it) = Kind(c) /\ it.file = FileOf(c)
  BY DEF CountInv
<1>2. it \in Orders!Items
  BY DEF Made
<1>3. it.file[1] \in {"pcr", "inferred"}
  BY <1>1 DEF FileOf
<1>4. it = x
  BY <1>1, <1>2, <1>3, OneUpdateOrder
<1> QED
  BY <1>1, <1>4

(* The files of what has been found stay where they are.                   *)
LEMMA FilesStay ==
  ASSUME IInv, calls = 1, CountInv, NEW c \in Found, \A k \in 0 .. hbi_cntr - 1 : files'[k] = files[k]
  PROVE  FileOf(c)' = FileOf(c) /\ (c \in Hypotheses => c.seq \in 0 .. hbi_cntr - 1) /\ c.seq < hbi_cntr
<1>1. CASE c \in Hypotheses
  <2>1. c.seq \in 0 .. hbi_cntr - 1 /\ hbi_cntr \in Nat
    BY <1>1 DEF IInv, FilesInv, Sound
  <2> QED
    BY <2>1 DEF FileOf
<1>2. CASE c \notin Hypotheses
  <2>1. c.seq = -1 /\ hbi_cntr \in Nat
    BY <1>2 DEF Found, CountInv, IInv, FilesInv
  <2> QED
    BY <1>2, <2>1 DEF FileOf
<1> QED
  BY <1>1, <1>2

(* A hypothesis about a PC register.                                       *)
LEMMA PcrMakes ==
  ASSUME IInv, MadeInv, phase \in Sections, UNCHANGED <<design, phase, i1, i2, calls, hbi_inferred>>,
         NEW t \in 1 .. Depth(i1, i2), NEW l1, NEW l2, NEW type \in {"spatial", "temporal"},
         PcrCheck(t, type, l1, l2),
         NEW x \in Orders!Items, x = PcrOrder(i1, i2, t, type, l1, l2), Made' = Made \cup {x}, x \notin Made
  PROVE  MadeInv'
<1>1. PICK pcr, key, f, seq, chk :
        /\ pcr = StagePcr(t) /\ key = PcrKey(pcr)
        /\ f = [kind |-> "pcr", i1 |-> i1, i2 |-> i2, pcr |-> pcr]
        /\ seq = IF key \in DOMAIN pcr_inorder_hbi THEN pcr_inorder_hbi[key] ELSE hbi_cntr
        /\ chk = Check(seq, type, l1, l2, TRUE, -1)
  OBVIOUS
<1>2. /\ hbi_checkings' = Append(hbi_checkings, chk)
      /\ IF key \in DOMAIN pcr_inorder_hbi
         THEN UNCHANGED <<hbi_cntr, files, hbi_meta, pcr_inorder_hbi>>
         ELSE NewPcrFile(seq, pcr, chk)
  BY <1>1 DEF PcrCheck
<1>3. /\ hbi_checkings \in Seq(CheckType) /\ hbi_cntr \in Nat /\ phase # "abort" /\ design \in Designs
      /\ 0 .. hbi_cntr - 1 \subseteq DOMAIN files
  BY DEF IInv, FilesInv, ControlInv, Sections
<1>4. chk.seq = seq /\ chk.next = -1 /\ AboutUpdates(chk) /\ Kind(chk) = Kind(x)
  BY <1>1 DEF Check, AboutUpdates, Kind, PcrOrder, Orders!Item
<1>5. Found' = Found \cup {chk}
  <2>1. PICK one, R : one = <<chk>> /\ R = {chk}
    OBVIOUS
  <2>2. one \in Seq(R) /\ ToSet(one) = {chk}
    BY <2>1, ToSetOne
  <2>3. hbi_checkings' = hbi_checkings \o one
    BY <1>2, <1>3, <2>1, AppendIsConcat
  <2>4. Found' = Found \cup {c \in ToSet(one) : c.next < 0}
    BY ONLY <1>3, <2>2, <2>3, hbi_inferred' = hbi_inferred, FoundGrows
  <2> QED
    BY <1>4, <2>2, <2>4
<1>6. calls' = calls /\ phase' = phase
  OBVIOUS
<1>7. x.file = <<"pcr", i1, i2, pcr>>
  BY <1>1 DEF PcrOrder, Orders!Item
<1>8. key[1] = i1 /\ key[2] = i2 /\ key[3] = pcr
  BY <1>1 DEF PcrKey
<1>9. ASSUME calls = 1
      PROVE  (\A k \in 0 .. hbi_cntr - 1 : files'[k] = files[k]) /\ files'[seq] = f /\ seq \in Nat
  <2>1. CASE key \in DOMAIN pcr_inorder_hbi
    BY <1>1, <1>2, <1>3, <1>8, <1>9, <2>1 DEF IInv, PcrInv
  <2>2. CASE key \notin DOMAIN pcr_inorder_hbi
    <3>1. seq = hbi_cntr /\ files' = Put(files, seq, f)
      BY <1>1, <1>2, <2>2 DEF NewPcrFile, PcrFile
    <3>2. files'[seq] = f /\ \A k \in 0 .. hbi_cntr - 1 : files'[k] = files[k]
      BY <1>3, <3>1 DEF Put
    <3> QED
      BY ONLY <1>3, <3>1, <3>2
  <2> QED
    BY <2>1, <2>2
<1>10. ASSUME calls = 1 PROVE FileOf(chk)' = x.file
  <2>1. seq # -1 /\ files'[seq] = f
    BY <1>9, <1>10
  <2>2. FileOf(chk)' = <<"pcr", files'[seq].i1, files'[seq].i2, files'[seq].pcr>>
    BY <1>4, <2>1 DEF FileOf
  <2>3. f.i1 = i1 /\ f.i2 = i2 /\ f.pcr = pcr
    BY <1>1
  <2> QED
    BY ONLY <1>7, <2>1, <2>2, <2>3
<1>11. calls = 1 => CountInv
  BY <1>3 DEF MadeInv
<1>12. calls = 1 => Found \cap {chk} = {}
  BY <1>3, <1>4, <1>7, <1>11, UpdateNotFound
<1>13. \A c \in Found : calls = 1 => FileOf(c)' = FileOf(c)
  BY <1>9, <1>11, FilesStay
<1>14. IsFiniteSet({x}) /\ IsFiniteSet({chk}) /\ Made \cap {x} = {}
  BY FS_Singleton
<1>15. \A c \in hbi_inferred' : c \in hbi_inferred
  OBVIOUS
<1> QED
  BY ONLY MadeInv, phase \in Sections, Made' = Made \cup {x},
          <1>4, <1>5, <1>6, <1>10, <1>12, <1>13, <1>14, <1>15, Grown

(* The inferred order of a memory.                                         *)
LEMMA InferredMakes ==
  ASSUME IInv, MadeInv, phase \in Sections, UNCHANGED <<design, phase, i1, i2, calls, output>>,
         NEW t \in 1 .. Depth(i1, i2), NEW n, IsMem(i1, n),
         hbi_inferred' = hbi_inferred \cup {Check(-1, "spatial", n, n, IsLocal(n), -1)},
         NEW x \in Orders!Items, x = SpatialOrder(i1, i2, t, n), Made' = Made \cup {x}, x \notin Made
  PROVE  MadeInv'
<1>1. PICK chk : chk = Check(-1, "spatial", n, n, IsLocal(n), -1)
  OBVIOUS
<1>2. hbi_cntr \in Nat /\ phase # "abort" /\ design \in Designs
  BY DEF IInv, FilesInv, ControlInv, Sections
<1>3. Hypotheses' = Hypotheses /\ files' = files /\ hbi_inferred' = hbi_inferred \cup {chk}
  BY <1>1 DEF Hypotheses, output
<1>4. chk.seq = -1 /\ chk.next = -1 /\ AboutUpdates(chk)
  BY <1>1 DEF Check, AboutUpdates
<1>5. x = Orders!Item(<<"inferred">>, "spatial", i1, i2, n, n, IsLocal(n))
  BY DEF SpatialOrder
<1>6. Kind(chk) = Kind(x) /\ x.file = <<"inferred">>
  BY <1>1, <1>5 DEF Check, Kind, Orders!Item
<1>7. Found' = Found \cup {chk}
  BY <1>3 DEF Found
<1>8. FileOf(chk)' = x.file
  BY <1>4, <1>6 DEF FileOf
<1>9. calls = 1 => CountInv
  BY <1>2 DEF MadeInv
<1>10. calls = 1 => Found \cap {chk} = {}
  BY <1>2, <1>4, <1>6, <1>9, UpdateNotFound
<1>11. \A c \in Found : FileOf(c)' = FileOf(c)
  BY <1>3 DEF FileOf
<1>12. IsFiniteSet({x}) /\ IsFiniteSet({chk}) /\ Made \cap {x} = {} /\ calls' = calls /\ phase' = phase
  BY FS_Singleton
<1>13. \A c \in hbi_inferred' : c \in hbi_inferred \/ c.seq = -1
  BY <1>3, <1>4
<1> QED
  BY ONLY MadeInv, phase \in Sections, Made' = Made \cup {x},
          <1>6, <1>7, <1>8, <1>10, <1>11, <1>12, <1>13, Grown

-----------------------------------------------------------------------------
(* The steps of the interface section.                                     *)

(* The hypotheses about a pair of accesses that end a chain, and those     *)
(* about the value it moves.                                               *)
ClosingCheck(s, l1, l2) == Check(s, "temporal", l1, l2, TRUE, -2)
ClosingChecks(P, Q, s) == {ClosingCheck(s, p[1], p[2]) : p \in P \X Q}
DataChecks(m, Q, s, samecore) == {Check(s, "data", m, n, samecore, -1) : n \in Q}

(* A hypothesis that ends a chain is one of a pair of nodes.               *)
LEMMA ClosingForm ==
  ASSUME NEW P, NEW Q, NEW s
  PROVE  /\ \A c \in ClosingChecks(P, Q, s) : \E l1 \in P, l2 \in Q : c = ClosingCheck(s, l1, l2)
         /\ \A l1 \in P, l2 \in Q : ClosingCheck(s, l1, l2) \in ClosingChecks(P, Q, s)
<1>1. ASSUME NEW l1 \in P, NEW l2 \in Q PROVE ClosingCheck(s, l1, l2) \in ClosingChecks(P, Q, s)
  <2>1. PICK p : p = <<l1, l2>>
    OBVIOUS
  <2>2. p \in P \X Q /\ p[1] = l1 /\ p[2] = l2
    BY <2>1
  <2> QED
    BY <2>2 DEF ClosingChecks
<1>2. ASSUME NEW c \in ClosingChecks(P, Q, s) PROVE \E l1 \in P, l2 \in Q : c = ClosingCheck(s, l1, l2)
  BY DEF ClosingChecks
<1> QED
  BY <1>1, <1>2

(* An order of two accesses is one of a pair of nodes.                     *)
LEMMA AccessForm ==
  ASSUME NEW i, NEW j, NEW m, NEW a, NEW b, NEW x
  PROVE  x \in AccessOrders(i, j, m, a, b) <=>
           ~ IsLocal(m) /\ \E l1 \in DownPool(i, m, a), l2 \in DownPool(j, m, b) : x = AccessOrder(i, j, m, a, b, l1, l2)
<1>1. ASSUME NEW l1 \in DownPool(i, m, a), NEW l2 \in DownPool(j, m, b), ~ IsLocal(m),
             x = AccessOrder(i, j, m, a, b, l1, l2)
      PROVE  x \in AccessOrders(i, j, m, a, b)
  <2>1. PICK p : p = <<l1, l2>>
    OBVIOUS
  <2>2. p \in DownPool(i, m, a) \X DownPool(j, m, b) /\ p[1] = l1 /\ p[2] = l2
    BY <2>1
  <2> QED
    BY <1>1, <2>2 DEF AccessOrders
<1>2. ASSUME x \in AccessOrders(i, j, m, a, b)
      PROVE  ~ IsLocal(m) /\ \E l1 \in DownPool(i, m, a), l2 \in DownPool(j, m, b) : x = AccessOrder(i, j, m, a, b, l1, l2)
  BY <1>2 DEF AccessOrders
<1> QED
  BY <1>1, <1>2

(* The hypotheses of the interface section are finitely many.              *)
LEMMA FiniteChecks ==
  ASSUME NEW P, NEW Q, IsFiniteSet(P), IsFiniteSet(Q), NEW s, NEW u, NEW m, NEW samecore
  PROVE  IsFiniteSet(ClosingChecks(P, Q, s)) /\ IsFiniteSet(DataChecks(m, Q, u, samecore))
<1>1. IsFiniteSet(P \X Q)
  BY FS_Product
<1>2. IsFiniteSet(ClosingChecks(P, Q, s))
  <2> DEFINE f == [p \in P \X Q |-> ClosingCheck(s, p[1], p[2])]
             R == ClosingChecks(P, Q, s)
  <2>1. f \in [P \X Q -> R] /\ \A y \in R : \E p \in P \X Q : f[p] = y
    BY DEF ClosingChecks
  <2> HIDE DEF f, R
  <2>2. IsFiniteSet(R)
    BY <1>1, <2>1, FiniteImage
  <2> QED
    BY <2>2 DEF R
<1>3. IsFiniteSet(DataChecks(m, Q, u, samecore))
  <2> DEFINE f == [n \in Q |-> Check(u, "data", m, n, samecore, -1)]
             R == DataChecks(m, Q, u, samecore)
  <2>1. f \in [Q -> R] /\ \A y \in R : \E n \in Q : f[n] = y
    BY DEF DataChecks
  <2> HIDE DEF f, R
  <2>2. IsFiniteSet(R)
    BY <2>1, FiniteImage
  <2> QED
    BY <2>2 DEF R
<1> QED
  BY <1>2, <1>3

(* So are the orders of the pair of accesses.                              *)
LEMMA FiniteOrders ==
  ASSUME NEW i, NEW j, NEW m, NEW a, NEW b,
         IsFiniteSet(DownPool(i, m, a)), IsFiniteSet(DownPool(j, m, b))
  PROVE  IsFiniteSet(AccessOrders(i, j, m, a, b) \cup FlowOrders(i, j, m, a, b))
<1> DEFINE PQ == DownPool(i, m, a) \X DownPool(j, m, b)
<1>1. IsFiniteSet(PQ)
  BY FS_Product
<1>2. IsFiniteSet(AccessOrders(i, j, m, a, b))
  <2> DEFINE f == [p \in PQ |-> AccessOrder(i, j, m, a, b, p[1], p[2])]
             R == {AccessOrder(i, j, m, a, b, p[1], p[2]) : p \in PQ}
  <2>1. f \in [PQ -> R] /\ \A y \in R : \E p \in PQ : f[p] = y
    OBVIOUS
  <2>2. AccessOrders(i, j, m, a, b) = {} \/ AccessOrders(i, j, m, a, b) = R
    BY DEF AccessOrders
  <2> HIDE DEF f, R, PQ
  <2>3. IsFiniteSet(R)
    BY <1>1, <2>1, FiniteImage
  <2> QED
    BY <2>2, <2>3, FS_EmptySet
<1>3. IsFiniteSet(FlowOrders(i, j, m, a, b))
  <2>1. CASE ~ (a.write /\ ~ b.write)
    BY <2>1, FS_EmptySet DEF FlowOrders
  <2>2. CASE a.write /\ ~ b.write
    <3> DEFINE Q == design.down[j][m]
               f == [n \in Q |-> FlowOrder(i, j, m, a, b, n)]
               R == {FlowOrder(i, j, m, a, b, n) : n \in Q}
    <3>1. IsFiniteSet(Q)
      BY <2>2 DEF DownPool
    <3>2. f \in [Q -> R] /\ \A y \in R : \E n \in Q : f[n] = y
      OBVIOUS
    <3>3. FlowOrders(i, j, m, a, b) = R
      BY <2>2 DEF FlowOrders
    <3> HIDE DEF f, R, Q
    <3>4. IsFiniteSet(R)
      BY <3>1, <3>2, FiniteImage
    <3> QED
      BY <3>3, <3>4
  <2> QED
    BY <2>1, <2>2
<1> QED
  BY <1>2, <1>3, FS_Union

(* Hypotheses for a pair of accesses that end a chain or are about a value *)
(* make its orders.                                                        *)
LEMMA InterfaceMakes ==
  ASSUME IInv, MadeInv, phase = "interface", UNCHANGED <<design, phase, i1, i2, calls, hbi_inferred>>,
         NEW m \in DOMAIN design.loc[i1] \cap DOMAIN design.loc[i2],
         NEW a \in design.loc[i1][m], NEW b \in design.loc[i2][m],
         NEW s, NEW u, s \in Nat, u \in Nat, s >= hbi_cntr, u >= hbi_cntr, NEW A, NEW F,
         A = IF IsLocal(m) THEN {} ELSE ClosingChecks(DownPool(i1, m, a), DownPool(i2, m, b), s),
         F = IF a.write /\ ~ b.write THEN DataChecks(m, DownPool(i2, m, b), u, IsLocal(m)) ELSE {},
         Found' = Found \cup (A \cup F), \A k \in 0 .. hbi_cntr - 1 : files'[k] = files[k],
         NEW D, D = AccessOrders(i1, i2, m, a, b) \cup FlowOrders(i1, i2, m, a, b),
         Made' = Made \cup D, Made \cap D = {}
  PROVE  MadeInv'
<1>1. PICK P, Q : P = DownPool(i1, m, a) /\ Q = DownPool(i2, m, b)
  OBVIOUS
<1>2. /\ IsFiniteSet(P) /\ IsFiniteSet(Q)
      /\ hbi_cntr \in Nat /\ phase \in Sections /\ calls' = calls /\ phase' = phase
  BY <1>1, Accesses DEF IInv, ControlInv, FilesInv, Sections
<1>3. PICK N, flow, samecore : N = A \cup F /\ flow = (a.write /\ ~ b.write) /\ samecore = IsLocal(m)
  OBVIOUS
<1> DEFINE AKind(l1, l2) == <<"temporal", i1, i2, l1, l2, TRUE>>
           FKind(l) == <<"data", i1, i2, m, l, samecore>>
<1>4. \A x \in D :
        \/ ~ IsLocal(m) /\ \E l1 \in P, l2 \in Q : x = AccessOrder(i1, i2, m, a, b, l1, l2)
        \/ flow /\ \E l \in Q : x = FlowOrder(i1, i2, m, a, b, l)
  <2> SUFFICES ASSUME NEW x \in D
               PROVE  \/ ~ IsLocal(m) /\ \E l1 \in P, l2 \in Q : x = AccessOrder(i1, i2, m, a, b, l1, l2)
                      \/ flow /\ \E l \in Q : x = FlowOrder(i1, i2, m, a, b, l)
    OBVIOUS
  <2>1. CASE x \in AccessOrders(i1, i2, m, a, b)
    BY <1>1, <2>1, AccessForm
  <2>2. CASE x \in FlowOrders(i1, i2, m, a, b)
    BY <1>1, <1>3, <2>2 DEF FlowOrders, DownPool
  <2> QED
    BY <2>1, <2>2
<1>5. /\ ~ IsLocal(m) => \A l1 \in P, l2 \in Q : AccessOrder(i1, i2, m, a, b, l1, l2) \in D
      /\ flow => \A l \in Q : FlowOrder(i1, i2, m, a, b, l) \in D
  <2>1. ~ IsLocal(m) => \A l1 \in P, l2 \in Q : AccessOrder(i1, i2, m, a, b, l1, l2) \in D
    BY <1>1, AccessForm
  <2>2. flow => \A l \in Q : FlowOrder(i1, i2, m, a, b, l) \in D
    BY <1>1, <1>3 DEF FlowOrders, DownPool
  <2> QED
    BY <2>1, <2>2
<1>6. \A c \in N :
        \/ ~ IsLocal(m) /\ \E l1 \in P, l2 \in Q : c = ClosingCheck(s, l1, l2)
        \/ flow /\ \E l \in Q : c = Check(u, "data", m, l, samecore, -1)
  <2> SUFFICES ASSUME NEW c \in N
               PROVE  \/ ~ IsLocal(m) /\ \E l1 \in P, l2 \in Q : c = ClosingCheck(s, l1, l2)
                      \/ flow /\ \E l \in Q : c = Check(u, "data", m, l, samecore, -1)
    OBVIOUS
  <2>1. CASE c \in A
    <3>1. ~ IsLocal(m) /\ c \in ClosingChecks(P, Q, s)
      BY <1>1, <2>1
    <3>2. \E l1 \in P, l2 \in Q : c = ClosingCheck(s, l1, l2)
      BY ONLY <3>1, ClosingForm
    <3> QED
      BY ONLY <3>1, <3>2
  <2>2. CASE c \in F
    BY <1>1, <1>3, <2>2 DEF DataChecks
  <2> QED
    BY <1>3, <2>1, <2>2
<1>7. /\ ~ IsLocal(m) => \A l1 \in P, l2 \in Q : ClosingCheck(s, l1, l2) \in N
      /\ flow => \A l \in Q : Check(u, "data", m, l, samecore, -1) \in N
  <2>1. ~ IsLocal(m) => \A l1 \in P, l2 \in Q : ClosingCheck(s, l1, l2) \in N
    <3>1. ~ IsLocal(m) => ClosingChecks(P, Q, s) \subseteq N
      BY <1>1, <1>3
    <3>2. \A l1 \in P, l2 \in Q : ClosingCheck(s, l1, l2) \in ClosingChecks(P, Q, s)
      BY ONLY ClosingForm
    <3> QED
      BY ONLY <3>1, <3>2
  <2>2. flow => \A l \in Q : Check(u, "data", m, l, samecore, -1) \in N
    BY <1>1, <1>3 DEF DataChecks
  <2> QED
    BY <2>1, <2>2
<1>8. /\ \A l1, l2 : /\ Kind(AccessOrder(i1, i2, m, a, b, l1, l2)) = AKind(l1, l2)
                     /\ Kind(ClosingCheck(s, l1, l2)) = AKind(l1, l2)
      /\ \A l : /\ Kind(FlowOrder(i1, i2, m, a, b, l)) = FKind(l)
                /\ Kind(Check(u, "data", m, l, samecore, -1)) = FKind(l)
  BY <1>3 DEF ClosingCheck, Kind, AccessOrder, FlowOrder, Orders!Item, Check
<1>9. /\ \A l1, l2, k1, k2 : AKind(l1, l2) = AKind(k1, k2) => l1 = k1 /\ l2 = k2
      /\ \A l, k : FKind(l) = FKind(k) => l = k
      /\ \A l1, l2, k : AKind(l1, l2) # FKind(k)
  OBVIOUS
<1> HIDE DEF AKind, FKind
<1>10. \A x \in D : \E y \in N : Kind(y) = Kind(x)
  <2> SUFFICES ASSUME NEW x \in D PROVE \E y \in N : Kind(y) = Kind(x)
    OBVIOUS
  <2>1. ASSUME NEW l1 \in P, NEW l2 \in Q, ~ IsLocal(m), x = AccessOrder(i1, i2, m, a, b, l1, l2)
        PROVE  \E y \in N : Kind(y) = Kind(x)
    BY ONLY <1>7, <1>8, <2>1
  <2>2. ASSUME NEW l \in Q, flow, x = FlowOrder(i1, i2, m, a, b, l)
        PROVE  \E y \in N : Kind(y) = Kind(x)
    BY ONLY <1>7, <1>8, <2>2
  <2> QED
    BY ONLY <1>4, <2>1, <2>2, x \in D
<1>11. \A y \in N : \E x \in D : Kind(x) = Kind(y)
  <2> SUFFICES ASSUME NEW y \in N PROVE \E x \in D : Kind(x) = Kind(y)
    OBVIOUS
  <2>1. ASSUME NEW l1 \in P, NEW l2 \in Q, ~ IsLocal(m), y = ClosingCheck(s, l1, l2)
        PROVE  \E x \in D : Kind(x) = Kind(y)
    BY ONLY <1>5, <1>8, <2>1
  <2>2. ASSUME NEW l \in Q, flow, y = Check(u, "data", m, l, samecore, -1)
        PROVE  \E x \in D : Kind(x) = Kind(y)
    BY ONLY <1>5, <1>8, <2>2
  <2> QED
    BY ONLY <1>6, <2>1, <2>2, y \in N
<1>12. \A x, y \in D : Kind(x) = Kind(y) => x = y
  BY ONLY <1>4, <1>8, <1>9
<1>13. \A x, y \in N : Kind(x) = Kind(y) => x = y
  <2> SUFFICES ASSUME NEW x \in N, NEW y \in N, Kind(x) = Kind(y) PROVE x = y
    OBVIOUS
  <2>1. ASSUME NEW l1, NEW l2, x = ClosingCheck(s, l1, l2) PROVE x = y
    <3>1. Kind(x) = AKind(l1, l2)
      BY ONLY <1>8, <2>1
    <3>2. PICK k1, k2 : y = ClosingCheck(s, k1, k2) /\ Kind(y) = AKind(k1, k2)
      <4>1. ASSUME NEW l, y = Check(u, "data", m, l, samecore, -1) PROVE FALSE
        <5>1. Kind(y) = FKind(l)
          BY ONLY <1>8, <4>1
        <5> QED
          BY ONLY <3>1, <5>1, Kind(x) = Kind(y) DEF AKind, FKind
      <4> QED
        BY ONLY <1>6, <1>8, <4>1, y \in N
    <3>3. k1 = l1 /\ k2 = l2
      BY ONLY <3>1, <3>2, Kind(x) = Kind(y) DEF AKind
    <3> QED
      BY ONLY <2>1, <3>2, <3>3
  <2>2. ASSUME NEW l, x = Check(u, "data", m, l, samecore, -1) PROVE x = y
    <3>1. Kind(x) = FKind(l)
      BY ONLY <1>8, <2>2
    <3>2. PICK k : y = Check(u, "data", m, k, samecore, -1) /\ Kind(y) = FKind(k)
      <4>1. ASSUME NEW l1, NEW l2, y = ClosingCheck(s, l1, l2) PROVE FALSE
        <5>1. Kind(y) = AKind(l1, l2)
          BY ONLY <1>8, <4>1
        <5> QED
          BY ONLY <3>1, <5>1, Kind(x) = Kind(y) DEF AKind, FKind
      <4> QED
        BY ONLY <1>6, <1>8, <4>1, y \in N
    <3> QED
      BY ONLY <2>2, <3>1, <3>2, Kind(x) = Kind(y) DEF FKind
  <2> QED
    BY ONLY <1>6, <2>1, <2>2, x \in N
<1>14. IsFiniteSet(D)
  BY <1>1, <1>2, FiniteOrders
<1>15. IsFiniteSet(N)
  <2>1. IsFiniteSet(A) /\ IsFiniteSet(F)
    BY <1>1, <1>2, FiniteChecks, FS_EmptySet
  <2> QED
    BY <1>3, <2>1, FS_Union
<1>16. \A c \in N : c.seq >= hbi_cntr /\ ~ AboutUpdates(c)
  <2>1. \A l1, l2 : ClosingCheck(s, l1, l2).seq = s /\ ~ AboutUpdates(ClosingCheck(s, l1, l2))
    BY DEF ClosingCheck, Check, AboutUpdates
  <2>2. \A l : Check(u, "data", m, l, samecore, -1).seq = u /\ ~ AboutUpdates(Check(u, "data", m, l, samecore, -1))
    BY DEF Check, AboutUpdates
  <2> QED
    BY ONLY <1>6, <2>1, <2>2, s >= hbi_cntr, u >= hbi_cntr
<1>17. calls = 1 => CountInv
  BY <1>2 DEF MadeInv, Sections
<1>18. \A c \in Found : calls = 1 => FileOf(c)' = FileOf(c) /\ c.seq < hbi_cntr
  BY <1>17, FilesStay
<1>19. calls = 1 => Found \cap N = {}
  <2> SUFFICES ASSUME calls = 1, NEW c \in Found, c \in N PROVE FALSE
    OBVIOUS
  <2>1. PICK k : k = c.seq
    OBVIOUS
  <2>2. k \in Nat /\ k >= hbi_cntr
    <3>1. c.seq = s \/ c.seq = u
      BY <1>6 DEF ClosingCheck, Check
    <3> QED
      BY <2>1, <3>1
  <2>3. k < hbi_cntr
    BY <1>18, <2>1
  <2> QED
    BY <1>2, <2>2, <2>3
<1>20. Found' = Found \cup N /\ \A c \in hbi_inferred' : c \in hbi_inferred
  BY <1>3
<1> QED
  BY ONLY MadeInv, Made' = Made \cup D, Made \cap D = {},
          <1>2, <1>10, <1>11, <1>12, <1>13, <1>14, <1>15, <1>16, <1>18, <1>19, <1>20, Grown

(* A sequence of the elements of a finite set visits them all.             *)
LEMMA VisitsAll ==
  ASSUME NEW P, IsFiniteSet(P), NEW o \in SetToSeqs(P)
  PROVE  /\ o \in Seq(P) /\ Len(o) \in Nat /\ DOMAIN o = 1 .. Len(o)
         /\ \A x \in P : \E k \in 1 .. Len(o) : o[k] = x
         /\ ToSet(o) = P
<1>1. PICK n : n = Cardinality(P)
  OBVIOUS
<1>2. n \in Nat /\ o \in [1 .. n -> P] /\ \A i, j \in 1 .. n : i # j => o[i] # o[j]
  BY <1>1, FS_CardinalityType DEF SetToSeqs
<1>3. o \in Injection(1 .. n, P)
  BY <1>2 DEF Injection, IsInjective
<1>4. IsFiniteSet(1 .. n) /\ Cardinality(1 .. n) = n
  BY <1>2, FS_Interval
<1>5. o \in Surjection(1 .. n, P)
  BY <1>1, <1>3, <1>4, FS_Injection
<1>6. \A x \in P : \E k \in 1 .. n : o[k] = x
  BY <1>5 DEF Surjection
<1>7. o \in Seq(P) /\ Len(o) = n /\ DOMAIN o = 1 .. n
  BY <1>2, SeqOfPositions
<1> QED
  BY <1>2, <1>6, <1>7 DEF ToSet

(* The position of a pair in the nested loops over two orders.             *)
LEMMA PairPosition ==
  ASSUME NEW n \in Nat \ {0}, NEW m \in Nat, NEW q \in 0 .. m - 1, NEW r \in 0 .. n - 1
  PROVE  /\ n * q + r \in 0 .. n * m - 1
         /\ (n * q + r) \div n = q /\ (n * q + r) % n = r
<1>1. n * q + r \in Nat /\ n * q + r < n * m
  <2>1. n * (m - 1 - q) >= 0 /\ n * q >= 0
    OBVIOUS
  <2>2. n * (m - 1 - q) = n * m - n - n * q
    OBVIOUS
  <2> QED
    BY <2>1, <2>2
<1> DEFINE a == n * q + r
<1>2. a \div n \in Nat /\ a % n \in 0 .. n - 1 /\ a = n * (a \div n) + (a % n)
  BY <1>1, DivMod
<1>3. a = n * q + r
  OBVIOUS
<1> HIDE DEF a
<1>4. a \div n = q /\ a % n = r
  <2>1. PICK p, s : p = a \div n /\ s = a % n
    OBVIOUS
  <2>2. p \in Int /\ s \in 0 .. n - 1 /\ q \in Int /\ n * q + r = n * p + s
    BY <1>2, <1>3, <2>1
  <2>3. q = p /\ r = s
    BY ONLY <2>2, n \in Nat \ {0}, r \in 0 .. n - 1, DivUnique
  <2> QED
    BY <2>1, <2>3
<1> QED
  BY <1>1, <1>4 DEF a

(* The hypotheses of a protocol that end a chain: one for each pair of     *)
(* nodes.                                                                  *)
LEMMA ProtocolEnds ==
  ASSUME ControlInv, hbi_cntr \in Nat,
         NEW P \in SUBSET Elements(design), IsFiniteSet(P), P # {}, NEW o1 \in SetToSeqs(P),
         NEW Q \in SUBSET Elements(design), IsFiniteSet(Q), Q # {}, NEW o2 \in SetToSeqs(Q)
  PROVE  /\ InterfaceChecks(o1, o2) \in Seq(CheckType)
         /\ {c \in ToSet(InterfaceChecks(o1, o2)) : c.next < 0} = ClosingChecks(P, Q, hbi_cntr + 2)
<1>1. PICK T, n : T = InterfaceChecks(o1, o2) /\ n = Len(o1) * Len(o2)
  OBVIOUS
<1>2. o1 \in Seq(P) /\ Len(o1) \in Nat \ {0} /\ o2 \in Seq(Q) /\ Len(o2) \in Nat \ {0}
  BY SetOrder
<1>3. n \in Nat \ {0} /\ Protocol(T, n, P, Q)
  BY <1>1, <1>2, ProtocolHypotheses
<1>4. DOMAIN T = 1 .. 3 * n
  BY <1>3 DEF Protocol
<1>5. RelevantFile(0) = hbi_cntr + 1 /\ RelevantFile(1) = hbi_cntr + 2 /\ RelevantFile(2) = -2
  BY DEF RelevantFile
<1>6. ASSUME NEW c \in ToSet(T), c.next < 0 PROVE c \in ClosingChecks(P, Q, hbi_cntr + 2)
  <2>1. PICK k \in 1 .. 3 * n : c = T[k]
    BY <1>4 DEF ToSet
  <2>2. PICK i \in 0 .. 2, l1 \in P, l2 \in Q :
          c = Check(hbi_cntr + i, "temporal", l1, l2, TRUE, RelevantFile(i))
    BY <1>3, <2>1 DEF Protocol
  <2>3. c.next = RelevantFile(i)
    BY <2>2 DEF Check
  <2>4. i = 2
    BY <1>5, <1>6, <2>3
  <2>5. c = ClosingCheck(hbi_cntr + 2, l1, l2)
    BY <1>5, <2>2, <2>4 DEF ClosingCheck
  <2> QED
    BY ONLY <2>5, ClosingForm
<1>7. ASSUME NEW c \in ClosingChecks(P, Q, hbi_cntr + 2) PROVE c \in ToSet(T) /\ c.next < 0
  <2>1. PICK l1 \in P, l2 \in Q : c = ClosingCheck(hbi_cntr + 2, l1, l2)
    BY ONLY <1>7, ClosingForm
  <2>2. PICK x \in 1 .. Len(o1), y \in 1 .. Len(o2) : o1[x] = l1 /\ o2[y] = l2
    BY VisitsAll
  <2>3. PICK q, r, j, k : q = x - 1 /\ r = y - 1 /\ j = Len(o2) * q + r /\ k = n * 2 + j + 1
    OBVIOUS
  <2>4. q \in 0 .. Len(o1) - 1 /\ r \in 0 .. Len(o2) - 1
    BY <1>2, <2>3
  <2>5. j \in 0 .. n - 1 /\ j \div Len(o2) = q /\ j % Len(o2) = r
    <3>1. PICK h1, h2 : h1 = Len(o1) /\ h2 = Len(o2)
      OBVIOUS
    <3>2. h1 \in Nat /\ h2 \in Nat \ {0} /\ q \in 0 .. h1 - 1 /\ r \in 0 .. h2 - 1 /\ j = h2 * q + r
      BY <1>2, <2>3, <2>4, <3>1
    <3>3. j \in 0 .. h2 * h1 - 1 /\ j \div h2 = q /\ j % h2 = r
      BY ONLY <3>2, PairPosition
    <3>4. n = h2 * h1
      BY <1>1, <3>1, <3>2
    <3> QED
      BY <3>1, <3>3, <3>4
  <2>6. k \in 1 .. 3 * n /\ (k - 1) \div n = 2 /\ (k - 1) % n = j
    <3>1. PICK d : d = n * 2 + j
      OBVIOUS
    <3>2. d \in 0 .. n * 3 - 1 /\ d \div n = 2 /\ d % n = j
      BY <1>3, <2>5, <3>1, PairPosition
    <3>3. k - 1 = d /\ k \in 1 .. 3 * n
      BY <1>3, <2>3, <2>5, <3>1, <3>2
    <3> QED
      BY <3>2, <3>3
  <2>7. T = [h \in 1 .. 3 * n |->
               Check(hbi_cntr + ((h - 1) \div n), "temporal", o1[1 + (((h - 1) % n) \div Len(o2))],
                     o2[1 + (((h - 1) % n) % Len(o2))], TRUE, RelevantFile((h - 1) \div n))]
    BY <1>1 DEF InterfaceChecks
  <2>8. 1 + q = x /\ 1 + r = y
    BY <2>3
  <2>9. T[k] = Check(hbi_cntr + 2, "temporal", o1[x], o2[y], TRUE, RelevantFile(2))
    BY <2>5, <2>6, <2>7, <2>8
  <2>10. T[k] = c
    BY <1>5, <2>1, <2>2, <2>9 DEF ClosingCheck
  <2>11. c.next = -2
    BY <2>1 DEF ClosingCheck, Check
  <2> QED
    BY <1>4, <2>6, <2>10, <2>11 DEF ToSet
<1>8. T \in Seq(CheckType)
  <2>1. PICK l : l = 3 * n
    OBVIOUS
  <2>2. l \in Nat /\ T \in [1 .. l -> CheckType]
    BY <1>3, <2>1 DEF Protocol
  <2> QED
    BY ONLY <2>2, SeqOfPositions
<1> QED
  BY <1>1, <1>6, <1>7, <1>8

(* The hypotheses of a data-flow file: one for each node.                  *)
LEMMA FlowEnds ==
  ASSUME NEW Q, IsFiniteSet(Q), NEW o \in SetToSeqs(Q), NEW m, NEW seq, NEW samecore
  PROVE  /\ FlowChecks(m, o, seq, samecore) \in Seq(DataChecks(m, Q, seq, samecore))
         /\ ToSet(FlowChecks(m, o, seq, samecore)) = DataChecks(m, Q, seq, samecore)
         /\ \A c \in DataChecks(m, Q, seq, samecore) : c.next < 0
<1>1. PICK s, D : s = FlowChecks(m, o, seq, samecore) /\ D = DataChecks(m, Q, seq, samecore)
  OBVIOUS
<1>2. /\ Len(o) \in Nat /\ \A k \in 1 .. Len(o) : o[k] \in Q
      /\ \A x \in Q : \E k \in 1 .. Len(o) : o[k] = x
  BY VisitsAll, ElementOfSeq
<1>3. s = [k \in 1 .. Len(o) |-> Check(seq, "data", m, o[k], samecore, -1)]
  BY <1>1 DEF FlowChecks
<1>4. \A c : c \in D <=> \E n \in Q : c = Check(seq, "data", m, n, samecore, -1)
  BY <1>1 DEF DataChecks
<1>5. s \in [1 .. Len(o) -> D]
  BY <1>2, <1>3, <1>4
<1>6. s \in Seq(D) /\ ToSet(s) = {s[k] : k \in 1 .. Len(o)}
  BY <1>2, <1>5, SeqOfPositions
<1>7. \A c \in D : \E k \in 1 .. Len(o) : s[k] = c
  BY <1>2, <1>3, <1>4
<1>8. ToSet(s) = D
  BY <1>5, <1>6, <1>7
<1>9. \A c \in D : c.next < 0
  BY <1>4 DEF Check
<1> QED
  BY <1>1, <1>6, <1>8, <1>9

(* Files are added after those there are.                                  *)
LEMMA FilesAdded ==
  ASSUME NEW f, NEW n \in Nat, 0 .. n - 1 \subseteq DOMAIN f, NEW g, \A k \in DOMAIN g : k \in Nat /\ k >= n
  PROVE  \A k \in 0 .. n - 1 : PutAll(f, g)[k] = f[k]
BY DEF PutAll

(* The pair of accesses of a local array.                                  *)
LEMMA LocalMakes ==
  ASSUME IInv, MadeInv, phase = "interface", UNCHANGED <<design, phase, i1, i2, calls, hbi_inferred>>,
         NEW m \in DOMAIN design.loc[i1] \cap DOMAIN design.loc[i2],
         NEW a \in design.loc[i1][m], NEW b \in design.loc[i2][m],
         NEW o2 \in SetToSeqs(DownPool(i2, m, b)), LocalInterface(m, a, b, o2), IsLocal(m),
         NEW D, D = AccessOrders(i1, i2, m, a, b) \cup FlowOrders(i1, i2, m, a, b),
         Made' = Made \cup D, Made \cap D = {}
  PROVE  MadeInv'
<1>1. PICK P, Q, samecore, flow : /\ P = DownPool(i1, m, a) /\ Q = DownPool(i2, m, b)
                                  /\ samecore = IsLocal(m) /\ flow = FlowChecks(m, o2, hbi_cntr, samecore)
  OBVIOUS
<1>2. /\ IsFiniteSet(Q) /\ o2 \in SetToSeqs(Q) /\ hbi_cntr \in Nat
      /\ 0 .. hbi_cntr - 1 \subseteq DOMAIN files /\ hbi_checkings \in Seq(CheckType)
  BY <1>1, Accesses DEF IInv, ControlInv, FilesInv
<1>3. PICK A, F : A = {} /\ F = IF a.write /\ ~ b.write THEN DataChecks(m, Q, hbi_cntr, samecore) ELSE {}
  OBVIOUS
<1>4. Found' = Found \cup (A \cup F) /\ \A k \in 0 .. hbi_cntr - 1 : files'[k] = files[k]
  <2>1. CASE a.write /\ ~ b.write
    <3>1. samecore = TRUE
      BY <1>1 DEF IsLocal
    <3>2. hbi_checkings' = hbi_checkings \o flow
      BY <1>1, <2>1, <3>1 DEF LocalInterface
    <3>3. PICK f : files' = Put(files, hbi_cntr, f)
      BY <2>1 DEF LocalInterface
    <3>4. PICK C : C = DataChecks(m, Q, hbi_cntr, samecore)
      OBVIOUS
    <3>5. flow \in Seq(C) /\ ToSet(flow) = C /\ \A c \in C : c.next < 0
      BY ONLY <1>1, <1>2, <3>4, FlowEnds
    <3>6. Found' = Found \cup {c \in ToSet(flow) : c.next < 0}
      BY ONLY <1>2, <3>2, <3>5, hbi_inferred' = hbi_inferred, FoundGrows
    <3>7. A \cup F = C /\ {c \in ToSet(flow) : c.next < 0} = C
      BY <1>3, <2>1, <3>4, <3>5
    <3>8. \A k \in 0 .. hbi_cntr - 1 : files'[k] = files[k]
      BY <1>2, <3>3 DEF Put
    <3> QED
      BY <3>6, <3>7, <3>8
  <2>2. CASE ~ (a.write /\ ~ b.write)
    <3>1. UNCHANGED <<hbi_checkings, files>>
      BY <2>2 DEF LocalInterface
    <3>2. A \cup F = {}
      BY <1>3, <2>2
    <3> QED
      BY <3>1, <3>2 DEF Found, Hypotheses
  <2> QED
    BY <2>1, <2>2
<1>5. PICK s : s = hbi_cntr
  OBVIOUS
<1>6. /\ s \in Nat /\ s >= hbi_cntr
      /\ A = IF IsLocal(m) THEN {} ELSE ClosingChecks(DownPool(i1, m, a), DownPool(i2, m, b), s)
      /\ F = IF a.write /\ ~ b.write THEN DataChecks(m, DownPool(i2, m, b), s, IsLocal(m)) ELSE {}
  BY <1>1, <1>2, <1>3, <1>5
<1> QED
  BY <1>4, <1>6, InterfaceMakes

(* The pair of accesses of a shared memory.                                *)
LEMMA SharedMakes ==
  ASSUME IInv, MadeInv, phase = "interface", UNCHANGED <<design, phase, i1, i2, calls, hbi_inferred>>,
         NEW m \in DOMAIN design.loc[i1] \cap DOMAIN design.loc[i2],
         NEW a \in design.loc[i1][m], NEW b \in design.loc[i2][m],
         NEW o1 \in SetToSeqs(DownPool(i1, m, a)), NEW o2 \in SetToSeqs(DownPool(i2, m, b)),
         SharedInterface(m, a, b, o1, o2), ~ IsLocal(m),
         NEW D, D = AccessOrders(i1, i2, m, a, b) \cup FlowOrders(i1, i2, m, a, b),
         Made' = Made \cup D, Made \cap D = {}
  PROVE  MadeInv'
<1>1. PICK P, Q, samecore, s, u, T, isFlow :
        /\ P = DownPool(i1, m, a) /\ Q = DownPool(i2, m, b) /\ samecore = IsLocal(m)
        /\ s = hbi_cntr + 2 /\ u = hbi_cntr + 3
        /\ T = InterfaceChecks(o1, o2) /\ isFlow = (a.write /\ ~ b.write)
  OBVIOUS
<1>2. /\ P \in SUBSET Elements(design) /\ IsFiniteSet(P) /\ P # {} /\ o1 \in SetToSeqs(P)
      /\ Q \in SUBSET Elements(design) /\ IsFiniteSet(Q) /\ Q # {} /\ o2 \in SetToSeqs(Q)
      /\ ControlInv /\ hbi_cntr \in Nat
      /\ 0 .. hbi_cntr - 1 \subseteq DOMAIN files /\ hbi_checkings \in Seq(CheckType)
  BY <1>1, Accesses DEF IInv, ControlInv, FilesInv
<1>3. PICK A, F, flow :
        /\ A = ClosingChecks(P, Q, s)
        /\ F = IF isFlow THEN DataChecks(m, Q, u, samecore) ELSE {}
        /\ flow = IF isFlow THEN FlowChecks(m, o2, u, samecore) ELSE << >>
  OBVIOUS
<1>4. T \in Seq(CheckType) /\ {c \in ToSet(T) : c.next < 0} = A
  BY ONLY <1>1, <1>2, <1>3, ProtocolEnds
<1>5. flow \in Seq(F) /\ ToSet(flow) = F /\ \A c \in F : c.next < 0
  <2>1. CASE isFlow
    <3>1. flow = FlowChecks(m, o2, u, samecore) /\ F = DataChecks(m, Q, u, samecore)
      BY <1>3, <2>1
    <3> QED
      BY ONLY <1>2, <3>1, FlowEnds
  <2>2. CASE ~ isFlow
    <3>1. flow = << >> /\ F = {}
      BY <1>3, <2>2
    <3> QED
      BY ONLY <3>1 DEF ToSet
  <2> QED
    BY <2>1, <2>2
<1>6. samecore = FALSE
  <2>1. samecore = IsLocal(m)
    BY <1>1
  <2>2. IsLocal(m) = FALSE
    BY ONLY ~ IsLocal(m), SMT DEF IsLocal
  <2> QED
    BY <2>1, <2>2
<1>7. hbi_checkings' = hbi_checkings \o T \o flow
  <2>1. flow = IF a.write /\ ~ b.write THEN FlowChecks(m, o2, hbi_cntr + 3, FALSE) ELSE << >>
    BY <1>1, <1>3, <1>6
  <2> QED
    BY <1>1, <2>1 DEF SharedInterface
<1>8. Found' = Found \cup (A \cup F)
  <2>1. PICK C, R, new, old : C = CheckType /\ R = C \cup F /\ new = T \o flow /\ old = hbi_checkings
    OBVIOUS
  <2>2. Seq(C) \subseteq Seq(R) /\ Seq(F) \subseteq Seq(R)
    BY ONLY <2>1
  <2>3. old \in Seq(R) /\ T \in Seq(R) /\ flow \in Seq(R)
    BY <1>2, <1>4, <1>5, <2>1, <2>2
  <2>4. new \in Seq(R) /\ ToSet(new) = ToSet(T) \cup ToSet(flow)
    BY ONLY <2>1, <2>3, ToSetConcat
  <2>5. (old \o T) \o flow = old \o (T \o flow)
    BY ONLY <2>3
  <2>6. hbi_checkings' = hbi_checkings \o new
    BY <1>7, <2>1, <2>5
  <2>7. Found' = Found \cup {c \in ToSet(new) : c.next < 0}
    BY ONLY <1>2, <2>4, <2>6, hbi_inferred' = hbi_inferred, FoundGrows
  <2> QED
    BY ONLY <1>4, <1>5, <2>4, <2>7
<1>9. \A k \in 0 .. hbi_cntr - 1 : files'[k] = files[k]
  <2>1. PICK added : added = IF isFlow THEN 4 ELSE 3
    OBVIOUS
  <2>2. PICK g : /\ g = [k \in hbi_cntr .. hbi_cntr + added - 1 |->
                          IF k = hbi_cntr + 3 THEN [kind |-> "flow", i1 |-> i1, i2 |-> i2, mem |-> m]
                          ELSE InterfaceFile(Steps[k - hbi_cntr + 1], i1, i2, m, a, b)]
                 /\ files' = PutAll(files, g)
    BY <1>1, <2>1 DEF SharedInterface
  <2>3. \A k \in DOMAIN g : k \in Nat /\ k >= hbi_cntr
    BY <1>2, <2>1, <2>2
  <2>4. PICK old : old = files
    OBVIOUS
  <2>5. \A k \in 0 .. hbi_cntr - 1 : PutAll(old, g)[k] = old[k]
    BY ONLY <1>2, <2>3, <2>4, FilesAdded
  <2> QED
    BY <2>2, <2>4, <2>5
<1>10. /\ s \in Nat /\ s >= hbi_cntr /\ u \in Nat /\ u >= hbi_cntr
       /\ A = IF IsLocal(m) THEN {} ELSE ClosingChecks(DownPool(i1, m, a), DownPool(i2, m, b), s)
       /\ F = IF a.write /\ ~ b.write THEN DataChecks(m, DownPool(i2, m, b), u, IsLocal(m)) ELSE {}
  <2>1. A = IF IsLocal(m) THEN {} ELSE ClosingChecks(DownPool(i1, m, a), DownPool(i2, m, b), s)
    BY <1>1, <1>3
  <2>2. F = IF a.write /\ ~ b.write THEN DataChecks(m, DownPool(i2, m, b), u, IsLocal(m)) ELSE {}
    <3>1. CASE isFlow
      BY <1>1, <1>3, <3>1
    <3>2. CASE ~ isFlow
      BY <1>1, <1>3, <3>2
    <3> QED
      BY <3>1, <3>2
  <2> QED
    BY <1>1, <1>2, <2>1, <2>2
<1> QED
  BY <1>8, <1>9, <1>10, InterfaceMakes

-----------------------------------------------------------------------------
(* Every step makes the orders of the work item it takes, and no others.   *)

(* A step that makes nothing.                                              *)
LEMMA MadeStays ==
  ASSUME MadeInv, phase # "abort" \/ phase' = "abort", UNCHANGED <<design, output, hbi_inferred, calls>>,
         Made' = Made, phase' = "done" => AtPair(Len(design.uhb), Len(design.uhb))'
  PROVE  MadeInv'
<1>1. Found' = Found /\ calls' = calls /\ files' = files /\ hbi_inferred' = hbi_inferred
  BY DEF Found, Hypotheses, output
<1>2. \A kind : Count(Found, kind)' = Count(Found, kind) /\ Count(Made, kind)' = Count(Made, kind)
  BY <1>1 DEF Count
<1>3. \A c : FileOf(c)' = FileOf(c)
  BY <1>1 DEF FileOf
<1>4. CountInv => CountInv'
  BY <1>1, <1>2, <1>3 DEF CountInv, AboutUpdates
<1> QED
  BY <1>1, <1>4 DEF MadeInv

(* A spatial work item: one order, inferred or about a PC register.        *)
LEMMA SpatialMakes == ASSUME IInv, MadeInv, NEW t, NEW n, Spatial(t, n) PROVE MadeInv'
<1>1. PICK w, x : w = <<t, n>> /\ x = SpatialOrder(i1, i2, t, n)
  OBVIOUS
<1>2. /\ phase = "spatial" /\ w \in todo /\ todo' = todo \ {w}
      /\ UNCHANGED <<design, phase, i1, i2, calls>>
  BY <1>1 DEF Spatial, TakeInStageOrder
<1>3. /\ design \in Designs /\ i1 \in Instns /\ i2 \in Instns /\ phase \in Sections
      /\ todo \subseteq SpatialWork
  BY <1>2 DEF IInv, ControlInv, Sections
<1>4. w \in Work(i1, i2, "spatial")
  BY <1>2, <1>3 DEF SpatialWork, Work
<1>5. t \in 1 .. Depth(i1, i2) /\ n \in design.uhb[i1][t] \cap design.uhb[i2][t]
  BY <1>1, <1>2, <1>3, WorkItems
<1>6. OrdersOf(i1, i2, phase, w) = {x}
  BY <1>1, <1>2 DEF OrdersOf
<1>7. Made' = Made \cup {x} /\ Made \cap {x} = {}
  <2>1. w \in Work(i1, i2, phase)
    BY <1>2, <1>4
  <2>2. /\ Made' = Made \cup OrdersOf(i1, i2, phase, w)
        /\ Made \cap OrdersOf(i1, i2, phase, w) = {}
    BY ONLY <1>2, <1>3, <2>1, WorkTaken
  <2> QED
    BY ONLY <1>6, <2>2
<1>8. x \in Orders!Items /\ x \notin Made
  BY <1>1, <1>3, <1>5, <1>7, SpatialCalled
<1>9. CASE IsMem(i1, n)
  <2>1. hbi_inferred' = hbi_inferred \cup {Check(-1, "spatial", n, n, IsLocal(n), -1)} /\ UNCHANGED output
    BY <1>9 DEF Spatial
  <2>2. UNCHANGED <<design, phase, i1, i2, calls, output>>
    BY <1>2, <2>1
  <2>3. x = SpatialOrder(i1, i2, t, n) /\ Made' = Made \cup {x}
    BY <1>1, <1>7
  <2> QED
    BY ONLY IInv, MadeInv, <1>3, <1>5, <1>8, <1>9, <2>1, <2>2, <2>3, InferredMakes
<1>10. CASE ~ IsMem(i1, n)
  <2>1. PICK type : type = "spatial"
    OBVIOUS
  <2>2. PcrCheck(t, type, n, n) /\ UNCHANGED <<design, phase, i1, i2, calls, hbi_inferred>>
    BY <1>2, <1>10, <2>1 DEF Spatial
  <2>3. type \in {"spatial", "temporal"} /\ x = PcrOrder(i1, i2, t, type, n, n) /\ Made' = Made \cup {x}
    BY <1>1, <1>7, <1>10, <2>1 DEF SpatialOrder
  <2> QED
    BY ONLY IInv, MadeInv, <1>3, <1>5, <1>8, <2>2, <2>3, PcrMakes
<1> QED
  BY <1>9, <1>10

(* A pipeline work item: one order about a PC register, or none.           *)
LEMMA PipelineMakes == ASSUME IInv, MadeInv, NEW t, NEW n1, NEW n2, Pipeline(t, n1, n2) PROVE MadeInv'
<1>1. PICK w, x, type : w = <<t, n1, n2>> /\ type = "temporal" /\ x = PcrOrder(i1, i2, t, type, n1, n2)
  OBVIOUS
<1>2. /\ phase = "pipeline" /\ w \in todo /\ todo' = todo \ {w}
      /\ UNCHANGED <<design, phase, i1, i2, calls, hbi_inferred>>
  BY <1>1 DEF Pipeline, TakeInStageOrder
<1>3. /\ design \in Designs /\ i1 \in Instns /\ i2 \in Instns /\ phase \in Sections
      /\ todo \subseteq PipelineWork
  BY <1>2 DEF IInv, ControlInv, Sections
<1>4. w \in Work(i1, i2, phase)
  BY <1>2, <1>3 DEF PipelineWork, Work
<1>5. t \in 1 .. Depth(i1, i2) /\ n1 \in design.uhb[i1][t] /\ n2 \in design.uhb[i2][t]
  BY <1>1, <1>2, <1>3, WorkItems
<1>6. OrdersOf(i1, i2, phase, w) = IF Ordered(i1, i2, n1, n2) THEN {x} ELSE {}
  BY <1>1, <1>2 DEF OrdersOf
<1>7. /\ Made' = Made \cup OrdersOf(i1, i2, phase, w)
      /\ Made \cap OrdersOf(i1, i2, phase, w) = {}
  BY ONLY <1>2, <1>3, <1>4, WorkTaken
<1>8. CASE Ordered(i1, i2, n1, n2)
  <2>1. PcrCheck(t, type, n1, n2)
    BY <1>1, <1>8 DEF Pipeline, Ordered
  <2>2. x \in Orders!Items
    BY <1>1, <1>3, <1>5, <1>8, PipelineCalled
  <2>3. /\ type \in {"spatial", "temporal"} /\ x = PcrOrder(i1, i2, t, type, n1, n2)
        /\ Made' = Made \cup {x} /\ x \notin Made
    BY <1>1, <1>6, <1>7, <1>8
  <2> QED
    BY ONLY IInv, MadeInv, <1>2, <1>3, <1>5, <2>1, <2>2, <2>3, PcrMakes
<1>9. CASE ~ Ordered(i1, i2, n1, n2)
  <2>1. UNCHANGED output
    BY <1>9 DEF Pipeline, Ordered
  <2>2. Made' = Made
    BY <1>6, <1>7, <1>9
  <2> QED
    BY <1>2, <1>3, <2>1, <2>2, MadeStays DEF Sections
<1> QED
  BY <1>8, <1>9

(* An interface work item: the orders of its pair of accesses.             *)
LEMMA InterfaceMakesAll == ASSUME IInv, MadeInv, NEW m, NEW a, NEW b, Interface(m, a, b) PROVE MadeInv'
<1>1. PICK w, D : /\ w = <<m, a, b>>
                  /\ D = AccessOrders(i1, i2, m, a, b) \cup FlowOrders(i1, i2, m, a, b)
  OBVIOUS
<1>2. /\ phase = "interface" /\ w \in todo /\ todo' = todo \ {w}
      /\ UNCHANGED <<design, phase, i1, i2, calls, hbi_inferred>>
  BY <1>1 DEF Interface
<1>3. /\ design \in Designs /\ i1 \in Instns /\ i2 \in Instns /\ phase \in Sections
      /\ todo \subseteq InterfaceWork
  BY <1>2 DEF IInv, ControlInv, Sections
<1>4. w \in Work(i1, i2, phase)
  BY <1>2, <1>3 DEF InterfaceWork, Work
<1>5. m \in DOMAIN design.loc[i1] \cap DOMAIN design.loc[i2]
      /\ a \in design.loc[i1][m] /\ b \in design.loc[i2][m]
  BY <1>1, <1>2, <1>3, WorkItems
<1>6. OrdersOf(i1, i2, phase, w) = D
  BY <1>1, <1>2 DEF OrdersOf
<1>7. Made' = Made \cup D /\ Made \cap D = {}
  BY ONLY <1>2, <1>3, <1>4, <1>6, WorkTaken
<1>8. PICK o1 \in SetToSeqs(DownPool(i1, m, a)), o2 \in SetToSeqs(DownPool(i2, m, b)) :
        IF IsLocal(m) THEN LocalInterface(m, a, b, o2) ELSE SharedInterface(m, a, b, o1, o2)
  BY DEF Interface
<1>9. CASE IsLocal(m)
  <2>1. LocalInterface(m, a, b, o2)
    BY <1>8, <1>9
  <2> QED
    BY ONLY IInv, MadeInv, <1>1, <1>2, <1>5, <1>7, <1>9, <2>1, LocalMakes
<1>10. CASE ~ IsLocal(m)
  <2>1. SharedInterface(m, a, b, o1, o2)
    BY <1>8, <1>10
  <2> QED
    BY ONLY IInv, MadeInv, <1>1, <1>2, <1>5, <1>7, <1>10, <2>1, SharedMakes
<1> QED
  BY <1>9, <1>10

(* Before the first step, and before the first of another execution,       *)
(* there is nothing.                                                       *)
LEMMA MadeAtStart ==
  ASSUME ControlInv, phase = "spatial", i1 = 1, i2 = 1, todo = SpatialWork,
         calls = 1 => hbi_checkings = << >> /\ hbi_inferred = {}
  PROVE  MadeInv
<1>1. Made = {}
  BY NothingMade DEF ControlInv
<1>2. ASSUME calls = 1 PROVE CountInv
  <2>1. Hypotheses = {}
    <3>1. DOMAIN hbi_checkings = {}
      BY <1>2, EmptySeq
    <3> QED
      BY ONLY <3>1 DEF Hypotheses, ToSet
  <2>2. Found = {} /\ hbi_inferred = {}
    BY <1>2, <2>1 DEF Found
  <2> QED
    BY <1>1, <2>2, FS_EmptySet DEF CountInv, Count
<1> QED
  BY <1>1, <1>2 DEF MadeInv

(* Every step keeps the invariant.                                         *)
LEMMA MadeInductive == ASSUME IInv, MadeInv, [Next]_vars PROVE MadeInv'
<1>1. ASSUME NEW w \in todo, Spatial(w[1], w[2]) PROVE MadeInv'
  BY <1>1, SpatialMakes
<1>2. ASSUME NEW w \in todo, Interface(w[1], w[2], w[3]) PROVE MadeInv'
  BY <1>2, InterfaceMakesAll
<1>3. ASSUME NEW w \in todo, InterfaceAbort(w[1], w[2], w[3]) PROVE MadeInv'
  BY <1>3 DEF InterfaceAbort, MadeInv
<1>4. ASSUME NEW w \in todo, Pipeline(w[1], w[2], w[3]) PROVE MadeInv'
  BY <1>4, PipelineMakes
<1>5. ASSUME EndSection PROVE MadeInv'
  <2>1. /\ UNCHANGED <<design, output, hbi_inferred, calls>> /\ Made' = Made
        /\ phase \in Sections /\ phase' # "abort"
        /\ phase' = "done" => i1 = Len(design.uhb) /\ i2 = Len(design.uhb) /\ UNCHANGED <<i1, i2>>
    BY <1>5, SectionEnds DEF IInv, EndSection, Sections
  <2>2. phase' = "done" => AtPair(Len(design.uhb), Len(design.uhb))'
    BY <2>1 DEF AtPair
  <2> QED
    BY <2>1, <2>2, MadeStays DEF Sections
<1>6. ASSUME CallAgain PROVE MadeInv'
  <2>1. /\ phase' = "spatial" /\ i1' = 1 /\ i2' = 1 /\ todo' = SpatialWork' /\ calls' # 1
    BY <1>6 DEF CallAgain, IInv, ControlInv
  <2>2. ControlInv'
    BY <1>6, CallAgainKeeps DEF IInv
  <2>3. (/\ ControlInv /\ phase = "spatial" /\ i1 = 1 /\ i2 = 1 /\ todo = SpatialWork
         /\ calls = 1 => hbi_checkings = << >> /\ hbi_inferred = {}
         => MadeInv)'
    BY MadeAtStart, PTL
  <2> QED
    BY <2>1, <2>2, <2>3
<1>7. CASE UNCHANGED vars
  <2>1. UNCHANGED <<design, phase, i1, i2, todo, output, hbi_inferred, calls>>
    BY <1>7 DEF vars
  <2>2. Made' = Made
    BY <2>1, NothingTaken DEF Taken, Before, AtPair, Past
  <2>3. phase' = "done" /\ phase # "abort" => AtPair(Len(design.uhb), Len(design.uhb))'
    BY <2>1 DEF MadeInv, AtPair
  <2> QED
    BY <2>1, <2>2, <2>3, MadeStays
<1> QED
  BY <1>1, <1>2, <1>3, <1>4, <1>5, <1>6, <1>7 DEF Next

(* In the initial states there is nothing.                                 *)
LEMMA MadeInitially == ASSUME Init PROVE MadeInv
BY Initially, MadeAtStart DEF Init, IInv

(* When generate ends, what it found is what the design calls for.         *)
LEMMA AllOrdersMade ==
  ASSUME IInv, MadeInv, phase = "done"
  PROVE  /\ \A it \in Orders!Items : \E c \in Found : Kind(c) = Kind(it)
         /\ calls = 1 =>
              /\ \A kind : Count(Found, kind) = Count(Orders!Items, kind)
              /\ \A c \in Found : AboutUpdates(c) =>
                   \E it \in Orders!Items : Kind(it) = Kind(c) /\ it.file = FileOf(c)
<1>1. Made = Orders!Items
  BY AllMade DEF IInv, ControlInv, MadeInv
<1> QED
  BY <1>1 DEF MadeInv, CountInv

(* Nothing is left unordered.                                              *)
LEMMA NothingUnordered == ASSUME IInv, MadeInv, phase = "done" PROVE HypothesesComplete
<1>1. ASSUME NEW it \in Orders!Items, NEW type, NEW i, NEW j, NEW n1, NEW n2, NEW samecore,
             Kind(it) = <<type, i, j, n1, n2, samecore>>
      PROVE  Has(type, i, j, n1, n2)
  <2>1. PICK c \in Found : Kind(c) = Kind(it)
    BY AllOrdersMade
  <2>2. c \in Hypotheses \cup hbi_inferred
    BY DEF Found
  <2>3. c.type = type /\ c.i1 = i /\ c.i2 = j /\ c.l1 = n1 /\ c.l2 = n2
    BY ONLY <1>1, <2>1 DEF Kind
  <2> QED
    BY <2>2, <2>3 DEF Has
<1>2. ASSUME NEW i \in Instns, NEW j \in Instns, NEW t \in 1 .. Depth(i, j),
             NEW n1 \in design.uhb[i][t], NEW n2 \in design.uhb[j][t]
      PROVE  IF n1 = n2 THEN Has("spatial", i, j, n1, n2)
             ELSE ~ (SharedMem(i, n1) \/ SharedMem(j, n2)) => Has("temporal", i, j, n1, n2)
  <2>1. CASE n1 = n2
    <3>1. PICK it : it = SpatialOrder(i, j, t, n1)
      OBVIOUS
    <3>2. it \in Orders!Items
      BY <2>1, <3>1, SpatialCalled
    <3>3. PICK samecore : Kind(it) = <<"spatial", i, j, n1, n1, samecore>>
      BY <3>1 DEF SpatialOrder, PcrOrder, Orders!Item, Kind
    <3>4. Has("spatial", i, j, n1, n1)
      BY ONLY <1>1, <3>2, <3>3
    <3> QED
      BY <2>1, <3>4
  <2>2. CASE n1 # n2 /\ ~ (SharedMem(i, n1) \/ SharedMem(j, n2))
    <3>1. PICK it : it = PcrOrder(i, j, t, "temporal", n1, n2)
      OBVIOUS
    <3>2. it \in Orders!Items
      BY <2>2, <3>1, PipelineCalled DEF Ordered
    <3>3. PICK samecore : Kind(it) = <<"temporal", i, j, n1, n2, samecore>>
      BY <3>1 DEF PcrOrder, Orders!Item, Kind
    <3>4. Has("temporal", i, j, n1, n2)
      BY ONLY <1>1, <3>2, <3>3
    <3> QED
      BY <2>2, <3>4
  <2> QED
    BY <2>1, <2>2
<1>3. ASSUME NEW i \in Instns, NEW j \in Instns,
             NEW m \in (DOMAIN design.loc[i] \cap DOMAIN design.loc[j]) \ design.local,
             NEW a \in design.loc[i][m], NEW b \in design.loc[j][m]
      PROVE  /\ \A n1 \in DownPool(i, m, a), n2 \in DownPool(j, m, b) : Has("temporal", i, j, n1, n2)
             /\ a.write /\ ~ b.write => \A n2 \in design.down[j][m] : Has("data", i, j, m, n2)
  <2>1. AccessOrders(i, j, m, a, b) \cup FlowOrders(i, j, m, a, b) \subseteq Orders!Items
    BY AccessesCalled
  <2>2. ASSUME NEW n1 \in DownPool(i, m, a), NEW n2 \in DownPool(j, m, b) PROVE Has("temporal", i, j, n1, n2)
    <3>1. PICK it : it = AccessOrder(i, j, m, a, b, n1, n2)
      OBVIOUS
    <3>2. it \in Orders!Items
      BY <2>1, <3>1, AccessForm DEF IsLocal
    <3>3. PICK samecore : Kind(it) = <<"temporal", i, j, n1, n2, samecore>>
      BY <3>1 DEF AccessOrder, Orders!Item, Kind
    <3> QED
      BY ONLY <1>1, <3>2, <3>3
  <2>3. ASSUME a.write, ~ b.write, NEW n2 \in design.down[j][m] PROVE Has("data", i, j, m, n2)
    <3>1. PICK it : it = FlowOrder(i, j, m, a, b, n2)
      OBVIOUS
    <3>2. it \in Orders!Items
      BY <2>1, <2>3, <3>1 DEF FlowOrders
    <3>3. PICK samecore : Kind(it) = <<"data", i, j, m, n2, samecore>>
      BY <3>1 DEF FlowOrder, Orders!Item, Kind
    <3> QED
      BY ONLY <1>1, <3>2, <3>3
  <2> QED
    BY <2>2, <2>3
<1> QED
  BY <1>2, <1>3 DEF HypothesesComplete

(* The invariant contains the property.                                    *)
LEMMA MadeEnough == ASSUME IInv, MadeInv PROVE OrdersOfDesign
<1> DEFINE PcrOf(c) == IF c.seq = -1 \/ files[c.seq].kind # "pcr" THEN << >>
                       ELSE <<"pcr", files[c.seq].i1, files[c.seq].i2, files[c.seq].pcr>>
<1>1. phase = "done" => HypothesesComplete
  BY NothingUnordered
<1>2. ASSUME phase = "done", calls = 1
      PROVE  /\ \A x \in Found \cup Orders!Items : Count(Found, Kind(x)) = Count(Orders!Items, Kind(x))
             /\ \A c \in Found : PcrOf(c) # << >> => \E x \in Orders!Items : Kind(x) = Kind(c) /\ x.file = PcrOf(c)
  <2>1. \A kind : Count(Found, kind) = Count(Orders!Items, kind)
    BY <1>2, AllOrdersMade
  <2>2. ASSUME NEW c \in Found, PcrOf(c) # << >>
        PROVE  \E x \in Orders!Items : Kind(x) = Kind(c) /\ x.file = PcrOf(c)
    <3>1. c.seq # -1 /\ files[c.seq].kind = "pcr" /\ PcrOf(c) = FileOf(c)
      BY <2>2 DEF FileOf
    <3>2. c \in Hypotheses /\ c.next < 0
      BY <1>2, <3>1 DEF Found, MadeInv, CountInv
    <3>3. AboutUpdates(c)
      <4>1. \A f \in {files[c.seq]} : Answers(c, f)
        BY <1>2, <3>2 DEF IInv, FilesInv, Sound
      <4>2. Answers(c, files[c.seq])
        BY <4>1
      <4>3. ~ FlowAnswers(c, files[c.seq])
        BY <3>1 DEF FlowAnswers
      <4>4. ~ AccessAnswers(c, files[c.seq])
        <5>1. \A s \in ToSet(Steps) : s \in {"send", "rec", "proc"}
          BY DEF Steps, ToSet
        <5>2. PICK f : f = files[c.seq]
          OBVIOUS
        <5>3. ASSUME NEW m, NEW a, NEW b, NEW s, f = InterfaceFile(s, c.i1, c.i2, m, a, b) PROVE f.kind = s
          BY <5>3 DEF InterfaceFile
        <5>4. f.kind = "pcr"
          BY <3>1, <5>2
        <5> QED
          BY <5>1, <5>2, <5>3, <5>4 DEF AccessAnswers
      <4> QED
        BY <4>2, <4>3, <4>4 DEF Answers, AboutUpdates
    <3> HIDE DEF PcrOf
    <3> QED
      BY <1>2, <3>1, <3>3, AllOrdersMade
  <2> QED
    BY <2>1, <2>2
<1> QED
  BY <1>1, <1>2 DEF OrdersOfDesign, Found

(* When generate ends nothing is left unordered, and in the first          *)
(* execution what it ends with are the orders the design calls for, as     *)
(* many of each kind, those of two updates each with the file of its PC    *)
(* register: for every design, whatever order its loops run in.            *)
THEOREM OrdersCorrect == Spec => []OrdersOfDesign
<1>1. Init => IInv /\ MadeInv
  BY Initially, MadeInitially
<1>2. (IInv /\ MadeInv) /\ [Next]_vars => (IInv /\ MadeInv)'
  BY Inductive, MadeInductive
<1>3. IInv /\ MadeInv => OrdersOfDesign
  BY MadeEnough
<1> QED
  BY <1>1, <1>2, <1>3, PTL DEF Spec
=============================================================================
