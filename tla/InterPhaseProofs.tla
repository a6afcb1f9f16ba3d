-------------------------- MODULE InterPhaseProofs --------------------------
(***************************************************************************)
(* Theorems about the inter-instruction phase from hypothesis to verdict   *)
(* (InterPhase): what a proven verdict placed on a hypothesis rests on.    *)
(***************************************************************************)
EXTENDS InterPhase, InterHbiProofs

-----------------------------------------------------------------------------
(* How the hypotheses of a chain lie in hbi_checkings.                     *)

(* A hypothesis that names the next file of its chain is followed at once  *)
(* by a hypothesis of a chain: no chain is open where an unchained         *)
(* hypothesis comes.                                                       *)
Adjacent(s) ==
  \A k \in DOMAIN s : s[k].next >= 0 => k + 1 \in DOMAIN s /\ s[k + 1].next # -1

(* The three hypotheses of the protocol files q, q + 1 and q + 2, from     *)
(* position b on.                                                          *)
Triple(s, b, q) ==
  /\ b \in DOMAIN s /\ b + 1 \in DOMAIN s /\ b + 2 \in DOMAIN s
  /\ s[b].seq = q /\ s[b].next = q + 1
  /\ s[b + 1].seq = q + 1 /\ s[b + 1].next = q + 2
  /\ s[b + 2].seq = q + 2 /\ s[b + 2].next = -2

(* Every hypothesis of a chain belongs to such a triple, for files from lo *)
(* on and below hi.                                                        *)
Triples(s, lo, hi) ==
  \A k \in DOMAIN s : s[k].next # -1 =>
    \E q \in lo .. hi - 3, b \in {k - 2, k - 1, k} : Triple(s, b, q)

(* Every access of a shared memory is observed at one node. *)
OneNode ==
  \A i \in Instns : \A m \in DOMAIN design.loc[i] : ~ IsLocal(m) =>
    \A a \in design.loc[i][m] : \E n : DownPool(i, m, a) = {n}

LinksInv ==
  /\ \A c \in hbi_inferred : c.seq = -1
  /\ Adjacent(hbi_checkings)
  /\ OneNode => Triples(hbi_checkings, 0, hbi_cntr)

(* A sequence of unchained hypotheses has no chains to speak of.           *)
LEMMA Unchained ==
  ASSUME NEW s, \A k \in DOMAIN s : s[k].next = -1, NEW lo, NEW hi
  PROVE  Adjacent(s) /\ Triples(s, lo, hi)
BY DEF Adjacent, Triples

(* The chains of two sequences one after the other are the chains of both. *)
LEMMA AdjacentConcat ==
  ASSUME NEW s \in Seq(CheckType), NEW t \in Seq(CheckType), Adjacent(s), Adjacent(t)
  PROVE  Adjacent(s \o t)
<1>1. PICK u : u = s \o t
  OBVIOUS
<1>2. /\ u \in Seq(CheckType) /\ Len(u) = Len(s) + Len(t)
      /\ \A k \in 1 .. Len(s) : u[k] = s[k]
      /\ \A k \in 1 .. Len(t) : u[Len(s) + k] = t[k]
  BY <1>1, ToSetConcat
<1> DOMAIN s = 1 .. Len(s) /\ DOMAIN t = 1 .. Len(t) /\ DOMAIN u = 1 .. Len(u)
    /\ Len(s) \in Nat /\ Len(t) \in Nat
  BY <1>2, LenProperties
<1>3. ASSUME NEW k \in DOMAIN u, u[k].next >= 0
      PROVE  k + 1 \in DOMAIN u /\ u[k + 1].next # -1
  <2>1. CASE k <= Len(s)
    <3>1. k \in DOMAIN s /\ s[k].next >= 0
      BY <1>2, <1>3, <2>1
    <3>2. k + 1 \in DOMAIN s /\ s[k + 1].next # -1
      BY <3>1 DEF Adjacent
    <3> QED
      BY <1>2, <3>2
  <2>2. CASE k > Len(s)
    <3>1. PICK j : j = k - Len(s)
      OBVIOUS
    <3>2. j \in DOMAIN t /\ Len(s) + j = k
      BY <1>2, <2>2, <3>1
    <3>3. u[k] = t[j]
      BY <1>2, <3>2
    <3>4. j + 1 \in DOMAIN t /\ t[j + 1].next # -1
      BY <1>3, <3>2, <3>3 DEF Adjacent
    <3>5. Len(s) + (j + 1) = k + 1
      BY <3>2
    <3>6. u[k + 1] = t[j + 1]
      BY <1>2, <3>4, <3>5
    <3> QED
      BY <1>2, <3>4, <3>5, <3>6
  <2> QED
    BY <1>2, <2>1, <2>2
<1>4. Adjacent(u)
  BY <1>3 DEF Adjacent
<1> QED
  BY <1>1, <1>4

(* So are triples, if the second sequence names later files.               *)
LEMMA TriplesConcat ==
  ASSUME NEW s \in Seq(CheckType), NEW t \in Seq(CheckType),
         NEW lo \in Nat, NEW mid \in Nat, NEW hi \in Nat, lo <= mid, mid <= hi,
         Triples(s, lo, mid), Triples(t, mid, hi)
  PROVE  Triples(s \o t, lo, hi)
<1>1. PICK u : u = s \o t
  OBVIOUS
<1>2. /\ u \in Seq(CheckType) /\ Len(u) = Len(s) + Len(t)
      /\ \A k \in 1 .. Len(s) : u[k] = s[k]
      /\ \A k \in 1 .. Len(t) : u[Len(s) + k] = t[k]
  BY <1>1, ToSetConcat
<1>3. DOMAIN s = 1 .. Len(s) /\ DOMAIN t = 1 .. Len(t) /\ DOMAIN u = 1 .. Len(u)
      /\ Len(s) \in Nat /\ Len(t) \in Nat
  BY <1>2, LenProperties
<1>4. ASSUME NEW b, NEW q, Triple(s, b, q) PROVE Triple(u, b, q)
  <2>1. b \in 1 .. Len(s) /\ b + 1 \in 1 .. Len(s) /\ b + 2 \in 1 .. Len(s)
    BY <1>3, <1>4 DEF Triple
  <2>2. u[b] = s[b] /\ u[b + 1] = s[b + 1] /\ u[b + 2] = s[b + 2]
    BY <1>2, <2>1
  <2>3. b \in DOMAIN u /\ b + 1 \in DOMAIN u /\ b + 2 \in DOMAIN u
    BY <1>2, <1>3, <2>1
  <2> QED
    BY <1>4, <2>2, <2>3 DEF Triple
<1>5. ASSUME NEW b, NEW q, Triple(t, b, q) PROVE Triple(u, Len(s) + b, q)
  <2>1. b \in 1 .. Len(t) /\ b + 1 \in 1 .. Len(t) /\ b + 2 \in 1 .. Len(t)
    BY <1>3, <1>5 DEF Triple
  <2>2. /\ u[Len(s) + b] = t[b] /\ u[Len(s) + (b + 1)] = t[b + 1]
        /\ u[Len(s) + (b + 2)] = t[b + 2]
    BY <1>2, <2>1
  <2>3. Len(s) + (b + 1) = (Len(s) + b) + 1 /\ Len(s) + (b + 2) = (Len(s) + b) + 2
    BY <1>3, <2>1
  <2>4. Len(s) + b \in DOMAIN u /\ (Len(s) + b) + 1 \in DOMAIN u /\ (Len(s) + b) + 2 \in DOMAIN u
    BY <1>2, <1>3, <2>1
  <2> QED
    BY <1>5, <2>2, <2>3, <2>4 DEF Triple
<1>6. ASSUME NEW k \in DOMAIN u
      PROVE  \/ k \in DOMAIN s /\ u[k] = s[k]
             \/ k - Len(s) \in DOMAIN t /\ u[k] = t[k - Len(s)]
  <2>1. CASE k <= Len(s)
    BY <1>2, <1>3, <2>1
  <2>2. CASE k > Len(s)
    <3>1. k - Len(s) \in 1 .. Len(t) /\ Len(s) + (k - Len(s)) = k
      BY <1>2, <1>3, <2>2
    <3> QED
      BY <1>2, <1>3, <3>1
  <2> QED
    BY <1>3, <2>1, <2>2
<1>7. ASSUME NEW k \in DOMAIN u, u[k].next # -1
      PROVE  \E q \in lo .. hi - 3, b \in {k - 2, k - 1, k} : Triple(u, b, q)
  <2>1. CASE k \in DOMAIN s /\ u[k] = s[k]
    <3>1. PICK q \in lo .. mid - 3, b \in {k - 2, k - 1, k} : Triple(s, b, q)
      BY <1>7, <2>1 DEF Triples
    <3>2. Triple(u, b, q) /\ q \in lo .. hi - 3
      BY <1>4, <3>1
    <3> QED
      BY <3>1, <3>2
  <2>2. CASE k - Len(s) \in DOMAIN t /\ u[k] = t[k - Len(s)]
    <3>1. PICK j : j = k - Len(s)
      OBVIOUS
    <3>2. PICK q \in mid .. hi - 3, b \in {j - 2, j - 1, j} : Triple(t, b, q)
      BY <1>7, <2>2, <3>1 DEF Triples
    <3>3. Triple(u, Len(s) + b, q) /\ q \in lo .. hi - 3
      BY <1>5, <3>2
    <3>4. Len(s) + b \in {k - 2, k - 1, k}
      <4>1. j \in Int /\ k \in Int /\ Len(s) \in Int /\ j = k - Len(s)
        BY <1>3, <2>2, <3>1
      <4> QED
        BY ONLY <4>1, b \in {j - 2, j - 1, j}
    <3> QED
      BY <3>3, <3>4
  <2> QED
    BY <1>6, <2>1, <2>2
<1>8. Triples(u, lo, hi)
  BY <1>7 DEF Triples
<1> QED
  BY <1>1, <1>8

-----------------------------------------------------------------------------
(* The steps of generate keep the chains so.                               *)

(* The protocol hypotheses of a pair of accesses: their chains close       *)
(* before they end, and are one triple if there is one pair of nodes.      *)
LEMMA ProtocolBlock ==
  ASSUME ControlInv, hbi_cntr \in Nat,
         NEW P \in SUBSET Elements(design), NEW o1 \in Seq(P), Len(o1) \in Nat \ {0},
         NEW Q \in SUBSET Elements(design), NEW o2 \in Seq(Q), Len(o2) \in Nat \ {0}
  PROVE  /\ InterfaceChecks(o1, o2) \in Seq(CheckType)
         /\ Adjacent(InterfaceChecks(o1, o2))
         /\ Len(o1) = 1 /\ Len(o2) = 1 =>
              Triples(InterfaceChecks(o1, o2), hbi_cntr, hbi_cntr + 3)
<1>1. PICK n, T : n = Len(o1) * Len(o2) /\ T = InterfaceChecks(o1, o2)
  OBVIOUS
<1>2. n \in Nat \ {0} /\ Protocol(T, n, P, Q)
  <2>1. Len(o1) * Len(o2) \in Nat \ {0} /\ Protocol(InterfaceChecks(o1, o2), Len(o1) * Len(o2), P, Q)
    BY ONLY ControlInv, hbi_cntr \in Nat, P \in SUBSET Elements(design), o1 \in Seq(P),
            Len(o1) \in Nat \ {0}, Q \in SUBSET Elements(design), o2 \in Seq(Q),
            Len(o2) \in Nat \ {0}, ProtocolHypotheses
  <2> QED
    BY ONLY <1>1, <2>1
<1>3. /\ T \in [1 .. 3 * n -> CheckType]
      /\ \A k \in 1 .. 3 * n : T[k].seq = hbi_cntr + (k - 1) \div n /\ T[k].next = RelevantFile((k - 1) \div n)
  <2>1. T \in [1 .. 3 * n -> CheckType]
    BY ONLY <1>2 DEF Protocol
  <2>2. T = [k \in 1 .. 3 * n |->
               Check(hbi_cntr + (k - 1) \div n, "temporal", o1[1 + (((k - 1) % n) \div Len(o2))],
                     o2[1 + (((k - 1) % n) % Len(o2))], TRUE, RelevantFile((k - 1) \div n))]
    BY ONLY <1>1 DEF InterfaceChecks
  <2> QED
    BY ONLY <2>1, <2>2 DEF Check
<1>4. T \in Seq(CheckType) /\ DOMAIN T = 1 .. 3 * n
  <2>1. PICK l : l = 3 * n
    OBVIOUS
  <2>2. l \in Nat /\ T \in [1 .. l -> CheckType]
    BY <1>2, <1>3, <2>1
  <2> QED
    BY ONLY <2>1, <2>2, SeqOfPositions
<1>5. /\ RelevantFile(0) = hbi_cntr + 1 /\ RelevantFile(1) = hbi_cntr + 2 /\ RelevantFile(2) = -2
      /\ \A i \in 0 .. 2 : RelevantFile(i) # -1 /\ (RelevantFile(i) >= 0 => i < 2)
  BY DEF RelevantFile
<1>6. Adjacent(T)
  <2> SUFFICES ASSUME NEW k \in 1 .. 3 * n, T[k].next >= 0
               PROVE  k + 1 \in 1 .. 3 * n /\ T[k + 1].next # -1
    BY <1>4 DEF Adjacent
  <2>1. (k - 1) \div n \in 0 .. 2 /\ (k - 1) \div n < 2
    BY <1>2, <1>3, <1>5, Position
  <2>2. k + n \in 1 .. 3 * n
    BY <1>2, <2>1, Position
  <2>3. k + 1 \in 1 .. 3 * n
    BY <1>2, <2>2
  <2>4. PICK j : j = k + 1
    OBVIOUS
  <2>5. (j - 1) \div n \in 0 .. 2
    BY <1>2, <2>3, <2>4, Position
  <2>6. T[j].next # -1
    BY <1>3, <1>5, <2>3, <2>4, <2>5
  <2> QED
    BY <2>3, <2>4, <2>6
<1>7. ASSUME Len(o1) = 1, Len(o2) = 1
      PROVE  Triples(T, hbi_cntr, hbi_cntr + 3)
  <2>1. n = 1
    BY <1>1, <1>7
  <2>2. ASSUME NEW k \in 1 .. 3
        PROVE  T[k].seq = hbi_cntr + (k - 1) /\ T[k].next = RelevantFile(k - 1)
    <3>1. PICK j : j = k - 1
      OBVIOUS
    <3>2. j \in Nat /\ j \div 1 = j
      <4>1. j \in Nat
        BY <3>1
      <4>2. j \div 1 \in Nat /\ j % 1 \in 0 .. 1 - 1 /\ j = 1 * (j \div 1) + (j % 1)
        BY <4>1, DivMod
      <4> QED
        BY <4>1, <4>2
    <3>3. k \in 1 .. 3 * n /\ (k - 1) \div n = k - 1
      BY ONLY <2>1, <2>2, <3>1, <3>2
    <3> QED
      BY ONLY <1>3, <3>3
  <2>3. DOMAIN T = 1 .. 3
    BY <1>4, <2>1
  <2>4. Triple(T, 1, hbi_cntr)
    BY <1>5, <2>2, <2>3 DEF Triple
  <2>5. Triples(T, hbi_cntr, hbi_cntr + 3)
    BY <2>3, <2>4 DEF Triples
  <2> QED
    BY <2>5
<1> QED
  BY ONLY <1>1, <1>4, <1>6, <1>7

(* A step that pushes chains so formed keeps the invariant.                *)
LEMMA LinksPushed ==
  ASSUME LinksInv, FilesInv, design' = design,
         NEW new \in Seq(CheckType), hbi_checkings' = hbi_checkings \o new,
         hbi_cntr' \in Nat, hbi_cntr' >= hbi_cntr,
         \A c \in hbi_inferred' : c.seq = -1,
         Adjacent(new),
         OneNode => Triples(new, hbi_cntr, hbi_cntr')
  PROVE  LinksInv'
<1>1. PICK old, all, mid, hi :
        old = hbi_checkings /\ all = hbi_checkings' /\ mid = hbi_cntr /\ hi = hbi_cntr'
  OBVIOUS
<1>2. /\ old \in Seq(CheckType) /\ all = old \o new /\ mid \in Nat /\ hi \in Nat /\ mid <= hi
      /\ Adjacent(old)
      /\ OneNode => Triples(old, 0, mid) /\ Triples(new, mid, hi)
  BY <1>1 DEF LinksInv, FilesInv
<1>3. OneNode' = OneNode
  BY DEF OneNode, Instns, IsLocal, DownPool
<1>4. Adjacent(all)
  BY <1>2, AdjacentConcat
<1>5. OneNode => Triples(all, 0, hi)
  <2>1. 0 \in Nat /\ 0 <= mid
    BY <1>2
  <2> QED
    BY <1>2, <2>1, TriplesConcat
<1>6. Adjacent(hbi_checkings') /\ (OneNode => Triples(hbi_checkings', 0, hbi_cntr'))
  BY <1>1, <1>4, <1>5
<1> QED
  BY <1>3, <1>6 DEF LinksInv, Adjacent, Triples, Triple

(* A hypothesis reduced to a PC register is pushed unchained.              *)
LEMMA PcrLinks ==
  ASSUME IInv, LinksInv, design' = design, hbi_cntr' \in Nat, hbi_inferred' = hbi_inferred,
         NEW t \in 1 .. Depth(i1, i2), NEW l1 \in design.uhb[i1][t], NEW l2 \in design.uhb[i2][t],
         NEW type \in {"spatial", "temporal"}, PcrCheck(t, type, l1, l2)
  PROVE  LinksInv'
<1>1. PICK pcr, seq, check :
        /\ pcr = StagePcr(t)
        /\ seq = IF PcrKey(pcr) \in DOMAIN pcr_inorder_hbi THEN pcr_inorder_hbi[PcrKey(pcr)] ELSE hbi_cntr
        /\ check = Check(seq, type, l1, l2, TRUE, -1)
  OBVIOUS
<1>2. /\ hbi_checkings' = Append(hbi_checkings, check)
      /\ hbi_cntr' = hbi_cntr \/ hbi_cntr' = hbi_cntr + 1
  BY <1>1 DEF PcrCheck, NewPcrFile
<1>3. hbi_cntr \in Nat /\ hbi_checkings \in Seq(CheckType) /\ ControlInv /\ FilesInv
  BY DEF IInv, FilesInv
<1>4. seq \in Nat
  BY <1>1, <1>3 DEF IInv, PcrInv
<1>5. check \in CheckType
  BY <1>1, <1>3, <1>4, Stages, CheckWellFormed DEF ControlInv
<1>6. check.next = -1
  BY <1>1 DEF Check
<1>7. PICK new : new = <<check>>
  OBVIOUS
<1>8. new \in Seq(CheckType) /\ \A k \in DOMAIN new : new[k].next = -1
  BY <1>5, <1>6, <1>7
<1>9. hbi_checkings' = hbi_checkings \o new
  BY <1>2, <1>3, <1>5, <1>7, AppendIsConcat
<1>10. hbi_cntr' >= hbi_cntr
  BY <1>2, <1>3
<1>11. PICK lo, hi : lo = hbi_cntr /\ hi = hbi_cntr'
  OBVIOUS
<1>12. Adjacent(new) /\ Triples(new, lo, hi)
  BY <1>8, Unchained
<1>13. \A c \in hbi_inferred' : c.seq = -1
  BY DEF LinksInv
<1> QED
  BY <1>3, <1>8, <1>9, <1>10, <1>11, <1>12, <1>13, LinksPushed

(* The hypotheses of a data-flow file are unchained.                       *)
LEMMA FlowBlock ==
  ASSUME ControlInv, NEW m \in Elements(design), NEW Q \in SUBSET Elements(design),
         NEW o2 \in Seq(Q), Len(o2) \in Nat \ {0}, NEW seq \in Nat, NEW samecore \in BOOLEAN
  PROVE  /\ FlowChecks(m, o2, seq, samecore) \in Seq(CheckType)
         /\ \A k \in DOMAIN FlowChecks(m, o2, seq, samecore) :
              FlowChecks(m, o2, seq, samecore)[k].next = -1
<1>1. \A l2 \in Q : Check(seq, "data", m, l2, samecore, -1) \in CheckType
  BY CheckWellFormed
<1>2. FlowChecks(m, o2, seq, samecore) \in Seq(CheckType)
  BY ONLY <1>1, o2 \in Seq(Q), Len(o2) \in Nat \ {0}, FlowHypotheses
<1>3. \A k \in DOMAIN FlowChecks(m, o2, seq, samecore) :
        FlowChecks(m, o2, seq, samecore)[k].next = -1
  BY DEF FlowChecks, Check
<1> QED
  BY <1>2, <1>3

(* The pair of accesses of a local array pushes its data-flow hypotheses.  *)
LEMMA LocalLinks ==
  ASSUME IInv, LinksInv, design' = design, hbi_inferred' = hbi_inferred,
         NEW m \in DOMAIN design.loc[i1] \cap DOMAIN design.loc[i2],
         NEW a \in design.loc[i1][m], NEW b \in design.loc[i2][m],
         NEW o2 \in SetToSeqs(DownPool(i2, m, b)), LocalInterface(m, a, b, o2)
  PROVE  LinksInv'
<1>1. ControlInv /\ FilesInv /\ hbi_cntr \in Nat /\ hbi_checkings \in Seq(CheckType)
  BY DEF IInv, FilesInv
<1>2. PICK Q : Q = DownPool(i2, m, b)
  OBVIOUS
<1>3. m \in Elements(design) /\ Q \in SUBSET Elements(design) /\ IsFiniteSet(Q) /\ Q # {}
  BY <1>1, <1>2, Accesses DEF ControlInv
<1>4. o2 \in Seq(Q) /\ Len(o2) \in Nat \ {0}
  BY <1>2, <1>3, SetOrder
<1>5. PICK seq, new : /\ seq = hbi_cntr
                      /\ new = IF a.write /\ ~ b.write THEN FlowChecks(m, o2, seq, TRUE) ELSE << >>
  OBVIOUS
<1>6. new \in Seq(CheckType) /\ \A k \in DOMAIN new : new[k].next = -1
  <2>1. seq \in Nat /\ TRUE \in BOOLEAN
    BY <1>1, <1>5
  <2>2. /\ FlowChecks(m, o2, seq, TRUE) \in Seq(CheckType)
        /\ \A k \in DOMAIN FlowChecks(m, o2, seq, TRUE) : FlowChecks(m, o2, seq, TRUE)[k].next = -1
    BY ONLY <1>1, <1>3, <1>4, <2>1, FlowBlock
  <2>3. << >> \in Seq(CheckType) /\ DOMAIN << >> = {}
    BY EmptySeq
  <2> QED
    BY <1>5, <2>2, <2>3
<1>7. hbi_checkings' = hbi_checkings \o new /\ (hbi_cntr' = hbi_cntr \/ hbi_cntr' = hbi_cntr + 1)
  <2>1. CASE a.write /\ ~ b.write
    BY <1>5, <2>1 DEF LocalInterface
  <2>2. CASE ~ (a.write /\ ~ b.write)
    <3>1. new = << >> /\ hbi_checkings' = hbi_checkings /\ hbi_cntr' = hbi_cntr
      BY <1>5, <2>2 DEF LocalInterface
    <3> QED
      BY <1>1, <3>1, ConcatEmptySeq
  <2> QED
    BY <2>1, <2>2
<1>8. PICK lo, hi : lo = hbi_cntr /\ hi = hbi_cntr'
  OBVIOUS
<1>9. Adjacent(new) /\ Triples(new, lo, hi)
  BY <1>6, Unchained
<1>10. \A c \in hbi_inferred' : c.seq = -1
  BY DEF LinksInv
<1>11. hbi_cntr' \in Nat /\ hbi_cntr' >= hbi_cntr
  BY <1>1, <1>7
<1> QED
  BY <1>1, <1>6, <1>7, <1>8, <1>9, <1>10, <1>11, LinksPushed

(* The pair of accesses of a shared memory pushes its protocol hypotheses, *)
(* then its data-flow hypotheses.                                          *)
LEMMA SharedLinks ==
  ASSUME IInv, LinksInv, design' = design, hbi_inferred' = hbi_inferred,
         NEW m \in DOMAIN design.loc[i1] \cap DOMAIN design.loc[i2], ~ IsLocal(m),
         NEW a \in design.loc[i1][m], NEW b \in design.loc[i2][m],
         NEW o1 \in SetToSeqs(DownPool(i1, m, a)), NEW o2 \in SetToSeqs(DownPool(i2, m, b)),
         SharedInterface(m, a, b, o1, o2)
  PROVE  LinksInv'
<1>1. ControlInv /\ FilesInv /\ hbi_cntr \in Nat /\ hbi_checkings \in Seq(CheckType)
  BY DEF IInv, FilesInv
<1>2. PICK P, Q : P = DownPool(i1, m, a) /\ Q = DownPool(i2, m, b)
  OBVIOUS
<1>3. /\ m \in Elements(design) /\ P \in SUBSET Elements(design) /\ Q \in SUBSET Elements(design)
      /\ IsFiniteSet(P) /\ P # {} /\ IsFiniteSet(Q) /\ Q # {}
  BY <1>1, <1>2, Accesses DEF ControlInv
<1>4. o1 \in Seq(P) /\ Len(o1) \in Nat \ {0} /\ o2 \in Seq(Q) /\ Len(o2) \in Nat \ {0}
  BY <1>2, <1>3, SetOrder
<1>5. PICK T, flow, seq, lo, hi, added :
        /\ T = InterfaceChecks(o1, o2) /\ seq = hbi_cntr + 3
        /\ flow = IF a.write /\ ~ b.write THEN FlowChecks(m, o2, seq, FALSE) ELSE << >>
        /\ added = IF a.write /\ ~ b.write THEN 4 ELSE 3
        /\ lo = hbi_cntr /\ hi = hbi_cntr'
  OBVIOUS
<1>6. /\ hbi_checkings' = hbi_checkings \o T \o flow
      /\ hbi_cntr' = hbi_cntr + added
  BY <1>5 DEF SharedInterface
<1>7. /\ T \in Seq(CheckType) /\ Adjacent(T)
      /\ Len(o1) = 1 /\ Len(o2) = 1 => Triples(T, hbi_cntr, hbi_cntr + 3)
  BY ONLY <1>1, <1>3, <1>4, <1>5, ProtocolBlock
<1>8. flow \in Seq(CheckType) /\ \A k \in DOMAIN flow : flow[k].next = -1
  <2>1. seq \in Nat /\ FALSE \in BOOLEAN
    BY <1>1, <1>5
  <2>2. /\ FlowChecks(m, o2, seq, FALSE) \in Seq(CheckType)
        /\ \A k \in DOMAIN FlowChecks(m, o2, seq, FALSE) : FlowChecks(m, o2, seq, FALSE)[k].next = -1
    BY ONLY <1>1, <1>3, <1>4, <2>1, FlowBlock
  <2>3. << >> \in Seq(CheckType) /\ DOMAIN << >> = {}
    BY EmptySeq
  <2> QED
    BY <1>5, <2>2, <2>3
<1>9. PICK new : new = T \o flow
  OBVIOUS
<1>10. new \in Seq(CheckType) /\ hbi_checkings' = hbi_checkings \o new
  BY <1>1, <1>6, <1>7, <1>8, <1>9, ConcatProperties, ConcatAssociative
<1>11. lo \in Nat /\ hi \in Nat /\ lo + 3 \in Nat /\ lo + 3 <= hi /\ lo <= hi
  BY <1>1, <1>5, <1>6
<1>12. Adjacent(flow) /\ Triples(flow, lo + 3, hi)
  <2>1. PICK mid : mid = lo + 3
    OBVIOUS
  <2> QED
    BY <1>8, <2>1, Unchained
<1>13. Adjacent(new)
  BY ONLY <1>7, <1>8, <1>9, <1>12, AdjacentConcat
<1>14. ASSUME OneNode PROVE Triples(new, lo, hi)
  <2>1. Len(o1) = 1 /\ Len(o2) = 1
    <3>1. i1 \in Instns /\ i2 \in Instns
      BY <1>1 DEF ControlInv
    <3>2. PICK x, y : P = {x} /\ Q = {y}
      BY <1>2, <1>14, <3>1 DEF OneNode
    <3>3. Cardinality(P) = 1 /\ Cardinality(Q) = 1
      BY <3>2, FS_Singleton
    <3>4. ASSUME NEW S, Cardinality(S) = 1, NEW o \in SetToSeqs(S) PROVE Len(o) = 1
      <4>1. o \in [1 .. 1 -> S]
        BY <3>4 DEF SetToSeqs
      <4> QED
        BY <4>1, SeqOfPositions
    <3> QED
      BY <1>2, <3>3, <3>4
  <2>2. Triples(T, lo, lo + 3)
    BY <1>5, <1>7, <2>1
  <2>3. Triples(flow, lo + 3, hi)
    BY <1>12
  <2>4. PICK mid : mid = lo + 3
    OBVIOUS
  <2>5. Triples(T, lo, mid) /\ Triples(flow, mid, hi) /\ mid \in Nat /\ lo <= mid /\ mid <= hi
    BY ONLY <1>11, <2>2, <2>3, <2>4
  <2> QED
    BY ONLY <1>7, <1>8, <1>9, <1>11, <2>2, <2>3, <2>5, TriplesConcat
<1>15. \A c \in hbi_inferred' : c.seq = -1
  BY DEF LinksInv
<1>16. hbi_cntr' \in Nat /\ hbi_cntr' >= hbi_cntr
  BY <1>5, <1>11
<1>17. OneNode => Triples(new, hbi_cntr, hbi_cntr')
  BY <1>5, <1>14
<1> QED
  BY ONLY LinksInv, design' = design, <1>1, <1>10, <1>13, <1>15, <1>16, <1>17, LinksPushed

(* Spatial keeps the chains so.                                            *)
LEMMA SpatialLinks == ASSUME IInv, LinksInv, IInv', NEW t, NEW n, Spatial(t, n) PROVE LinksInv'
<1>1. /\ phase = "spatial" /\ <<t, n>> \in todo /\ design' = design
      /\ IF IsMem(i1, n)
         THEN /\ hbi_inferred' = hbi_inferred \cup {Check(-1, "spatial", n, n, IsLocal(n), -1)}
              /\ UNCHANGED output
         ELSE PcrCheck(t, "spatial", n, n) /\ UNCHANGED hbi_inferred
  BY DEF Spatial, TakeInStageOrder
<1>2. t \in 1 .. Depth(i1, i2) /\ n \in design.uhb[i1][t] /\ n \in design.uhb[i2][t]
  BY <1>1, WorkItems DEF IInv, ControlInv
<1>3. CASE IsMem(i1, n)
  <2>1. \A c \in hbi_inferred' : c.seq = -1
    BY <1>1, <1>3 DEF LinksInv, Check
  <2>2. OneNode' = OneNode /\ hbi_checkings' = hbi_checkings /\ hbi_cntr' = hbi_cntr
    BY <1>1, <1>3 DEF OneNode, Instns, IsLocal, DownPool, output
  <2> QED
    BY <2>1, <2>2 DEF LinksInv
<1>4. CASE ~ IsMem(i1, n)
  <2>1. hbi_cntr' \in Nat
    BY DEF IInv, FilesInv
  <2> QED
    BY <1>1, <1>2, <1>4, <2>1, PcrLinks
<1> QED
  BY <1>3, <1>4

(* A step that pushes nothing keeps them.                                  *)
LEMMA LinksUnchanged ==
  ASSUME LinksInv, UNCHANGED <<design, hbi_checkings, hbi_cntr, hbi_inferred>>
  PROVE  LinksInv'
<1>1. OneNode' = OneNode
  BY DEF OneNode, Instns, IsLocal, DownPool
<1> QED
  BY <1>1 DEF LinksInv

(* Every step of generate keeps the chains so.                             *)
LEMMA LinksInductive == ASSUME IInv, LinksInv, [Next]_vars PROVE LinksInv'
<1>1. IInv'
  BY Inductive
<1>2. hbi_cntr' \in Nat
  BY <1>1 DEF IInv, FilesInv
<1>3. ASSUME NEW w \in todo, Spatial(w[1], w[2]) PROVE LinksInv'
  BY <1>1, <1>3, SpatialLinks
<1>4. ASSUME NEW w \in todo, Interface(w[1], w[2], w[3]) PROVE LinksInv'
  <2>1. PICK m, a, b : m = w[1] /\ a = w[2] /\ b = w[3]
    OBVIOUS
  <2>2. /\ <<m, a, b>> \in todo /\ phase = "interface" /\ design' = design /\ hbi_inferred' = hbi_inferred
    BY <1>4, <2>1 DEF Interface
  <2>3. /\ m \in DOMAIN design.loc[i1] \cap DOMAIN design.loc[i2]
        /\ a \in design.loc[i1][m] /\ b \in design.loc[i2][m]
    BY <2>2, WorkItems DEF IInv, ControlInv
  <2>4. PICK o1 \in SetToSeqs(DownPool(i1, m, a)), o2 \in SetToSeqs(DownPool(i2, m, b)) :
          IF IsLocal(m) THEN LocalInterface(m, a, b, o2) ELSE SharedInterface(m, a, b, o1, o2)
    BY <1>4, <2>1 DEF Interface
  <2>5. CASE IsLocal(m)
    BY <2>2, <2>3, <2>4, <2>5, LocalLinks
  <2>6. CASE ~ IsLocal(m)
    BY <2>2, <2>3, <2>4, <2>6, SharedLinks
  <2> QED
    BY <2>5, <2>6
<1>5. ASSUME NEW w \in todo, InterfaceAbort(w[1], w[2], w[3]) PROVE LinksInv'
  <2>1. UNCHANGED <<design, hbi_checkings, hbi_cntr, hbi_inferred>>
    BY <1>5 DEF InterfaceAbort, output
  <2> QED
    BY <2>1, LinksUnchanged
<1>6. ASSUME NEW w \in todo, Pipeline(w[1], w[2], w[3]) PROVE LinksInv'
  <2>1. PICK t, n1, n2 : t = w[1] /\ n1 = w[2] /\ n2 = w[3]
    OBVIOUS
  <2>2. /\ <<t, n1, n2>> \in todo /\ phase = "pipeline" /\ design' = design /\ hbi_inferred' = hbi_inferred
        /\ UNCHANGED output \/ PcrCheck(t, "temporal", n1, n2)
    BY <1>6, <2>1 DEF Pipeline, TakeInStageOrder
  <2>3. t \in 1 .. Depth(i1, i2) /\ n1 \in design.uhb[i1][t] /\ n2 \in design.uhb[i2][t]
    BY <2>2, WorkItems DEF IInv, ControlInv
  <2>4. CASE UNCHANGED output
    BY <2>2, <2>4, LinksUnchanged DEF output
  <2>5. CASE PcrCheck(t, "temporal", n1, n2)
    BY <1>2, <2>2, <2>3, <2>5, PcrLinks
  <2> QED
    BY <2>2, <2>4, <2>5
<1>7. CASE EndSection
  BY <1>7, LinksUnchanged DEF EndSection, output
<1>8. CASE CallAgain
  <2>1. /\ hbi_checkings' = << >> /\ hbi_inferred' = hbi_inferred
    BY <1>8 DEF CallAgain
  <2>2. DOMAIN hbi_checkings' = {}
    BY <2>1, EmptySeq
  <2> QED
    BY <2>1, <2>2 DEF LinksInv, Adjacent, Triples
<1>9. CASE UNCHANGED vars
  BY <1>9, LinksUnchanged DEF vars, output
<1> QED
  BY <1>3, <1>4, <1>5, <1>6, <1>7, <1>8, <1>9 DEF Next

(* The initial states satisfy the invariant.                               *)
LEMMA LinksInitially == ASSUME Init PROVE LinksInv
<1>1. hbi_checkings = << >> /\ hbi_inferred = {}
  BY DEF Init
<1>2. DOMAIN hbi_checkings = {}
  BY <1>1, EmptySeq
<1> QED
  BY <1>1, <1>2 DEF LinksInv, Adjacent, Triples

-----------------------------------------------------------------------------
(* The invariant of the reader of verdicts, in the first execution.        *)

GoodLine(l) ==
  l = Parser!Blank \/ \E seq \in Nat, eol \in BOOLEAN : \E v : l = Parser!Line(seq, v, eol)

(* After its header the file has verdict lines and blank ones. *)
ResultsInv ==
  resfile = NoFile \/ /\ Len(resfile) \in Nat
                      /\ \A k \in 2 .. Len(resfile) : GoodLine(resfile[k])

(* Nothing is read before generate ends, binned before the file is opened, *)
(* or folded before it is read; a chain is open exactly where the last     *)
(* hypothesis folded names a next file.                                    *)
StageInv ==
  /\ phase # "done" => resfile = NoFile /\ stage = "wait"
  /\ stage \in {"wait", "lines", "fold", "parsed", "abort"}
  /\ stage \in {"lines", "fold", "parsed"} => resfile # NoFile
  /\ stage \in {"wait", "abort"} => line <= 1
  /\ line <= 1 => sva_result = << >>
  /\ stage = "lines" /\ line = 0 => resfile = << >>
  /\ stage \in {"wait", "lines", "abort"} => chk = 1 /\ \A p \in placed : p.itm.seq = -1
  /\ line \in Nat /\ chk \in 1 .. Len(hbi_checkings) + 1
  /\ track <=> chk > 1 /\ hbi_checkings[chk - 1].next >= 0

(* A proven verdict has been read from the file. *)
ReadInv == \A f \in DOMAIN sva_result : sva_result[f] = "proven" => Parser!Reported(f)

Proven(f) == Parser!Verdict(f) = "proven"

(* While the first and second hypothesis of a triple are the last ones     *)
(* folded, proven stands for both.                                         *)
FoldInv ==
  \A b, q : Triple(hbi_checkings, b, q) /\ stack_res = "proven" =>
    /\ chk = b + 1 => Proven(q)
    /\ chk = b + 2 => Proven(q) /\ Proven(q + 1)

(* A hypothesis binned as proven closes its chain, has been proven itself, *)
(* and so have the other two of its triple.                                *)
Binned(p, k) ==
  /\ p.itm = hbi_checkings[k] /\ hbi_checkings[k].next < 0
  /\ p.res = "proven" =>
       /\ Proven(p.itm.seq)
       /\ \A q : Triple(hbi_checkings, k - 2, q) => Proven(q) /\ Proven(q + 1)
PlacedInv ==
  \A p \in placed : p.itm.seq # -1 => \E k \in DOMAIN hbi_checkings : Binned(p, k)

ParserInv ==
  calls = 1 => ResultsInv /\ StageInv /\ ReadInv /\ FoldInv /\ PlacedInv

AllInv == IInv /\ LinksInv /\ ParserInv

(* The invariant contains the properties.                                  *)
LEMMA VerdictsJustified == ASSUME AllInv, calls = 1 PROVE VerdictMeansHypothesis
<1>1. /\ StageInv /\ ReadInv /\ PlacedInv
      /\ hbi_checkings \in Seq(CheckType) /\ \A c \in Hypotheses : Sound(c)
  BY DEF AllInv, ParserInv, IInv, FilesInv
<1>2. ASSUME NEW p \in placed, p.itm.seq # -1, p.res = "proven"
      PROVE  Parser!Reported(p.itm.seq) /\ Answers(p.itm, files[p.itm.seq])
  <2>1. PICK k \in DOMAIN hbi_checkings : Binned(p, k)
    BY <1>1, <1>2 DEF PlacedInv
  <2>2. p.itm \in Hypotheses /\ Proven(p.itm.seq)
    BY <1>2, <2>1 DEF Binned, Hypotheses, ToSet
  <2>3. p.itm.seq \in DOMAIN sva_result /\ sva_result[p.itm.seq] = "proven"
    BY <2>2 DEF Proven, Parser!Verdict
  <2>4. Parser!Reported(p.itm.seq)
    BY <1>1, <2>3 DEF ReadInv
  <2>5. Answers(p.itm, files[p.itm.seq])
    BY <1>1, <2>2 DEF Sound
  <2> QED
    BY <2>4, <2>5
<1> QED
  BY <1>2 DEF VerdictMeansHypothesis, Answers

(* Where every access of a shared memory is observed at one node, the      *)
(* chain of a hypothesis is its triple.                                    *)
LEMMA ChainsProven == ASSUME AllInv, calls = 1, OneNode PROVE ProvenOnlyIfChainProven
<1>1. /\ PlacedInv /\ hbi_checkings \in Seq(CheckType)
      /\ Triples(hbi_checkings, 0, hbi_cntr)
  BY DEF AllInv, ParserInv, LinksInv, IInv, FilesInv
<1>2. DOMAIN hbi_checkings = 1 .. Len(hbi_checkings) /\ Len(hbi_checkings) \in Nat
  BY <1>1, LenProperties
<1>3. ASSUME NEW p \in placed, p.itm.seq # -1, p.res = "proven",
             NEW f \in Parser!ChainFiles(p.itm)
      PROVE  Proven(f)
  <2>1. PICK k \in DOMAIN hbi_checkings : Binned(p, k)
    BY <1>1, <1>3 DEF PlacedInv
  <2>2. CASE f = p.itm.seq
    BY <1>3, <2>1, <2>2 DEF Binned
  <2>3. CASE f # p.itm.seq
    <3>1. p.itm.next # -1 /\ f \in p.itm.seq - 2 .. p.itm.seq
      BY <1>3, <2>3 DEF Parser!ChainFiles
    <3>2. hbi_checkings[k].next # -1 /\ hbi_checkings[k].next < 0
      BY <2>1, <3>1 DEF Binned
    <3>3. PICK q \in 0 .. hbi_cntr - 3, b \in {k - 2, k - 1, k} : Triple(hbi_checkings, b, q)
      BY <1>1, <3>2 DEF Triples
    <3>4. b = k - 2 /\ b + 2 = k
      BY <1>2, <3>2, <3>3 DEF Triple
    <3>5. p.itm.seq = q + 2
      BY <2>1, <3>3, <3>4 DEF Triple, Binned
    <3>6. Proven(q) /\ Proven(q + 1) /\ Proven(p.itm.seq)
      BY <1>3, <2>1, <3>3, <3>4 DEF Binned
    <3>7. f = q \/ f = q + 1 \/ f = q + 2
      BY <3>1, <3>3, <3>5
    <3> QED
      BY <3>5, <3>6, <3>7
  <2> QED
    BY <2>2, <2>3
<1> QED
  BY <1>3 DEF ProvenOnlyIfChainProven, Parser!ProvenOnlyIfChainProven, Proven

-----------------------------------------------------------------------------
(* The steps of the phase keep the invariant.                              *)

Unread ==
  /\ IInv /\ ResultsInv /\ stage = "wait" /\ (phase # "done" => resfile = NoFile)
  /\ line \in {0, 1} /\ sva_result = << >> /\ chk = 1 /\ ~ track /\ \A p \in placed : p.itm.seq = -1

(* Where nothing has been read, the invariant says what the file holds.    *)
LEMMA NothingRead == Unread => ParserInv
<1> SUFFICES ASSUME Unread PROVE ParserInv
  OBVIOUS
<1> USE DEF Unread
<1>1. /\ hbi_checkings \in Seq(CheckType) /\ DOMAIN hbi_checkings = 1 .. Len(hbi_checkings)
      /\ Len(hbi_checkings) \in Nat
  BY LenProperties DEF IInv, FilesInv
<1>2. StageInv
  BY <1>1 DEF StageInv
<1>3. DOMAIN sva_result = {}
  BY EmptySeq
<1>4. ReadInv
  BY <1>3 DEF ReadInv
<1>5. FoldInv
  BY <1>1 DEF FoldInv, Triple
<1>6. PlacedInv
  BY DEF PlacedInv
<1> QED
  BY <1>2, <1>4, <1>5, <1>6 DEF ParserInv

(* generate runs before the file is there: a step of it leaves the reader  *)
(* where it starts, and a second execution is beyond the invariant.        *)
LEMMA GenerateKeeps == ASSUME AllInv, IInv', Next, UNCHANGED parser PROVE ParserInv'
<1>1. UNCHANGED <<resfile, stage, line, sva_result, chk, track, stack_res, placed>>
  BY DEF parser
<1>2. CASE calls' # 1
  BY <1>2 DEF ParserInv
<1>3. CASE calls' = 1
  <2>1. calls = 1 /\ phase # "done"
    <3>1. CASE CallAgain
      <4>1. calls' = calls + 1 /\ calls \in 1 .. MaxCalls
        BY <3>1 DEF CallAgain, AllInv, IInv, ControlInv
      <4> QED
        BY <1>3, <4>1, DesignsAssumption
    <3>2. CASE EndSection
      BY <1>3, <3>2 DEF EndSection
    <3>3. CASE \E w \in todo : Spatial(w[1], w[2])
      BY <1>3, <3>3 DEF Spatial
    <3>4. CASE \E w \in todo : Interface(w[1], w[2], w[3])
      BY <1>3, <3>4 DEF Interface
    <3>5. CASE \E w \in todo : InterfaceAbort(w[1], w[2], w[3])
      BY <1>3, <3>5 DEF InterfaceAbort
    <3>6. CASE \E w \in todo : Pipeline(w[1], w[2], w[3])
      BY <1>3, <3>6 DEF Pipeline
    <3> QED
      BY <3>1, <3>2, <3>3, <3>4, <3>5, <3>6 DEF Next
  <2>2. /\ resfile = NoFile /\ stage = "wait" /\ line \in {0, 1} /\ sva_result = << >>
        /\ chk = 1 /\ ~ track /\ \A p \in placed : p.itm.seq = -1
    BY <2>1 DEF AllInv, ParserInv, StageInv
  <2>3. ResultsInv'
    BY <1>1, <2>2 DEF ResultsInv
  <2>4. Unread'
    BY <1>1, <2>2, <2>3 DEF Unread
  <2>5. (Unread => ParserInv)'
    BY NothingRead, PTL
  <2> QED
    BY <2>4, <2>5
<1> QED
  BY <1>2, <1>3

(* A function of 1 .. n is a sequence of length n.                         *)
LEMMA LengthOf == ASSUME NEW n \in Nat, NEW r, r = [k \in 1 .. n |-> r[k]] PROVE Len(r) = n
<1>1. PICK S : S = {r[k] : k \in 1 .. n}
  OBVIOUS
<1>2. r \in [1 .. n -> S]
  BY <1>1
<1> QED
  BY <1>2, SeqOfPositions

(* A line that lost its newline.                                           *)
LEMMA CutShort ==
  ASSUME NEW f, NEW v, NEW c, c = [Parser!Line(f, v, TRUE) EXCEPT !.eol = FALSE]
  PROVE  c = Parser!Line(f, v, FALSE)
BY DEF Parser!Line

(* The header, and then the lines.                                         *)
LEMMA HeaderAndLines ==
  ASSUME NEW h, NEW n \in Nat, NEW t, t = [k \in 1 .. n |-> t[k]], NEW w, w = <<h>> \o t
  PROVE  /\ \E S : w \in Seq(S)
         /\ Len(w) = n + 1 /\ DOMAIN w = 1 .. n + 1
         /\ \A k \in 2 .. n + 1 : w[k] = t[k - 1]
<1>1. PICK S : S = {h} \cup {t[k] : k \in 1 .. n}
  OBVIOUS
<1>2. t \in [1 .. n -> S]
  BY <1>1
<1>3. t \in Seq(S) /\ Len(t) = n
  BY <1>2, SeqOfPositions
<1>4. PICK s : s = <<h>>
  OBVIOUS
<1>5. s \in Seq(S) /\ Len(s) = 1
  BY <1>1, <1>4
<1>6. w = s \o t
  BY <1>4
<1>7. w \in Seq(S) /\ Len(w) = 1 + n /\ \A k \in 1 .. n : w[1 + k] = t[k]
  <2>1. w \in Seq(S) /\ Len(w) = Len(s) + Len(t) /\ \A k \in 1 .. Len(t) : w[Len(s) + k] = t[k]
    BY <1>3, <1>5, <1>6, ConcatProperties
  <2> QED
    BY ONLY <1>3, <1>5, <2>1
<1>8. Len(w) = n + 1 /\ DOMAIN w = 1 .. n + 1
  BY <1>7, LenProperties
<1>9. ASSUME NEW k \in 2 .. n + 1 PROVE w[k] = t[k - 1]
  <2>1. PICK j : j = k - 1
    OBVIOUS
  <2>2. j \in 1 .. n /\ 1 + j = k
    BY <2>1
  <2> QED
    BY <1>7, <2>1, <2>2
<1> QED
  BY <1>7, <1>8, <1>9

(* The checker writes verdict lines, the last of which may be cut short.   *)
LEMMA LinesWritten ==
  ASSUME hbi_cntr \in Nat, WriteResults
  PROVE  Len(resfile') \in Nat /\ \A k \in 2 .. Len(resfile') : GoodLine(resfile'[k])
<1>1. GoodLine(Parser!Blank)
  BY DEF GoodLine
<1>2. ASSUME NEW outcome, NEW f \in Nat
      PROVE  \E v : ResultLine(outcome, f) = Parser!Line(f, v, TRUE)
  BY DEF ResultLine
<1>3. ASSUME NEW f \in Nat, NEW l \in Torn(f) PROVE GoodLine(l)
  <2>1. f \div 10 \in Nat
    OBVIOUS
  <2>2. PICK n \in Nat : l = Parser!Line(n, "na", FALSE)
    BY <1>3, <2>1 DEF Torn
  <2> QED
    BY <2>2 DEF GoodLine
<1>4. CASE resfile' \in {<< >>, <<Parser!Header(FALSE)>>}
  <2>1. PICK h : h = Parser!Header(FALSE)
    OBVIOUS
  <2>2. resfile' = << >> \/ resfile' = <<h>>
    BY <1>4, <2>1
  <2>3. Len(resfile') = 0 \/ Len(resfile') = 1
    BY ONLY <2>2
  <2> QED
    BY ONLY <2>3
<1>5. ASSUME NEW outcome, NEW n \in 0 .. hbi_cntr, NEW whole,
             whole = <<Parser!Header(TRUE)>> \o [k \in 1 .. n |-> ResultLine(outcome, k - 1)],
             \/ resfile' = whole
             \/ resfile' = Append(whole, Parser!Blank)
             \/ n > 0 /\ resfile' = [whole EXCEPT ![n + 1].eol = FALSE]
             \/ n < hbi_cntr /\ \E last \in Torn(n) : resfile' = Append(whole, last)
      PROVE  Len(resfile') \in Nat /\ \A k \in 2 .. Len(resfile') : GoodLine(resfile'[k])
  <2>1. n \in Nat
    BY <1>5
  <2>2. PICK h, t, r : /\ h = Parser!Header(TRUE) /\ t = [k \in 1 .. n |-> ResultLine(outcome, k - 1)]
                       /\ r = resfile'
    OBVIOUS
  <2>3. t = [k \in 1 .. n |-> t[k]]
    BY <2>2
  <2>4. whole = <<h>> \o t
    BY <1>5, <2>2
  <2>5. PICK S : whole \in Seq(S)
    BY ONLY <2>1, <2>3, <2>4, HeaderAndLines
  <2>6. Len(whole) = n + 1 /\ DOMAIN whole = 1 .. n + 1 /\ \A k \in 2 .. n + 1 : whole[k] = t[k - 1]
    BY ONLY <2>1, <2>3, <2>4, HeaderAndLines
  <2>7. ASSUME NEW k \in 2 .. n + 1
        PROVE  \E v : whole[k] = Parser!Line(k - 2, v, TRUE)
    <3>1. PICK j : j = k - 1
      OBVIOUS
    <3>2. j \in 1 .. n /\ j - 1 \in Nat /\ j - 1 = k - 2 /\ whole[k] = t[j]
      BY <2>1, <2>6, <3>1
    <3>3. t[j] = ResultLine(outcome, j - 1)
      BY <2>2, <3>2
    <3> QED
      BY ONLY <1>2, <3>2, <3>3
  <2>8. ASSUME NEW k \in 2 .. n + 1 PROVE GoodLine(whole[k])
    <3>1. k - 2 \in Nat /\ TRUE \in BOOLEAN
      BY <2>1
    <3> QED
      BY ONLY <2>7, <2>8, <3>1 DEF GoodLine
  <2>9. ASSUME NEW last, GoodLine(last), r = Append(whole, last)
        PROVE  Len(r) \in Nat /\ \A k \in 2 .. Len(r) : GoodLine(r[k])
    <3>1. PICK T : T = S \cup {last}
      OBVIOUS
    <3>2. whole \in Seq(T) /\ last \in T
      <4>1. \A k \in 1 .. n + 1 : whole[k] \in T
        BY <2>1, <2>5, <2>6, <3>1, ElementOfSeq
      <4>2. whole = [k \in 1 .. n + 1 |-> whole[k]] /\ n + 1 \in Nat
        BY <2>1, <2>5, <2>6
      <4>3. whole \in [1 .. n + 1 -> T]
        BY <4>1, <4>2
      <4>4. PICK l : l = n + 1
        OBVIOUS
      <4>5. l \in Nat /\ whole \in [1 .. l -> T]
        BY ONLY <4>2, <4>3, <4>4
      <4> QED
        BY <3>1, <4>5, SeqOfPositions
    <3>3. Len(r) = n + 2 /\ r[n + 2] = last /\ \A k \in 1 .. n + 1 : r[k] = whole[k]
      <4>1. Len(r) = Len(whole) + 1 /\ r[Len(whole) + 1] = last /\ \A k \in 1 .. Len(whole) : r[k] = whole[k]
        BY ONLY <2>9, <3>2, AppendProperties
      <4> QED
        BY <2>1, <2>6, <4>1
    <3>4. ASSUME NEW k \in 2 .. n + 2 PROVE GoodLine(r[k])
      <4>1. CASE k = n + 2
        BY <2>9, <3>3, <4>1
      <4>2. CASE k # n + 2
        <5>1. k \in 2 .. n + 1 /\ k \in 1 .. n + 1
          BY <2>1, <4>2
        <5> QED
          BY <2>8, <3>3, <5>1
      <4> QED
        BY <4>1, <4>2
    <3> QED
      BY <2>1, <3>3, <3>4
  <2>10. ASSUME r = whole PROVE Len(r) \in Nat /\ \A k \in 2 .. Len(r) : GoodLine(r[k])
    BY <2>1, <2>6, <2>8, <2>10
  <2>11. ASSUME n < hbi_cntr /\ \E last \in Torn(n) : r = Append(whole, last)
         PROVE  Len(r) \in Nat /\ \A k \in 2 .. Len(r) : GoodLine(r[k])
    BY ONLY <1>3, <2>1, <2>9, <2>11
  <2>12. ASSUME n > 0, r = [whole EXCEPT ![n + 1].eol = FALSE]
         PROVE  Len(r) \in Nat /\ \A k \in 2 .. Len(r) : GoodLine(r[k])
    <3>1. PICK e, v : e = whole[n + 1] /\ e = Parser!Line(n - 1, v, TRUE)
      <4>1. n + 1 \in 2 .. n + 1 /\ (n + 1) - 2 = n - 1
        BY <2>1, <2>12
      <4>2. \E v : whole[n + 1] = Parser!Line((n + 1) - 2, v, TRUE)
        BY ONLY <2>7, <4>1
      <4> QED
        BY ONLY <4>1, <4>2
    <3>2. [e EXCEPT !.eol = FALSE] = Parser!Line(n - 1, v, FALSE)
      <4>1. PICK c : c = [e EXCEPT !.eol = FALSE]
        OBVIOUS
      <4>2. c = [Parser!Line(n - 1, v, TRUE) EXCEPT !.eol = FALSE]
        BY ONLY <3>1, <4>1
      <4>3. c = Parser!Line(n - 1, v, FALSE)
        BY ONLY <4>2, CutShort
      <4> QED
        BY ONLY <4>1, <4>3
    <3>3. r = [k \in 1 .. n + 1 |-> IF k = n + 1 THEN [e EXCEPT !.eol = FALSE] ELSE whole[k]]
      BY ONLY <2>6, <2>12, <3>1
    <3>4. Len(r) = n + 1
      <4>1. PICK l : l = n + 1
        OBVIOUS
      <4>2. l \in Nat /\ r = [k \in 1 .. l |-> r[k]]
        BY <2>1, <3>3, <4>1
      <4> QED
        BY ONLY <4>1, <4>2, LengthOf
    <3>5. ASSUME NEW k \in 2 .. n + 1 PROVE GoodLine(r[k])
      <4>1. k \in 1 .. n + 1
        BY <2>1
      <4>2. CASE k = n + 1
        <5>1. r[k] = Parser!Line(n - 1, v, FALSE) /\ n - 1 \in Nat /\ FALSE \in BOOLEAN
          <6>1. r[k] = [e EXCEPT !.eol = FALSE]
            BY ONLY <3>3, <4>1, <4>2
          <6>2. n - 1 \in Nat
            BY ONLY <2>1, <2>12
          <6> QED
            BY ONLY <3>2, <6>1, <6>2
        <5> QED
          BY ONLY <5>1 DEF GoodLine
      <4>3. CASE k # n + 1
        <5>1. r[k] = whole[k]
          BY ONLY <3>3, <4>1, <4>3
        <5> QED
          BY <2>8, <5>1
      <4> QED
        BY <4>2, <4>3
    <3> QED
      BY <2>1, <3>4, <3>5
  <2>13. Len(r) \in Nat /\ \A k \in 2 .. Len(r) : GoodLine(r[k])
    BY <1>1, <1>5, <2>2, <2>9, <2>10, <2>11, <2>12
  <2> QED
    BY <2>2, <2>13
<1> QED
  BY <1>4, <1>5 DEF WriteResults

(* Writing the results keeps the invariant.                                *)
LEMMA WriteKeeps == ASSUME AllInv, IInv', WriteResults PROVE ParserInv'
<1>1. /\ phase = "done" /\ resfile = NoFile
      /\ UNCHANGED <<phase, hbi_checkings, calls>>
      /\ UNCHANGED <<stage, line, sva_result, chk, track, stack_res, placed>>
  BY DEF WriteResults, vars, output
<1>2. hbi_cntr \in Nat
  BY DEF AllInv, IInv, FilesInv
<1>3. ResultsInv'
  BY <1>2, LinesWritten DEF ResultsInv, GoodLine
<1>4. ASSUME calls = 1 PROVE ParserInv'
  <2>1. StageInv /\ ReadInv /\ FoldInv /\ PlacedInv
    BY <1>4 DEF AllInv, ParserInv
  <2>2. stage \in {"wait", "abort"}
    BY <1>1, <2>1 DEF StageInv
  <2>3. DOMAIN sva_result = {}
    BY <2>1, <2>2, EmptySeq DEF StageInv
  <2>4. StageInv'
    BY <1>1, <2>1, <2>2 DEF StageInv
  <2>5. ReadInv'
    BY <1>1, <2>3 DEF ReadInv
  <2>6. FoldInv' /\ PlacedInv'
    BY <1>1, <2>1 DEF FoldInv, PlacedInv, Binned, Proven, Parser!Verdict
  <2> QED
    BY <1>3, <2>4, <2>5, <2>6 DEF ParserInv
<1> QED
  BY <1>1, <1>4 DEF ParserInv

(* A step of the reader leaves the hypotheses and the file alone.          *)
Reading ==
  /\ phase = "done" /\ UNCHANGED vars /\ UNCHANGED resfile

(* The file is opened: what was inferred is binned with any verdict.       *)
LEMMA OpenKeeps == ASSUME AllInv, calls = 1, Reading, Parser!Open PROVE ParserInv'
<1>1. /\ stage = "wait" /\ stage' = "lines" /\ resfile # NoFile /\ line' \in {0, 1}
      /\ line' = 0 => resfile = << >>
      /\ UNCHANGED <<sva_result, chk, track, stack_res, resfile, phase, hbi_checkings>>
  BY DEF Parser!Open, Reading, vars, output
<1>2. ResultsInv /\ StageInv /\ ReadInv /\ FoldInv /\ (\A c \in hbi_inferred : c.seq = -1)
  BY DEF AllInv, ParserInv, LinksInv
<1>3. PICK garbage : placed' = {[itm |-> c, res |-> garbage[c]] : c \in hbi_inferred}
  BY DEF Parser!Open
<1>4. \A p \in placed' : p.itm.seq = -1
  BY <1>2, <1>3
<1>5. sva_result = << >> /\ DOMAIN sva_result = {}
  BY <1>1, <1>2, EmptySeq DEF StageInv
<1>6. ResultsInv' /\ PlacedInv'
  BY <1>1, <1>2, <1>4 DEF ResultsInv, PlacedInv
<1>7. StageInv'
  BY <1>1, <1>2, <1>4, <1>5 DEF StageInv, Reading
<1>8. ReadInv'
  BY <1>1, <1>5 DEF ReadInv
<1>9. FoldInv'
  BY <1>1, <1>2 DEF FoldInv, Proven, Parser!Verdict
<1> QED
  BY <1>6, <1>7, <1>8, <1>9 DEF ParserInv

(* What has been reported stays so while more lines are read.              *)
LEMMA ReportedStays ==
  ASSUME NEW f, Parser!Reported(f), resfile' = resfile, line' \in Nat, line \in Nat, line' >= line
  PROVE  Parser!Reported(f)'
<1>1. PICK k \in 2 .. line, eol \in BOOLEAN : resfile[k] = Parser!Line(f, "proven", eol)
  BY DEF Parser!Reported
<1>2. k \in 2 .. line' /\ resfile'[k] = Parser!Line(f, "proven", eol)
  BY <1>1
<1> QED
  BY <1>2 DEF Parser!Reported, Parser!Line

(* A line is read: its verdict is the one now known of its file.           *)
LEMMA ReadLineKeeps == ASSUME AllInv, calls = 1, Reading, Parser!ReadLine PROVE ParserInv'
<1>1. /\ stage = "lines" /\ line < Len(resfile) /\ resfile[line + 1] # Parser!Blank
      /\ line' = line + 1
      /\ sva_result' = Put(sva_result, resfile[line + 1].seq, resfile[line + 1].verdict)
      /\ UNCHANGED <<resfile, stage, chk, track, stack_res, placed, phase, hbi_checkings>>
  BY DEF Parser!ReadLine, Parser!Put, Put, Reading, vars, output
<1>2. ResultsInv /\ StageInv /\ ReadInv /\ FoldInv /\ PlacedInv
  BY DEF AllInv, ParserInv
<1>3. line \in Nat /\ line' \in Nat /\ chk = 1 /\ \A p \in placed : p.itm.seq = -1
  BY <1>1, <1>2 DEF StageInv
<1>4. Len(resfile) \in Nat /\ \A k \in 2 .. Len(resfile) : GoodLine(resfile[k])
  BY <1>1, <1>2 DEF StageInv, ResultsInv
<1>5. line >= 1
  <2>1. CASE line = 0
    <3>1. resfile = << >>
      BY <1>1, <1>2, <2>1 DEF StageInv
    <3>2. Len(resfile) = 0
      BY ONLY <3>1
    <3> QED
      BY <1>1, <2>1, <3>2
  <2> QED
    BY <1>3, <2>1
<1>6. ResultsInv' /\ PlacedInv'
  BY <1>1, <1>2, <1>3 DEF ResultsInv, PlacedInv
<1>7. StageInv'
  BY <1>1, <1>2, <1>3, <1>5 DEF StageInv, Reading
<1>8. ReadInv'
  <2> SUFFICES ASSUME NEW f \in DOMAIN sva_result', sva_result'[f] = "proven"
               PROVE  Parser!Reported(f)'
    BY DEF ReadInv
  <2>1. CASE f = resfile[line + 1].seq
    <3>1. line + 1 \in 2 .. Len(resfile) /\ line + 1 \in 2 .. line'
      BY <1>1, <1>3, <1>4, <1>5
    <3>2. PICK seq \in Nat, eol \in BOOLEAN : \E v : resfile[line + 1] = Parser!Line(seq, v, eol)
      BY <1>1, <1>4, <3>1 DEF GoodLine
    <3>3. PICK v : resfile[line + 1] = Parser!Line(seq, v, eol)
      BY <3>2
    <3>4. f = seq /\ resfile[line + 1].verdict = v /\ sva_result'[f] = resfile[line + 1].verdict
      BY <1>1, <2>1, <3>3 DEF Put, Parser!Line
    <3>5. resfile'[line + 1] = Parser!Line(f, "proven", eol)
      BY <1>1, <3>3, <3>4
    <3>6. \E k \in 2 .. line', e \in BOOLEAN : resfile'[k] = Parser!Line(f, "proven", e)
      BY <3>1, <3>2, <3>5
    <3> QED
      BY <3>6 DEF Parser!Reported, Parser!Line
  <2>2. CASE f # resfile[line + 1].seq
    <3>1. f \in DOMAIN sva_result /\ sva_result[f] = "proven"
      BY <1>1, <2>2 DEF Put
    <3> QED
      BY <1>1, <1>2, <1>3, <3>1, ReportedStays DEF ReadInv
  <2> QED
    BY <2>1, <2>2
<1>9. FoldInv'
  <2>1. DOMAIN hbi_checkings = 1 .. Len(hbi_checkings)
    BY LenProperties DEF AllInv, IInv, FilesInv
  <2>2. \A b, q : Triple(hbi_checkings, b, q) => chk # b + 1 /\ chk # b + 2
    BY <1>3, <2>1 DEF Triple
  <2> QED
    BY <1>1, <2>2 DEF FoldInv
<1> QED
  BY <1>6, <1>7, <1>8, <1>9 DEF ParserInv

(* The loop over lines ends, the wait or the reading is given up, or all   *)
(* is binned: nothing else changes.                                        *)
LEMMA StageKeeps ==
  ASSUME AllInv, calls = 1, Reading, Parser!EndOfLines \/ Parser!Abort \/ Parser!Return
  PROVE  ParserInv'
<1>1. UNCHANGED <<resfile, line, sva_result, chk, track, stack_res, placed, phase, hbi_checkings>>
  BY DEF Parser!EndOfLines, Parser!Abort, Parser!Return, Reading, vars, output
<1>2. ResultsInv /\ StageInv /\ ReadInv /\ FoldInv /\ PlacedInv
  BY DEF AllInv, ParserInv
<1>3. \/ stage = "lines" /\ stage' = "fold"
      \/ stage = "wait" /\ stage' = "abort"
      \/ stage = "lines" /\ line = 1 /\ stage' = "abort"
      \/ stage = "fold" /\ stage' = "parsed"
  BY DEF Parser!EndOfLines, Parser!Abort, Parser!Return
<1>4. ResultsInv' /\ PlacedInv'
  BY <1>1, <1>2 DEF ResultsInv, PlacedInv, Binned, Proven, Parser!Verdict
<1>5. StageInv'
  BY <1>1, <1>2, <1>3 DEF StageInv, Reading
<1>6. ReadInv'
  BY <1>1, <1>2 DEF ReadInv, Parser!Reported
<1>7. FoldInv'
  BY <1>1, <1>2 DEF FoldInv, Proven, Parser!Verdict
<1> QED
  BY <1>4, <1>5, <1>6, <1>7 DEF ParserInv

(* One hypothesis is folded: the verdict of a chain is proven only as long *)
(* as the verdicts of all its hypotheses are.                              *)
LEMMA FoldKeeps == ASSUME AllInv, calls = 1, Reading, Parser!Fold PROVE ParserInv'
<1>1. PICK s, itm, t, seqs :
        /\ s = hbi_checkings /\ itm = s[chk] /\ t = Parser!Verdict(itm.seq) /\ seqs = Len(s)
  OBVIOUS
<1>2. /\ stage = "fold" /\ chk <= seqs /\ chk' = chk + 1
      /\ stack_res' = IF itm.next # -1 THEN Parser!Folded(t) ELSE stack_res
      /\ track' = (itm.next \notin {-1, -2} /\ (track \/ itm.next # -1))
      /\ placed' = IF itm.next \in {-1, -2}
                   THEN placed \cup {[itm |-> itm, res |-> IF track \/ itm.next # -1 THEN stack_res' ELSE t]}
                   ELSE placed
      /\ UNCHANGED <<resfile, stage, line, sva_result>>
  <2>1. stage = "fold" /\ chk <= seqs /\ chk' = chk + 1 /\ UNCHANGED <<resfile, stage, line, sva_result>>
    <3>1. stage = "fold" /\ chk <= seqs /\ chk' = chk + 1 /\ UNCHANGED <<stage, line, sva_result>>
      BY <1>1, Zenon DEF Parser!Fold
    <3> QED
      BY <3>1 DEF Reading
  <2>2. stack_res' = IF itm.next # -1 THEN Parser!Folded(t) ELSE stack_res
    BY <1>1 DEF Parser!Fold
  <2>3. track' = (itm.next \notin {-1, -2} /\ (track \/ itm.next # -1))
    BY <1>1, Zenon DEF Parser!Fold, Parser!Closes
  <2>4. placed' = IF itm.next \in {-1, -2}
                  THEN placed \cup {[itm |-> itm, res |-> IF track \/ itm.next # -1 THEN stack_res' ELSE t]}
                  ELSE placed
    BY <1>1, Zenon DEF Parser!Fold, Parser!Closes
  <2> QED
    BY ONLY <2>1, <2>2, <2>3, <2>4
<1>3. UNCHANGED <<phase, hbi_checkings>>
  BY DEF Reading, vars, output
<1>4. ResultsInv /\ StageInv /\ ReadInv /\ FoldInv /\ PlacedInv
  BY DEF AllInv, ParserInv
<1>5. s \in Seq(CheckType) /\ DOMAIN s = 1 .. seqs /\ seqs \in Nat /\ Adjacent(s)
  BY <1>1, LenProperties DEF AllInv, IInv, FilesInv, LinksInv
<1>6. chk \in 1 .. seqs
  BY <1>1, <1>2, <1>4 DEF StageInv
<1>7. itm.next \in Nat \cup {-1, -2}
  <2>1. itm \in CheckType
    BY <1>1, <1>5, <1>6, ElementOfSeq
  <2> QED
    BY <2>1 DEF CheckType
<1>8. track <=> chk > 1 /\ s[chk - 1].next >= 0
  BY <1>1, <1>4 DEF StageInv
<1>9. track' <=> itm.next >= 0
  <2>1. itm.next \notin {-1, -2} <=> itm.next >= 0
    BY <1>7
  <2>2. itm.next \notin {-1, -2} => itm.next # -1
    OBVIOUS
  <2> QED
    BY ONLY <1>2, <2>1, <2>2
<1>10. track => itm.next # -1
  <2> SUFFICES ASSUME track PROVE itm.next # -1
    OBVIOUS
  <2>1. chk > 1 /\ s[chk - 1].next >= 0
    BY ONLY <1>8, track, Zenon
  <2>2. chk - 1 \in 1 .. seqs /\ (chk - 1) + 1 = chk
    BY <1>1, <1>6, <2>1
  <2> QED
    BY <1>1, <1>5, <2>1, <2>2 DEF Adjacent
<1>11. ASSUME NEW f PROVE Proven(f)' <=> Proven(f)
  BY <1>2 DEF Proven, Parser!Verdict
<1>12. ASSUME stack_res' = "proven", itm.next # -1
       PROVE  Proven(itm.seq) /\ (track => stack_res = "proven")
  BY <1>1, <1>2, <1>12 DEF Parser!Folded, Proven
<1>13. ResultsInv' /\ ReadInv'
  BY <1>2, <1>4 DEF ResultsInv, ReadInv, Parser!Reported
<1>14. StageInv'
  <2>1. track' <=> chk' > 1 /\ hbi_checkings'[chk' - 1].next >= 0
    <3>1. chk' > 1 /\ chk' - 1 = chk
      BY <1>2, <1>6
    <3>2. hbi_checkings'[chk' - 1] = itm
      BY <1>1, <1>3, <3>1
    <3> QED
      BY <1>9, <3>1, <3>2
  <2>2. chk' \in 1 .. Len(hbi_checkings') + 1
    BY <1>1, <1>2, <1>3, <1>5, <1>6
  <2>3. /\ phase' # "done" => resfile' = NoFile /\ stage' = "wait"
        /\ stage' = "fold" /\ resfile' # NoFile /\ line' \in Nat
        /\ line' <= 1 => sva_result' = << >>
    BY <1>2, <1>3, <1>4 DEF StageInv, Reading
  <2> QED
    BY <2>1, <2>2, <2>3 DEF StageInv
<1>15. ASSUME NEW b, NEW q, Triple(s, b, q), stack_res' = "proven"
       PROVE  /\ chk' = b + 1 => Proven(q)
              /\ chk' = b + 2 => Proven(q) /\ Proven(q + 1)
  <2>1. /\ b \in DOMAIN s /\ b + 1 \in DOMAIN s /\ s[b].seq = q /\ s[b + 1].seq = q + 1
        /\ s[b].next = q + 1 /\ s[b + 1].next = q + 2 /\ q \in Int /\ q >= -1
    <3>1. /\ b \in DOMAIN s /\ b + 1 \in DOMAIN s /\ s[b].seq = q /\ s[b + 1].seq = q + 1
          /\ s[b].next = q + 1 /\ s[b + 1].next = q + 2
      BY <1>15 DEF Triple
    <3>2. s[b] \in CheckType
      BY <1>5, <3>1, ElementOfSeq
    <3>3. q \in Nat \cup {-1}
      BY <3>1, <3>2 DEF CheckType
    <3> QED
      BY <3>1, <3>3
  <2>2. CASE chk' = b + 1
    <3>1. chk = b /\ itm.seq = q /\ itm.next # -1
      BY <1>1, <1>2, <1>5, <1>6, <2>1, <2>2
    <3> QED
      BY <1>6, <1>12, <1>15, <2>1, <2>2, <3>1
  <2>3. CASE chk' = b + 2
    <3>1. chk = b + 1 /\ itm.seq = q + 1 /\ itm.next # -1 /\ chk - 1 = b
      BY <1>1, <1>2, <1>5, <1>6, <2>1, <2>3
    <3>2. track
      BY <1>5, <1>8, <2>1, <3>1
    <3>3. Proven(q + 1) /\ stack_res = "proven"
      BY <1>12, <1>15, <3>1, <3>2
    <3>4. Proven(q)
      BY <1>1, <1>4, <1>15, <3>1, <3>3 DEF FoldInv
    <3> QED
      BY <1>5, <2>1, <2>3, <3>3, <3>4
  <2> QED
    BY <2>2, <2>3
<1>16. FoldInv'
  <2>1. \A b, q : Triple(hbi_checkings', b, q) <=> Triple(s, b, q)
    BY <1>1, <1>3
  <2> QED
    BY <1>11, <1>15, <2>1 DEF FoldInv, Triple
<1>17. ASSUME NEW p \in placed', p.itm.seq # -1
       PROVE  \E k \in DOMAIN s : Binned(p, k)'
  <2>1. CASE p \in placed
    <3>1. PICK k \in DOMAIN s : Binned(p, k)
      BY <1>1, <1>4, <1>17, <2>1 DEF PlacedInv
    <3>2. Binned(p, k)'
      BY <1>3, <1>11, <3>1 DEF Binned, Triple
    <3> QED
      BY <3>2
  <2>2. CASE p \notin placed
    <3>1. /\ itm.next \in {-1, -2} /\ p.itm = itm
          /\ p.res = IF track \/ itm.next # -1 THEN stack_res' ELSE t
      BY <1>2, <1>17, <2>2
    <3>2. p.itm = s[chk] /\ s[chk].next < 0
      BY <1>1, <3>1
    <3>3. ASSUME p.res = "proven" PROVE Proven(p.itm.seq)
      BY <1>1, <1>10, <1>12, <3>1, <3>3 DEF Proven
    <3>4. ASSUME p.res = "proven", NEW q, Triple(s, chk - 2, q) PROVE Proven(q) /\ Proven(q + 1)
      <4>1. PICK b : b = chk - 2
        OBVIOUS
      <4>2. /\ b + 2 = chk /\ s[b + 2].next = -2 /\ b + 1 = chk - 1 /\ b + 1 \in DOMAIN s
            /\ s[b].seq = q /\ s[b + 1].next = q + 2 /\ b \in DOMAIN s
        BY <1>6, <3>4, <4>1 DEF Triple
      <4>3. q \in Nat \cup {-1}
        <5>1. s[b] \in CheckType
          BY <1>5, <4>2, ElementOfSeq
        <5> QED
          BY <4>2, <5>1 DEF CheckType
      <4>4. track
        BY <1>5, <1>8, <4>2, <4>3
      <4>5. stack_res' = "proven" /\ itm.next # -1
        BY <1>1, <3>1, <3>4, <4>2, <4>4
      <4>6. stack_res = "proven"
        BY <1>12, <4>4, <4>5
      <4> QED
        BY <1>1, <1>4, <3>4, <4>1, <4>2, <4>6 DEF FoldInv
    <3>5. PICK k : k = chk
      OBVIOUS
    <3>6. Binned(p, k)'
      BY <1>1, <1>3, <1>11, <3>2, <3>3, <3>4, <3>5 DEF Binned, Triple
    <3> QED
      BY <1>5, <1>6, <3>5, <3>6
  <2> QED
    BY <2>1, <2>2
<1>18. PlacedInv'
  BY <1>1, <1>3, <1>17 DEF PlacedInv
<1> QED
  BY <1>13, <1>14, <1>16, <1>18 DEF ParserInv

(* A step of the phase is one of generate or leaves it alone.              *)
LEMMA PhaseStep == ASSUME [AllNext]_allvars PROVE [Next]_vars
BY DEF AllNext, allvars, WriteResults

(* Every step keeps the invariant.                                         *)
LEMMA AllInductive == ASSUME AllInv, [AllNext]_allvars PROVE AllInv'
<1>1. IInv' /\ LinksInv'
  BY PhaseStep, Inductive, LinksInductive DEF AllInv
<1> SUFFICES ParserInv'
  BY <1>1 DEF AllInv
<1>2. CASE Next /\ UNCHANGED parser
  BY <1>1, <1>2, GenerateKeeps
<1>3. CASE WriteResults
  BY <1>1, <1>3, WriteKeeps
<1>4. CASE phase = "done" /\ Parser!Next /\ UNCHANGED vars
  <2>1. Reading
    <3>1. UNCHANGED resfile
      BY <1>4 DEF Parser!Next, Parser!Open, Parser!ReadLine, Parser!EndOfLines, Parser!Abort,
                  Parser!Fold, Parser!Return, Parser!input
    <3> QED
      BY <1>4, <3>1 DEF Reading
  <2>2. CASE calls = 1
    BY <1>4, <2>1, <2>2, OpenKeeps, ReadLineKeeps, StageKeeps, FoldKeeps DEF Parser!Next
  <2>3. CASE calls # 1
    BY <1>4, <2>3 DEF ParserInv, vars
  <2> QED
    BY <2>2, <2>3
<1>5. CASE UNCHANGED allvars
  <2>1. UNCHANGED <<calls, phase, hbi_checkings, resfile, stage, line, sva_result, chk, track, stack_res, placed>>
    BY <1>5 DEF allvars, vars, parser, output
  <2> QED
    BY <2>1 DEF AllInv, ParserInv, ResultsInv, StageInv, ReadInv, FoldInv, PlacedInv, Binned,
                Proven, Parser!Verdict, Parser!Reported
<1> QED
  BY <1>2, <1>3, <1>4, <1>5 DEF AllNext

(* The initial states satisfy the invariant.                               *)
LEMMA AllInitially == ASSUME AllInit PROVE AllInv
<1>1. IInv /\ LinksInv
  BY Initially, LinksInitially DEF AllInit
<1>2. Unread
  BY <1>1 DEF Unread, AllInit, Parser!InitLocals, ResultsInv
<1> QED
  BY <1>1, <1>2, NothingRead DEF AllInv

(* The invariant holds throughout.                                         *)
THEOREM PhaseInvariance == AllSpec => []AllInv
<1>1. AllInit => AllInv
  BY AllInitially
<1>2. AllInv /\ [AllNext]_allvars => AllInv'
  BY AllInductive
<1> QED
  BY <1>1, <1>2, PTL DEF AllSpec

(* In the first execution of a session, whatever the designs and however   *)
(* much of its results the checker has written when they are read: a       *)
(* hypothesis binned as proven names a file that asserts it, and that file *)
(* has a proven line.                                                      *)
THEOREM VerdictsCorrect == AllSpec => [](calls = 1 => VerdictMeansHypothesis)
<1>1. AllInv => (calls = 1 => VerdictMeansHypothesis)
  BY VerdictsJustified
<1> QED
  BY <1>1, PhaseInvariance, PTL

(* And if every access of a shared memory is observed at one node, an      *)
(* order is binned as proven only if every file of its chain was proven:   *)
(* several nodes are what breaks it.                                       *)
THEOREM ChainVerdictsCorrect == AllSpec => [](calls = 1 /\ OneNode => ProvenOnlyIfChainProven)
<1>1. AllInv => (calls = 1 /\ OneNode => ProvenOnlyIfChainProven)
  BY ChainsProven
<1> QED
  BY <1>1, PhaseInvariance, PTL
=============================================================================
