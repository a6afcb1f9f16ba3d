-------------------------- MODULE VerilogConeProofs --------------------------
(***************************************************************************)
(* The cone writer is right for every netlist and every sequence of texts  *)
(* asked for: what feeds the cells of a text has been printed when it ends *)
(* but for the drivers at the bottom of a root's stack, and a file lacks   *)
(* only those and what went to other files.                                *)
(***************************************************************************)
EXTENDS VerilogCone, SequenceTheorems, FiniteSetTheorems, TLAPS

-----------------------------------------------------------------------------
(* Facts about sequences.                                                  *)

(* A concatenation has the positions of both sequences, and their elements.*)
LEMMA ToSetConcat ==
  ASSUME NEW S, NEW s \in Seq(S), NEW t \in Seq(S)
  PROVE  /\ s \o t \in Seq(S) /\ Len(s \o t) = Len(s) + Len(t)
         /\ \A k \in 1 .. Len(s) : (s \o t)[k] = s[k]
         /\ \A k \in 1 .. Len(t) : (s \o t)[Len(s) + k] = t[k]
         /\ ToSet(s \o t) = ToSet(s) \cup ToSet(t)
<1>1. PICK u : u = s \o t
  OBVIOUS
<1>2. u \in Seq(S) /\ Len(u) = Len(s) + Len(t)
  BY <1>1, ConcatProperties
<1>3. /\ \A k \in 1 .. Len(s) : u[k] = s[k]
      /\ \A k \in 1 .. Len(t) : u[Len(s) + k] = t[k]
  BY <1>1, ConcatProperties
<1> DOMAIN s = 1 .. Len(s) /\ DOMAIN t = 1 .. Len(t) /\ DOMAIN u = 1 .. Len(u)
    /\ Len(s) \in Nat /\ Len(t) \in Nat
  BY <1>2, LenProperties
<1>4. \A k \in DOMAIN u : u[k] \in ToSet(s) \cup ToSet(t)
  <2> TAKE k \in DOMAIN u
  <2>1. CASE k <= Len(s)
    BY <1>2, <1>3, <2>1 DEF ToSet
  <2>2. CASE k > Len(s)
    <3>1. k - Len(s) \in 1 .. Len(t) /\ Len(s) + (k - Len(s)) = k
      BY <1>2, <2>2
    <3>2. u[k] = t[k - Len(s)]
      BY <1>3, <3>1
    <3> QED
      BY <3>1, <3>2 DEF ToSet
  <2> QED
    BY <1>2, <2>1, <2>2
<1>5. \A k \in DOMAIN s : k \in DOMAIN u /\ s[k] = u[k]
  BY <1>2, <1>3
<1>6. \A k \in DOMAIN t : Len(s) + k \in DOMAIN u /\ t[k] = u[Len(s) + k]
  BY <1>2, <1>3
<1>7. ToSet(u) = ToSet(s) \cup ToSet(t)
  BY ONLY <1>4, <1>5, <1>6 DEF ToSet
<1>8. ToSet(s \o t) = ToSet(u)
  BY <1>1
<1> QED
  BY ONLY <1>1, <1>2, <1>3, <1>7, <1>8

(* The elements of a sequence of one.                                      *)
LEMMA ToSetOne ==
  ASSUME NEW S, NEW e \in S
  PROVE  /\ <<e>> \in Seq(S) /\ Len(<<e>>) = 1 /\ <<e>>[1] = e
         /\ ToSet(<<e>>) = {e}
BY DEF ToSet

(* The elements of a sequence are in the set it is a sequence of.          *)
LEMMA ElementsIn == ASSUME NEW S, NEW s \in Seq(S) PROVE ToSet(s) \subseteq S
BY DEF ToSet

(* The elements below the top, and those above the bottom.                 *)
LEMMA FrontOf ==
  ASSUME NEW S, NEW s \in Seq(S), Len(s) > 0
  PROVE  /\ Front(s) \in Seq(S) /\ Len(Front(s)) = Len(s) - 1
         /\ \A k \in 1 .. Len(s) - 1 : Front(s)[k] = s[k]
         /\ Last(s) \in S /\ Last(s) \in ToSet(s) /\ ToSet(Front(s)) \subseteq ToSet(s)
<1>1. PICK u : u = Front(s)
  OBVIOUS
<1>2. u \in Seq(S) /\ Len(u) = Len(s) - 1 /\ \A k \in 1 .. Len(s) - 1 : u[k] = s[k]
  <2>1. PICK m : m = Len(s) - 1
    OBVIOUS
  <2>2. m \in Nat /\ \A i \in 1 .. m : s[i] \in S
    BY <2>1, LenProperties
  <2>3. u = SubSeq(s, 1, m)
    BY <1>1, <2>1 DEF Front
  <2>4. /\ SubSeq(s, 1, m) \in Seq(S) /\ Len(SubSeq(s, 1, m)) = m
        /\ \A i \in 1 .. m : SubSeq(s, 1, m)[i] = s[i]
    BY <2>2, SubSeqProperties
  <2> QED
    BY <2>1, <2>3, <2>4
<1>3. DOMAIN u = 1 .. Len(u) /\ DOMAIN s = 1 .. Len(s) /\ Len(s) \in Nat
  BY <1>2, LenProperties
<1>4. Last(s) \in S /\ Last(s) \in ToSet(s)
  BY <1>3 DEF Last, ToSet
<1>5. ToSet(u) \subseteq ToSet(s)
  BY <1>2, <1>3 DEF ToSet
<1> QED
  BY <1>1, <1>2, <1>4, <1>5

(* The rest of a sequence.                                                 *)
LEMMA TailOf ==
  ASSUME NEW S, NEW s \in Seq(S), s # << >>
  PROVE  /\ Tail(s) \in Seq(S) /\ Len(Tail(s)) = Len(s) - 1
         /\ Head(s) \in S /\ ToSet(s) = {Head(s)} \cup ToSet(Tail(s))
<1>1. PICK u : u = Tail(s)
  OBVIOUS
<1>2. /\ u \in Seq(S) /\ Len(u) = Len(s) - 1 /\ Len(s) \in Nat \ {0}
      /\ \A k \in 1 .. Len(s) - 1 : u[k] = s[k + 1]
  BY <1>1, HeadTailProperties, LenProperties, EmptySeq
<1>3. DOMAIN u = 1 .. Len(u) /\ DOMAIN s = 1 .. Len(s)
  BY <1>2, LenProperties
<1>4. Head(s) = s[1] /\ 1 \in DOMAIN s /\ Head(s) \in S
  BY <1>2, <1>3
<1>5. \A k \in DOMAIN s : s[k] \in {s[1]} \cup ToSet(u)
  <2> TAKE k \in DOMAIN s
  <2>1. CASE k = 1
    BY <2>1
  <2>2. CASE k # 1
    <3>1. k - 1 \in DOMAIN u /\ u[k - 1] = s[k]
      BY <1>2, <1>3, <2>2
    <3> QED
      BY <3>1 DEF ToSet
  <2> QED
    BY <2>1, <2>2
<1>6. \A k \in DOMAIN u : k + 1 \in DOMAIN s /\ u[k] = s[k + 1]
  BY <1>2, <1>3
<1>7. ToSet(u) \subseteq ToSet(s)
  BY <1>6 DEF ToSet
<1>8. ToSet(s) = {s[1]} \cup ToSet(u)
  BY <1>4, <1>5, <1>7 DEF ToSet
<1> QED
  BY <1>1, <1>2, <1>4, <1>8

(* A finite set as a sequence without repetition.                          *)
LEMMA SetAsSeq ==
  ASSUME NEW S, IsFiniteSet(S)
  PROVE  /\ SetToSeq(S) \in Seq(S) /\ ToSet(SetToSeq(S)) = S
         /\ IsInjective(SetToSeq(S))
<1> DEFINE n == Cardinality(S)
<1>1. n \in Nat /\ ExistsBijection(1 .. n, S)
  BY FS_CardinalityType
<1>2. PICK f : f \in Bijection(1 .. n, S)
  BY <1>1 DEF ExistsBijection
<1>3. f \in [1 .. n -> S] /\ IsInjective(f)
  BY <1>2 DEF Bijection, Injection, IsInjective
<1>4. SetToSeq(S) \in [1 .. n -> S] /\ IsInjective(SetToSeq(S))
  BY <1>3 DEF SetToSeq
<1>5. PICK g : g = SetToSeq(S)
  OBVIOUS
<1>6. g \in Injection(1 .. n, S)
  BY <1>4, <1>5 DEF Injection, IsInjective
<1>7. IsFiniteSet(1 .. n) /\ Cardinality(1 .. n) = n
  BY <1>1, FS_Interval
<1>8. g \in Surjection(1 .. n, S)
  BY <1>6, <1>7, FS_Injection
<1>9. ToSet(g) = S
  BY <1>8 DEF Surjection, ToSet
<1>10. g \in Seq(S)
  BY <1>1, <1>4, <1>5, IsASeq
<1> QED
  BY <1>4, <1>5, <1>9, <1>10

(* A sequence has finitely many elements.                                  *)
LEMMA SeqFinite ==
  ASSUME NEW S, NEW s \in Seq(S)
  PROVE  IsFiniteSet(ToSet(s)) /\ IsFiniteSet(DOMAIN s) /\ DOMAIN s \subseteq Nat
<1>1. DOMAIN s = 1 .. Len(s) /\ Len(s) \in Nat /\ IsFiniteSet(1 .. Len(s))
  BY LenProperties, FS_Interval
<1>2. s \in Surjection(1 .. Len(s), ToSet(s))
  BY <1>1 DEF Surjection, ToSet
<1> QED
  BY <1>1, <1>2, FS_Surjection

(* A sequence without elements is empty.                                   *)
LEMMA NoElements == ASSUME NEW S, NEW s \in Seq(S), ToSet(s) = {} PROVE s = << >>
<1>1. DOMAIN s = 1 .. Len(s) /\ Len(s) \in Nat
  BY LenProperties
<1>2. DOMAIN s = {}
  BY DEF ToSet
<1>3. Len(s) = 0
  BY <1>1, <1>2
<1> QED
  BY <1>3, EmptySeq

-----------------------------------------------------------------------------
(* What DumpCellExpr pushes.                                               *)

(* Ordering slots by wire, then by driver, numbers them from one.          *)
LEMMA Ranks ==
  ASSUME NEW S \in SUBSET (Nat \X Nat), IsFiniteSet(S)
  PROVE  /\ Cardinality(S) \in Nat
         /\ \A s \in S : Cardinality(Earlier(S, s)) \in 0 .. Cardinality(S) - 1
         /\ \A s, t \in S : Cardinality(Earlier(S, s)) = Cardinality(Earlier(S, t)) => s = t
         /\ \A n \in 1 .. Cardinality(S) : \E s \in S : Cardinality(Earlier(S, s)) = n - 1
         /\ \A s \in S : Earlier(S, s) # {} => Cardinality(Earlier(S, s)) > 0
<1> DEFINE N == Cardinality(S)
           rank(s) == Cardinality(Earlier(S, s))
<1>1. N \in Nat
  BY FS_CardinalityType
<1>2. \A s \in S : Earlier(S, s) \in SUBSET S /\ s \notin Earlier(S, s)
  BY DEF Earlier
<1>3. \A s \in S : IsFiniteSet(Earlier(S, s)) /\ rank(s) \in Nat /\ rank(s) <= N - 1
  <2> TAKE s \in S
  <2>1. IsFiniteSet(S \ {s}) /\ Cardinality(S \ {s}) = N - 1
    BY FS_RemoveElement
  <2>2. Earlier(S, s) \in SUBSET (S \ {s})
    BY <1>2
  <2> QED
    BY <2>1, <2>2, FS_Subset, FS_CardinalityType
<1>4. \A s, t \in S : s \in Earlier(S, t) => rank(s) < rank(t)
  <2> TAKE s, t \in S
  <2> HAVE s \in Earlier(S, t)
  <2>1. Earlier(S, s) \in SUBSET Earlier(S, t)
    BY DEF Earlier
  <2>2. Earlier(S, s) # Earlier(S, t)
    BY <1>2
  <2>3. rank(s) <= rank(t) /\ rank(s) # rank(t)
    BY <1>3, <2>1, <2>2, FS_Subset
  <2> QED
    BY <1>3, <2>3
<1>5. \A s, t \in S : s # t => s \in Earlier(S, t) \/ t \in Earlier(S, s)
  BY DEF Earlier
<1>6. \A s, t \in S : rank(s) = rank(t) => s = t
  BY <1>3, <1>4, <1>5
<1>7. \A n \in 1 .. N : \E s \in S : rank(s) = n - 1
  <2>1. IsFiniteSet(0 .. N - 1) /\ Cardinality(0 .. N - 1) = N
    <3>1. PICK m : m = N
      OBVIOUS
    <3>2. m \in Nat /\ m - 1 \in Int /\ 0 \in Int
      BY <1>1, <3>1
    <3>3. IsFiniteSet(0 .. m - 1) /\ Cardinality(0 .. m - 1) = m
      BY ONLY <3>2, FS_Interval
    <3> QED
      BY <3>1, <3>3
  <2> DEFINE r == [s \in S |-> rank(s)]
  <2>2. r \in Injection(S, 0 .. N - 1)
    <3>1. r \in [S -> 0 .. N - 1] /\ DOMAIN r = S /\ \A s \in S : r[s] = rank(s)
      BY <1>1, <1>3
    <3>2. \A s, t \in DOMAIN r : r[s] = r[t] => s = t
      BY ONLY <1>6, <3>1
    <3> HIDE DEF r
    <3> QED
      BY ONLY <3>1, <3>2 DEF Injection, IsInjective
  <2>3. PICK g : g = r
    OBVIOUS
  <2>4. g \in Surjection(S, 0 .. N - 1)
    BY <2>2, <2>1, <2>3, FS_Injection
  <2> TAKE n \in 1 .. N
  <2>5. n - 1 \in 0 .. N - 1
    BY <1>1
  <2>6. PICK s \in S : g[s] = n - 1
    BY <2>4, <2>5 DEF Surjection
  <2> QED
    BY <2>3, <2>6
<1>8. \A s \in S : Earlier(S, s) # {} => rank(s) > 0
  BY <1>3, FS_EmptySet
<1> QED
  BY <1>1, <1>3, <1>6, <1>7, <1>8

(* The cells in slots, and what lies above the bottom of a stack.          *)
In(c, S) == {Driver(c, s) : s \in S}
Above(q) == {q[n] : n \in 2 .. Len(q)}

(* The drivers in the slots, in this order: all of them, and nothing else. *)
(* One with an earlier slot is not the first.                              *)
LEMMA InOrderOf ==
  ASSUME NEW C, NEW c, NEW S \in SUBSET (Nat \X Nat), IsFiniteSet(S),
         \A s \in S : Driver(c, s) \in C
  PROVE  /\ InOrder(c, S) \in Seq(C)
         /\ ToSet(InOrder(c, S)) = In(c, S)
         /\ \A s \in S : Earlier(S, s) # {} => Driver(c, s) \in Above(InOrder(c, S))
<1> DEFINE N == Cardinality(S)
           at(n) == CHOOSE s \in S : Cardinality(Earlier(S, s)) = n - 1
<1>1. N \in Nat /\ \A n \in 1 .. N : at(n) \in S /\ Cardinality(Earlier(S, at(n))) = n - 1
  BY Ranks
<1>2. \A s \in S : /\ Cardinality(Earlier(S, s)) + 1 \in 1 .. N
                   /\ at(Cardinality(Earlier(S, s)) + 1) = s
  <2> TAKE s \in S
  <2>1. PICK n : n = Cardinality(Earlier(S, s)) + 1
    OBVIOUS
  <2>2. n \in 1 .. N /\ n - 1 = Cardinality(Earlier(S, s))
    BY <1>1, <2>1, Ranks
  <2>3. at(n) \in S /\ Cardinality(Earlier(S, at(n))) = Cardinality(Earlier(S, s))
    BY <1>1, <2>2
  <2>4. at(n) = s
    BY <2>3, Ranks
  <2> QED
    BY <2>1, <2>2, <2>4
<1>3. \A s \in S : Earlier(S, s) # {} => Cardinality(Earlier(S, s)) + 1 >= 2
  BY <1>2, Ranks
<1> HIDE DEF at
<1> DEFINE q == [n \in 1 .. N |-> Driver(c, at(n))]
<1>4. InOrder(c, S) = q
  BY DEF InOrder, at
<1>5. q \in Seq(C) /\ Len(q) = N
  BY <1>1, IsASeq, LenProperties
<1>6. DOMAIN q = 1 .. N /\ \A n \in 1 .. N : at(n) \in S /\ q[n] = Driver(c, at(n))
  BY <1>1
<1>7. \A s \in S : \E n \in 1 .. N : q[n] = Driver(c, s)
  BY <1>2
<1> HIDE DEF q
<1>8. ToSet(q) = In(c, S)
  BY ONLY <1>6, <1>7 DEF ToSet, In
<1>9. \A s \in S : Earlier(S, s) # {} => Driver(c, s) \in Above(q)
  <2> TAKE s \in S
  <2> HAVE Earlier(S, s) # {}
  <2>1. PICK n : n = Cardinality(Earlier(S, s)) + 1
    OBVIOUS
  <2>2. n \in 2 .. N /\ at(n) = s
    BY <1>1, <1>2, <1>3, <2>1
  <2>3. q[n] = Driver(c, s) /\ n \in 2 .. Len(q)
    BY <1>1, <1>5, <1>6, <2>2
  <2> QED
    BY <2>3 DEF Above
<1> QED
  BY <1>4, <1>5, <1>8, <1>9

(* What the netlist at hand is: the wires of its cells, their drivers, and *)
(* the signals asked for.                                                  *)
Sig(k) == net.asked[k].sig
For(k) == net.asked[k].files

(* NetlistsAssumption, for the netlist of a behaviour.                     *)
LEMMA NetOf ==
  ASSUME net \in Netlists
  PROVE  /\ \A c \in Cells : net.ports[c] \in Seq(WiresOf(c))
         /\ \A w : Drivers(w) \in Seq(Cells)
         /\ Len(net.asked) \in Nat \ {0} /\ Calls = 1 .. Len(net.asked)
         /\ \A k \in Calls : Sig(k) \in net.auto /\ Sig(k) \in DOMAIN net.drivers
<1>1. \A c \in Cells : net.ports[c] \in Seq(WiresOf(c))
  BY NetlistsAssumption DEF Cells, WiresOf
<1>2. \A w : Drivers(w) \in Seq(Cells)
  <2> TAKE w
  <2>1. CASE w \in DOMAIN net.drivers
    BY <2>1, NetlistsAssumption DEF Drivers, Cells
  <2>2. CASE w \notin DOMAIN net.drivers
    BY <2>2 DEF Drivers
  <2> QED
    BY <2>1, <2>2
<1> DEFINE T == [sig : net.auto \cap DOMAIN net.drivers, files : SUBSET STRING]
<1>3. net.asked # << >> /\ net.asked \in Seq(T)
  BY NetlistsAssumption
<1> HIDE DEF T
<1>4. Len(net.asked) \in Nat \ {0} /\ DOMAIN net.asked = 1 .. Len(net.asked) /\ Calls = DOMAIN net.asked
  BY <1>3, LenProperties, EmptySeq DEF Calls
<1>5. \A k \in Calls : net.asked[k] \in T
  BY <1>3, <1>4
<1>6. \A k \in Calls : Sig(k) \in net.auto /\ Sig(k) \in DOMAIN net.drivers
  BY <1>5 DEF T, Sig
<1> QED
  BY <1>1, <1>2, <1>4, <1>6 DEF Drivers

(* A slot is a driver of a wire, by its position, that is not printed yet. *)
LEMMA SlotsOf ==
  ASSUME net \in Netlists, NEW c \in Cells
  PROVE  /\ Slots(c) \in SUBSET (Nat \X Nat) /\ IsFiniteSet(Slots(c))
         /\ \A s \in Slots(c) :
              /\ s[1] \in DOMAIN net.ports[c] /\ net.ports[c][s[1]] \in net.auto
              /\ Driver(c, s) \in ToSet(Drivers(net.ports[c][s[1]]))
              /\ Driver(c, s) \in Cells \ fin_cell
         /\ \A i \in DOMAIN net.ports[c] :
              net.ports[c][i] \in net.auto =>
                \A d \in ToSet(Drivers(net.ports[c][i])) \ fin_cell :
                  \E s \in Slots(c) : s[1] = i /\ Driver(c, s) = d
<1> DEFINE P == net.ports[c]
           D(i) == DOMAIN Drivers(P[i])
           F == [i \in DOMAIN P |-> {i} \X D(i)]
           All == UNION {F[i] : i \in DOMAIN P}
<1>1. P \in Seq(WiresOf(c)) /\ \A w : Drivers(w) \in Seq(Cells)
  BY NetOf
<1>2. DOMAIN P \subseteq Nat /\ IsFiniteSet(DOMAIN P)
  BY <1>1, SeqFinite
<1>3. \A i \in DOMAIN P : D(i) \subseteq Nat /\ IsFiniteSet(D(i))
  <2> TAKE i \in DOMAIN P
  <2>1. PICK q : q = Drivers(P[i])
    OBVIOUS
  <2>2. q \in Seq(Cells)
    BY <1>1, <2>1
  <2>3. DOMAIN q \subseteq Nat /\ IsFiniteSet(DOMAIN q)
    BY <2>2, SeqFinite
  <2> QED
    BY <2>1, <2>3
<1> HIDE DEF D
<1>4. \A s \in All : s[1] \in DOMAIN P /\ s[2] \in D(s[1]) /\ s = <<s[1], s[2]>>
  <2> TAKE s \in All
  <2>1. PICK i \in DOMAIN P : s \in {i} \X D(i)
    OBVIOUS
  <2>2. PICK j \in D(i) : s = <<i, j>>
    BY <2>1
  <2> QED
    BY <2>2
<1>5. All \in SUBSET (Nat \X Nat)
  <2> SUFFICES ASSUME NEW s \in All PROVE s \in Nat \X Nat
    OBVIOUS
  <2>1. s = <<s[1], s[2]>> /\ s[1] \in Nat /\ s[2] \in Nat
    BY <1>2, <1>3, <1>4
  <2> HIDE DEF All
  <2> QED
    BY <2>1
<1>6. IsFiniteSet(All)
  <2> DEFINE R == {F[i] : i \in DOMAIN P}
  <2>1. \A i \in DOMAIN P : IsFiniteSet({i} \X D(i))
    <3> TAKE i \in DOMAIN P
    <3>1. PICK A, B : A = {i} /\ B = D(i)
      OBVIOUS
    <3>2. IsFiniteSet(A) /\ IsFiniteSet(B)
      BY <1>3, <3>1, FS_Singleton
    <3>3. IsFiniteSet(A \X B)
      BY <3>2, FS_Product
    <3> QED
      BY <3>1, <3>3
  <2>2. PICK f : f = F
    OBVIOUS
  <2>3. f \in Surjection(DOMAIN P, R)
    BY <2>2 DEF Surjection
  <2>4. IsFiniteSet(R)
    BY <1>2, <2>3, FS_Surjection
  <2>5. \A X \in R : IsFiniteSet(X)
    BY <2>1
  <2> HIDE DEF R
  <2>6. IsFiniteSet(UNION R)
    BY <2>4, <2>5, FS_UNION
  <2> QED
    BY <2>6 DEF R
<1>7. Slots(c) = {s \in All : P[s[1]] \in net.auto /\ Driver(c, s) \notin fin_cell}
  BY DEF Slots, D
<1>8. Slots(c) \in SUBSET All
  BY <1>7
<1>9. Slots(c) \in SUBSET (Nat \X Nat) /\ IsFiniteSet(Slots(c))
  BY <1>5, <1>6, <1>8, FS_Subset
<1>10. \A i \in DOMAIN P : \A j \in D(i) :
         /\ <<i, j>> \in All /\ Driver(c, <<i, j>>) = Drivers(P[i])[j]
         /\ Drivers(P[i])[j] \in ToSet(Drivers(P[i])) /\ Drivers(P[i])[j] \in Cells
  <2> TAKE i \in DOMAIN P
  <2> TAKE j \in D(i)
  <2>1. PICK w, q : w = P[i] /\ q = Drivers(w)
    OBVIOUS
  <2>2. j \in DOMAIN q /\ q \in Seq(Cells)
    BY <1>1, <2>1 DEF D
  <2>3. q = net.drivers[w]
    BY <2>1, <2>2 DEF Drivers
  <2>4. <<i, j>> \in All
    BY DEF D
  <2>5. Driver(c, <<i, j>>) = q[j]
    BY <2>1, <2>3 DEF Driver
  <2>6. q[j] \in ToSet(q) /\ q[j] \in Cells
    BY <2>2, ElementsIn DEF ToSet
  <2> QED
    BY <2>1, <2>4, <2>5, <2>6
<1>11. \A s \in Slots(c) :
         /\ s[1] \in DOMAIN P /\ P[s[1]] \in net.auto
         /\ Driver(c, s) \in ToSet(Drivers(P[s[1]]))
         /\ Driver(c, s) \in Cells \ fin_cell
  <2> TAKE s \in Slots(c)
  <2>1. PICK i, j : i = s[1] /\ j = s[2]
    OBVIOUS
  <2>2. i \in DOMAIN P /\ j \in D(i) /\ s = <<i, j>> /\ P[i] \in net.auto /\ Driver(c, s) \notin fin_cell
    BY <1>4, <1>7, <2>1
  <2>3. Driver(c, s) \in ToSet(Drivers(P[i])) /\ Driver(c, s) \in Cells
    BY <1>10, <2>2
  <2> QED
    BY <2>1, <2>2, <2>3
<1>12. \A i \in DOMAIN P : P[i] \in net.auto =>
         \A d \in ToSet(Drivers(P[i])) \ fin_cell : \E s \in Slots(c) : s[1] = i /\ Driver(c, s) = d
  <2> TAKE i \in DOMAIN P
  <2> HAVE P[i] \in net.auto
  <2> TAKE d \in ToSet(Drivers(P[i])) \ fin_cell
  <2>1. PICK j \in D(i) : d = Drivers(P[i])[j]
    BY DEF D, ToSet
  <2>2. PICK s : s = <<i, j>>
    OBVIOUS
  <2>3. s \in All /\ Driver(c, s) = d /\ s[1] = i
    BY <1>10, <2>1, <2>2
  <2>4. s \in Slots(c)
    BY <1>7, <2>3
  <2> QED
    BY <2>3, <2>4
<1> QED
  BY <1>9, <1>11, <1>12

(* All drivers of the auto wires that c names and that are not printed yet *)
(* are pushed.                                                             *)
LEMMA PushedOf ==
  ASSUME net \in Netlists, NEW c \in Cells
  PROVE  /\ Pushed(c) \in Seq(Cells)
         /\ ToSet(Pushed(c)) = DriversOf(WiresOf(c) \cap net.auto) \ fin_cell
<1> DEFINE P == net.ports[c]
           S == Slots(c)
           T == {Driver(c, s) : s \in S}
<1>1. S \in SUBSET (Nat \X Nat) /\ IsFiniteSet(S) /\ \A s \in S : Driver(c, s) \in Cells
  BY SlotsOf
<1> HIDE DEF S
<1>2. InOrder(c, S) \in Seq(Cells) /\ ToSet(InOrder(c, S)) = In(c, S)
  BY ONLY <1>1, InOrderOf
<1> USE DEF S
<1>3. Pushed(c) \in Seq(Cells) /\ ToSet(Pushed(c)) = T
  BY <1>2 DEF Pushed, In
<1>4. T \subseteq DriversOf(WiresOf(c) \cap net.auto) \ fin_cell
  <2> SUFFICES ASSUME NEW s \in S
               PROVE  Driver(c, s) \in DriversOf(WiresOf(c) \cap net.auto) \ fin_cell
    OBVIOUS
  <2>1. PICK w : w = P[s[1]]
    OBVIOUS
  <2>2. w \in WiresOf(c) \cap net.auto /\ Driver(c, s) \in ToSet(Drivers(w)) /\ Driver(c, s) \notin fin_cell
    BY <2>1, SlotsOf DEF WiresOf, ToSet
  <2> QED
    BY <2>2 DEF DriversOf
<1>5. DriversOf(WiresOf(c) \cap net.auto) \ fin_cell \subseteq T
  <2> SUFFICES ASSUME NEW w \in WiresOf(c) \cap net.auto, NEW d \in ToSet(Drivers(w)) \ fin_cell
               PROVE  d \in T
    BY DEF DriversOf
  <2>1. PICK i \in DOMAIN P : w = P[i]
    BY DEF WiresOf, ToSet
  <2>2. \E s \in S : Driver(c, s) = d
    BY <2>1, SlotsOf
  <2> QED
    BY <2>2
<1> QED
  BY <1>3, <1>4, <1>5

(* The drivers of inputs are above the bottom, except one that the cell may*)
(* lose: whatever else is pushed has a slot after the first one, and a cell*)
(* that is not printed yet has a slot at each auto wire of its own.        *)
LEMMA PushedAbove ==
  ASSUME net \in Netlists, NEW c \in Cells \ fin_cell,
         NEW d \in DriversOf(Inputs(c) \cap net.auto) \ fin_cell, d \notin Above(Pushed(c))
  PROVE  d \in MayLose(c)
<1> DEFINE P == net.ports[c]
           S == Slots(c)
<1>1. DOMAIN P = 1 .. Len(P) /\ Len(P) \in Nat
  BY NetOf, LenProperties
<1>2. PICK w \in Inputs(c) \cap net.auto : d \in ToSet(Drivers(w))
  BY DEF DriversOf
<1>3. PICK i \in DOMAIN P \ net.outs[c] : w = P[i]
  BY <1>2 DEF Inputs
<1>4. PICK s \in S : s[1] = i /\ Driver(c, s) = d
  BY <1>2, <1>3, SlotsOf
<1>5. S \in SUBSET (Nat \X Nat) /\ IsFiniteSet(S) /\ \A x \in S : Driver(c, x) \in Cells
  BY SlotsOf
<1> HIDE DEF S
<1>6. \A x \in S : Earlier(S, x) # {} => Driver(c, x) \in Above(InOrder(c, S))
  BY ONLY <1>5, InOrderOf
<1>7. \A x \in S : Driver(c, x) = d => Earlier(S, x) = {}
  BY <1>6 DEF Pushed, S
<1>8. \A x \in S : ~ (x[1] < s[1])
  BY <1>4, <1>7 DEF Earlier
<1>9. ASSUME NEW j \in DOMAIN P, P[j] \in net.auto, j < i
      PROVE  c \notin ToSet(Drivers(P[j]))
  <2> SUFFICES ASSUME c \in ToSet(Drivers(P[j])) PROVE FALSE
    OBVIOUS
  <2>1. PICK x \in S : x[1] = j
    BY <1>9, SlotsOf DEF S
  <2> QED
    BY <1>4, <1>8, <1>9, <2>1
<1>10. ASSUME NEW j \in DOMAIN P, P[j] \in net.auto, j # i
       PROVE  d \notin ToSet(Drivers(P[j]))
  <2> SUFFICES ASSUME d \in ToSet(Drivers(P[j])) PROVE FALSE
    OBVIOUS
  <2>1. PICK x \in S : x[1] = j /\ Driver(c, x) = d
    BY <1>10, SlotsOf DEF S
  <2>2. Earlier(S, x) = {} /\ Earlier(S, s) = {}
    BY <1>4, <1>7, <2>1
  <2>3. ~ (i < j) /\ ~ (j < i)
    BY <1>4, <2>1, <2>2 DEF Earlier
  <2> QED
    BY <1>1, <1>3, <1>10, <2>3
<1>11. d \in Cells
  BY <1>4, <1>5
<1>12. P[i] \in net.auto /\ d \in ToSet(Drivers(P[i]))
  BY <1>2, <1>3
<1> QED
  BY <1>3, <1>9, <1>10, <1>11, <1>12 DEF MayLose

(* One element of a sequence is not above the bottom.                      *)
LEMMA OneBottom ==
  ASSUME NEW S, NEW q \in Seq(S), NEW d \in ToSet(q) \ Above(q), NEW e \in ToSet(q) \ Above(q)
  PROVE  d = e
<1>1. DOMAIN q = 1 .. Len(q) /\ Len(q) \in Nat
  BY LenProperties
<1>2. \A x \in ToSet(q) \ Above(q) : x = q[1]
  <2> TAKE x \in ToSet(q) \ Above(q)
  <2>1. PICK n \in DOMAIN q : x = q[n]
    BY DEF ToSet
  <2>2. n \notin 2 .. Len(q)
    BY <2>1 DEF Above
  <2>3. n = 1
    BY <1>1, <2>2
  <2> QED
    BY <2>1, <2>3
<1> QED
  BY <1>2

-----------------------------------------------------------------------------
(* What is behind wires.                                                   *)

(* Behind is within every set of cells that has the drivers of the wires   *)
(* and those of what its cells feed on.                                    *)
LEMMA BehindLeast ==
  ASSUME NEW ws, NEW feeds, NEW S \in SUBSET Cells, DriversOf(ws) \subseteq S,
         \A d \in S : DriversOf(feeds[d]) \subseteq S
  PROVE  Behind(ws, feeds) \subseteq S
BY DEF Behind

(* It is such a set itself.                                                *)
LEMMA BehindClosed ==
  ASSUME net \in Netlists, NEW ws, NEW feeds
  PROVE  /\ Behind(ws, feeds) \subseteq Cells /\ DriversOf(ws) \subseteq Behind(ws, feeds)
         /\ \A d \in Behind(ws, feeds) : DriversOf(feeds[d]) \subseteq Behind(ws, feeds)
<1>1. \A w : ToSet(Drivers(w)) \subseteq Cells
  BY NetOf, ElementsIn
<1>2. \A W : DriversOf(W) \subseteq Cells
  BY <1>1 DEF DriversOf
<1> QED
  BY <1>2 DEF Behind

(* Printed contains the drivers of the signal, and of the auto wires that  *)
(* its cells name.                                                         *)
LEMMA PrintedClosed ==
  ASSUME net \in Netlists, NEW k
  PROVE  /\ Printed(k) \subseteq Cells /\ ToSet(Drivers(Sig(k))) \subseteq Printed(k)
         /\ \A c \in Printed(k) : DriversOf(WiresOf(c) \cap net.auto) \subseteq Printed(k)
<1> DEFINE feeds == [c \in Cells |-> WiresOf(c) \cap net.auto]
<1>1. Printed(k) = Behind({Sig(k)}, feeds)
  BY DEF Printed, Sig
<1>2. \A c \in Cells : feeds[c] = WiresOf(c) \cap net.auto
  OBVIOUS
<1> HIDE DEF feeds
<1> DEFINE ws == {Sig(k)}
<1> HIDE DEF ws
<1>3. /\ Behind(ws, feeds) \subseteq Cells /\ DriversOf(ws) \subseteq Behind(ws, feeds)
      /\ \A d \in Behind(ws, feeds) : DriversOf(feeds[d]) \subseteq Behind(ws, feeds)
  BY BehindClosed
<1>4. /\ Printed(k) \subseteq Cells /\ DriversOf({Sig(k)}) \subseteq Printed(k)
      /\ \A d \in Printed(k) : DriversOf(feeds[d]) \subseteq Printed(k)
  BY <1>1, <1>3 DEF ws
<1>5. ToSet(Drivers(Sig(k))) = DriversOf({Sig(k)})
  BY DEF DriversOf
<1> QED
  BY <1>2, <1>4, <1>5

(* A set with the drivers of wires, and of the auto inputs of its cells,   *)
(* has the cone of the wires.                                              *)
LEMMA ConeLeast ==
  ASSUME NEW ws, NEW S \in SUBSET Cells, DriversOf(ws) \subseteq S,
         \A d \in S : DriversOf(Inputs(d) \cap net.auto) \subseteq S
  PROVE  Cone(ws) \subseteq S
<1> DEFINE feeds == [c \in Cells |-> Inputs(c) \cap net.auto]
<1>1. \A d \in S : DriversOf(feeds[d]) \subseteq S
  OBVIOUS
<1> HIDE DEF feeds
<1>2. Behind(ws, feeds) \subseteq S
  BY <1>1, BehindLeast
<1> QED
  BY <1>2 DEF Cone, feeds

(* A cone has the drivers of its wires, and of the auto inputs of its      *)
(* cells.                                                                  *)
LEMMA ConeClosed ==
  ASSUME net \in Netlists, NEW ws
  PROVE  /\ Cone(ws) \in SUBSET Cells /\ DriversOf(ws) \subseteq Cone(ws)
         /\ \A d \in Cone(ws) : DriversOf(Inputs(d) \cap net.auto) \subseteq Cone(ws)
<1> DEFINE feeds == [d \in Cells |-> Inputs(d) \cap net.auto]
<1>1. Cone(ws) = Behind(ws, feeds)
  BY DEF Cone
<1>2. \A d \in Cells : feeds[d] = Inputs(d) \cap net.auto
  OBVIOUS
<1> HIDE DEF feeds
<1>3. /\ Behind(ws, feeds) \subseteq Cells /\ DriversOf(ws) \subseteq Behind(ws, feeds)
      /\ \A d \in Behind(ws, feeds) : DriversOf(feeds[d]) \subseteq Behind(ws, feeds)
  BY BehindClosed
<1> QED
  BY <1>1, <1>2, <1>3

(* The cone of several signals is that of each of them.                    *)
LEMMA ConeOfMany ==
  ASSUME net \in Netlists, NEW ws, NEW c \in Cone(ws)
  PROVE  \E w \in ws : c \in Cone({w})
<1> DEFINE S == UNION {Cone({w}) : w \in ws}
<1>1. ASSUME NEW w
      PROVE  /\ Cone({w}) \subseteq Cells /\ ToSet(Drivers(w)) \subseteq Cone({w})
             /\ \A d \in Cone({w}) : DriversOf(Inputs(d) \cap net.auto) \subseteq Cone({w})
  <2> DEFINE v == {w}
  <2>1. DriversOf(v) = ToSet(Drivers(w))
    BY DEF DriversOf
  <2> HIDE DEF v
  <2>2. /\ Cone(v) \in SUBSET Cells /\ DriversOf(v) \subseteq Cone(v)
        /\ \A d \in Cone(v) : DriversOf(Inputs(d) \cap net.auto) \subseteq Cone(v)
    BY ConeClosed
  <2> QED
    BY <2>1, <2>2 DEF v
<1>2. S \in SUBSET Cells
  BY <1>1
<1>3. DriversOf(ws) \subseteq S
  BY <1>1 DEF DriversOf
<1>4. \A d \in S : DriversOf(Inputs(d) \cap net.auto) \subseteq S
  BY <1>1
<1> HIDE DEF S
<1>5. Cone(ws) \subseteq S
  BY <1>2, <1>3, <1>4, ConeLeast
<1> QED
  BY <1>5 DEF S

(* It contains that of each of them.                                       *)
LEMMA ConeOfOne ==
  ASSUME net \in Netlists, NEW ws, NEW w \in ws
  PROVE  Cone({w}) \subseteq Cone(ws)
<1> DEFINE v == {w}
<1>1. DriversOf(v) \subseteq DriversOf(ws)
  BY DEF DriversOf
<1> HIDE DEF v
<1>2. /\ Cone(ws) \in SUBSET Cells /\ DriversOf(ws) \subseteq Cone(ws)
      /\ \A d \in Cone(ws) : DriversOf(Inputs(d) \cap net.auto) \subseteq Cone(ws)
  BY ConeClosed
<1>3. Cone(v) \subseteq Cone(ws)
  BY <1>1, <1>2, ConeLeast
<1> QED
  BY <1>3 DEF v

-----------------------------------------------------------------------------
(* The inductive invariant.                                                *)

(* Of a cell: the auto wires that it names, and the drivers of its inputs. *)
(* Of a call: the drivers of its signal, and its cone.                     *)
Named(c) == WiresOf(c) \cap net.auto
Needs(c) == DriversOf(Inputs(c) \cap net.auto)
Tops(k) == Drivers(Sig(k))
ConeOf(k) == Cone({Sig(k)})

(* The types of the variables.  The stack is empty between roots.          *)
Types ==
  /\ net \in Netlists /\ call \in 1 .. Len(net.asked) + 1
  /\ roots \in Seq(Cells) /\ dep_cell \in Seq(Cells) /\ fin_cell \in SUBSET Cells
  /\ dep_wire \in SUBSET net.auto /\ IsFiniteSet(dep_wire)
  /\ text \in [cells : Seq(Cells), decl : Seq(net.auto)]
  /\ file \in [Files -> [asked : SUBSET DOMAIN net.drivers, cells : SUBSET Cells, decl : SUBSET net.auto]]
  /\ dep_wire = {} => dep_cell = << >>
  /\ call \notin Calls => roots = << >> /\ dep_wire = {}

(* What a printed cell needs is printed, or waits above the bottom of the  *)
(* stack, or is the driver that a root of a text so far may lose.          *)
Due(c) == Needs(c) \ (fin_cell \cup Above(dep_cell))
InputsInv ==
  \A c \in fin_cell : Due(c) # {} =>
    /\ \E k \in Calls : k <= call /\ c \in ToSet(Tops(k))
    /\ \E d \in MayLose(c) : Due(c) \subseteq {d}

(* The drivers of the signals asked for are printed or waiting.            *)
RootsInv ==
  /\ \A k \in Calls : k < call => ToSet(Tops(k)) \subseteq fin_cell
  /\ call \in Calls => /\ ToSet(roots) \subseteq ToSet(Tops(call))
                       /\ ToSet(Tops(call)) \subseteq fin_cell \cup ToSet(roots)

(* A text prints cells that go into fin_cell and belong to its call, and   *)
(* declares the auto wires that they name.                                 *)
TextInv ==
  /\ ToSet(text.cells) \subseteq fin_cell
  /\ \A c \in ToSet(text.cells) : Named(c) \subseteq ToSet(text.decl) \cup dep_wire
  /\ call \in Calls => ToSet(text.cells) \cup ToSet(dep_cell) \subseteq Printed(call)
  /\ call \notin Calls => text.cells = << >>

(* With one root everything is printed on one walk, and declared after it. *)
OnceInv ==
  call \in Calls /\ Len(Tops(call)) = 1 =>
    /\ IsInjective(text.cells) /\ IsInjective(text.decl)
    /\ roots # << >> => Len(roots) = 1 /\ text = Blank /\ dep_wire = {}
    /\ dep_wire # {} => text.decl = << >>

(* A file has what was asked for it, and declares what it names.  A cell   *)
(* that is printed is in the file, or in the text under way, or in the text*)
(* of an earlier call that was for other files.  So is what is behind a    *)
(* signal of the file, unless a root among it up to that call may lose a   *)
(* driver.                                                                 *)
Clean(j) == LosesNothing(j, 1 .. j)
Elsewhere(c, f, j) == \E k \in Calls : k < j /\ f \notin For(k) /\ c \in Printed(k)
FileInv ==
  \A f \in Files :
    /\ file[f].asked = {Sig(k) : k \in {j \in Calls : j < call /\ f \in For(j)}}
    /\ \A c \in file[f].cells : Named(c) \subseteq file[f].decl
    /\ \A c \in fin_cell : c \in file[f].cells \/ c \in ToSet(text.cells) \/ Elsewhere(c, f, call)
    /\ \A j \in Calls : j < call /\ f \in For(j) /\ Clean(j) =>
         \A c \in ConeOf(j) : c \in file[f].cells \/ Elsewhere(c, f, j)

IInv == Types /\ InputsInv /\ RootsInv /\ TextInv /\ OnceInv /\ FileInv

-----------------------------------------------------------------------------
(* The steps.                                                              *)

(* What depends on the netlist alone does not change.                      *)
LEMMA SameNet ==
  ASSUME net' = net
  PROVE  /\ Cells' = Cells /\ Calls' = Calls /\ Files' = Files
         /\ \A c : Needs(c)' = Needs(c) /\ Named(c)' = Named(c)
         /\ \A k : /\ Tops(k)' = Tops(k) /\ Printed(k)' = Printed(k) /\ ConeOf(k)' = ConeOf(k)
                   /\ For(k)' = For(k) /\ Sig(k)' = Sig(k)
         /\ \A c, f, j : Elsewhere(c, f, j)' <=> Elsewhere(c, f, j)
         /\ \A c : MayLose(c)' = MayLose(c)
         /\ \A j : Clean(j)' <=> Clean(j)
<1>1. Cells' = Cells /\ Calls' = Calls /\ Files' = Files
  BY DEF Cells, Calls, Files
<1>2. \A c : Needs(c)' = Needs(c) /\ Named(c)' = Named(c)
  BY DEF Needs, Named, DriversOf, Drivers, Inputs, WiresOf
<1>3. \A k : For(k)' = For(k) /\ Sig(k)' = Sig(k) /\ Tops(k)' = Tops(k)
  BY DEF For, Sig, Tops, Drivers
<1>4. \A k : Printed(k)' = Printed(k)
  BY DEF Printed, Behind, Cells, DriversOf, Drivers, WiresOf
<1>5. \A k : ConeOf(k)' = ConeOf(k)
  BY DEF ConeOf, Cone, Sig, Behind, Cells, DriversOf, Drivers, Inputs
<1>6. \A c, f, j : Elsewhere(c, f, j)' <=> Elsewhere(c, f, j)
  BY DEF Elsewhere, Printed, Behind, Cells, DriversOf, Drivers, WiresOf, For, Calls
<1>7. \A c : MayLose(c)' = MayLose(c)
  BY DEF MayLose, Cells, Drivers
<1>8. \A j : Clean(j)' <=> Clean(j)
  BY DEF Clean, LosesNothing, MayLose, Cone, Behind, Cells, DriversOf, Drivers, Inputs, Roots
<1> QED
  BY <1>1, <1>2, <1>3, <1>4, <1>5, <1>6, <1>7, <1>8

(* Neither does what depends on the call, while it lasts.                  *)
LEMMA SameCall ==
  ASSUME net' = net, call' = call
  PROVE  /\ Printed(call)' = Printed(call) /\ Tops(call)' = Tops(call)
         /\ \A c, f : Elsewhere(c, f, call)' <=> Elsewhere(c, f, call)
<1>1. Printed(call)' = Printed(call)
  BY DEF Printed, Behind, Cells, DriversOf, Drivers, WiresOf
<1>2. Tops(call)' = Tops(call)
  BY DEF Tops, Sig, Drivers
<1>3. \A c, f : Elsewhere(c, f, call)' <=> Elsewhere(c, f, call)
  BY DEF Elsewhere, Printed, Behind, Cells, DriversOf, Drivers, WiresOf, For, Calls
<1> QED
  BY <1>1, <1>2, <1>3

(* InputsInv holds as long as nothing new falls due.                       *)
LEMMA InputsKept ==
  ASSUME Types, InputsInv, net' = net, call' \in {call, call + 1},
         \A x \in fin_cell' : Due(x)' # {} => x \in fin_cell /\ Due(x)' \subseteq Due(x)
  PROVE  InputsInv'
<1>1. /\ Calls' = Calls /\ \A x : MayLose(x)' = MayLose(x)
      /\ \A k : Tops(k)' = Tops(k)
  BY SameNet
<1>2. call \in Nat /\ Calls \subseteq Nat
  BY NetOf DEF Types
<1> SUFFICES ASSUME NEW x \in fin_cell', Due(x)' # {}
             PROVE  /\ \E k \in Calls : k <= call' /\ x \in ToSet(Tops(k))
                    /\ \E d \in MayLose(x) : Due(x)' \subseteq {d}
  BY <1>1 DEF InputsInv
<1>3. x \in fin_cell /\ Due(x) # {} /\ Due(x)' \subseteq Due(x)
  OBVIOUS
<1>4. PICK k \in Calls : k <= call /\ x \in ToSet(Tops(k))
  BY <1>3 DEF InputsInv
<1>5. k <= call'
  BY <1>2, <1>4
<1>6. PICK d \in MayLose(x) : Due(x) \subseteq {d}
  BY <1>3 DEF InputsInv
<1> QED
  BY <1>3, <1>4, <1>5, <1>6

(* The first call.                                                         *)
LEMMA InitInv == Init => IInv
<1> SUFFICES ASSUME Init PROVE IInv
  OBVIOUS
<1> USE DEF Init
<1>1. net \in Netlists /\ call = 1 /\ 1 \in Calls /\ 1 \in 1 .. Len(net.asked) + 1
  BY NetOf
<1>2. roots = Tops(1) /\ Tops(1) \in Seq(Cells)
  BY <1>1, NetOf DEF Tops, Sig, Drivers
<1>3. /\ text = Blank /\ text.cells = << >> /\ text.decl = << >>
      /\ text \in [cells : Seq(Cells), decl : Seq(net.auto)]
  BY DEF Blank
<1>4. ToSet(<< >>) = {}
  BY DEF ToSet
<1>5. Types
  BY <1>1, <1>2, <1>3, FS_EmptySet DEF Types
<1>6. InputsInv
  BY DEF InputsInv
<1>7. RootsInv
  BY <1>1, <1>2, NetOf DEF RootsInv
<1>8. TextInv
  BY <1>1, <1>3, <1>4 DEF TextInv
<1>9. OnceInv
  BY <1>1, <1>2, <1>3 DEF OnceInv, IsInjective
<1>10. FileInv
  <2> SUFFICES ASSUME NEW f \in Files
               PROVE  /\ file[f].asked = {Sig(k) : k \in {j \in Calls : j < call /\ f \in For(j)}}
                      /\ file[f].cells = {} /\ fin_cell = {}
                      /\ \A j \in Calls : ~ (j < call)
    BY DEF FileInv
  <2>1. \A j \in Calls : ~ (j < call)
    BY <1>1, NetOf
  <2>2. file[f] = [asked |-> {}, cells |-> {}, decl |-> {}]
    OBVIOUS
  <2> QED
    BY <2>1, <2>2
<1> QED
  BY <1>5, <1>6, <1>7, <1>8, <1>9, <1>10 DEF IInv

(* DumpCellExpr prints a cell of the call on top of cells of the stack.    *)
LEMMA DumpInto ==
  ASSUME IInv, call \in Calls, NEW c \in Cells, c \in Printed(call),
         NEW cells \in Seq(Cells), ToSet(cells) \subseteq ToSet(dep_cell),
         cells # << >> => dep_wire # {},
         DumpCellExpr(c, cells), net' = net, call' = call, file' = file
  PROVE  /\ Pushed(c) \in Seq(Cells) /\ dep_cell' = cells \o Pushed(c)
         /\ dep_cell' \in Seq(Cells) /\ fin_cell' = fin_cell \cup {c}
         /\ dep_wire' \in SUBSET net'.auto /\ IsFiniteSet(dep_wire')
         /\ dep_wire' = {} => dep_cell' = << >>
         /\ text' = [text EXCEPT !.cells = Append(@, c)]
         /\ text' \in [cells : Seq(Cells), decl : Seq(net.auto)]
         /\ ToSet(text'.cells) = ToSet(text.cells) \cup {c}
         /\ text'.decl = text.decl
         /\ TextInv' /\ FileInv'
<1> USE DEF IInv
<1>1. /\ Cells' = Cells /\ Calls' = Calls /\ Files' = Files
      /\ \A x : Needs(x)' = Needs(x) /\ Named(x)' = Named(x)
      /\ \A k : /\ Tops(k)' = Tops(k) /\ Printed(k)' = Printed(k) /\ ConeOf(k)' = ConeOf(k)
                /\ For(k)' = For(k) /\ Sig(k)' = Sig(k)
      /\ \A x, f, j : Elsewhere(x, f, j)' <=> Elsewhere(x, f, j)
      /\ \A x : MayLose(x)' = MayLose(x)
      /\ \A j : Clean(j)' <=> Clean(j)
  BY SameNet
<1>2. /\ dep_cell' = cells \o Pushed(c) /\ dep_wire' = dep_wire \cup Named(c)
      /\ fin_cell' = fin_cell \cup {c} /\ text' = [text EXCEPT !.cells = Append(@, c)]
  BY DEF DumpCellExpr, Named
<1>3. /\ Pushed(c) \in Seq(Cells)
      /\ ToSet(Pushed(c)) = DriversOf(Named(c)) \ fin_cell
  BY PushedOf DEF Types, Named
<1>4. /\ dep_cell' \in Seq(Cells) /\ ToSet(dep_cell') = ToSet(cells) \cup ToSet(Pushed(c))
  BY <1>2, <1>3, ToSetConcat
<1>5. dep_wire' \in SUBSET net'.auto /\ IsFiniteSet(dep_wire')
  <2>1. net.ports[c] \in Seq(WiresOf(c))
    BY NetOf DEF Types
  <2>2. IsFiniteSet(WiresOf(c))
    BY <2>1, SeqFinite DEF WiresOf
  <2>3. Named(c) \in SUBSET WiresOf(c) /\ Named(c) \subseteq net.auto
    BY DEF Named
  <2>4. IsFiniteSet(Named(c))
    BY <2>2, <2>3, FS_Subset
  <2>5. IsFiniteSet(dep_wire \cup Named(c))
    BY <2>4, FS_Union DEF Types
  <2> QED
    BY <1>2, <2>3, <2>5 DEF Types
<1>6. ASSUME dep_wire' = {} PROVE dep_cell' = << >>
  <2>1. cells = << >> /\ Named(c) = {}
    BY <1>2, <1>6
  <2>2. ToSet(Pushed(c)) = {}
    BY <1>3, <2>1 DEF DriversOf
  <2>3. Pushed(c) = << >>
    BY <1>3, <2>2, NoElements
  <2> QED
    BY <1>2, <2>1, <2>3
<1>7. /\ text' \in [cells : Seq(Cells), decl : Seq(net.auto)]
      /\ ToSet(text'.cells) = ToSet(text.cells) \cup {c}
      /\ text'.decl = text.decl
  <2>1. text.cells \in Seq(Cells) /\ text.decl \in Seq(net.auto)
    BY DEF Types
  <2>2. text'.cells = Append(text.cells, c) /\ text'.decl = text.decl
    BY <1>2 DEF Types
  <2>3. Append(text.cells, c) = text.cells \o <<c>> /\ Append(text.cells, c) \in Seq(Cells)
    BY <2>1, AppendIsConcat, AppendProperties
  <2>4. ToSet(<<c>>) = {c} /\ <<c>> \in Seq(Cells)
    BY ToSetOne
  <2>5. ToSet(text.cells \o <<c>>) = ToSet(text.cells) \cup ToSet(<<c>>)
    <3>1. PICK u, v : u = text.cells /\ v = <<c>>
      OBVIOUS
    <3>2. u \in Seq(Cells) /\ v \in Seq(Cells)
      BY <2>1, <2>4, <3>1
    <3>3. ToSet(u \o v) = ToSet(u) \cup ToSet(v)
      BY ONLY <3>2, ToSetConcat
    <3> QED
      BY <3>1, <3>3
  <2>6. text' \in [cells : Seq(Cells), decl : Seq(net.auto)]
    BY <1>2, <2>1, <2>3 DEF Types
  <2> QED
    BY <2>2, <2>3, <2>5, <2>4, <2>6
<1>8. TextInv'
  <2>1. ToSet(text'.cells) \subseteq fin_cell'
    BY <1>2, <1>7 DEF TextInv
  <2>2. \A x \in ToSet(text'.cells) : Named(x)' \subseteq ToSet(text'.decl) \cup dep_wire'
    <3> SUFFICES ASSUME NEW x \in ToSet(text.cells) \cup {c}
                 PROVE  Named(x) \subseteq ToSet(text.decl) \cup dep_wire'
      BY <1>1, <1>7
    <3> QED
      BY <1>2 DEF TextInv
  <2>3. ToSet(text'.cells) \cup ToSet(dep_cell') \subseteq Printed(call)'
    <3>1. DriversOf(Named(c)) \subseteq Printed(call)
      BY PrintedClosed DEF Types, Named
    <3>2. ToSet(text.cells) \cup ToSet(dep_cell) \subseteq Printed(call)
      BY DEF TextInv
    <3>3. Printed(call)' = Printed(call)
      BY SameCall
    <3> QED
      BY <1>3, <1>4, <1>7, <3>1, <3>2, <3>3
  <2> QED
    BY <1>1, <2>1, <2>2, <2>3 DEF TextInv
<1>9. FileInv'
  <2> SUFFICES ASSUME NEW f \in Files
               PROVE  /\ file[f].asked = {Sig(k) : k \in {j \in Calls : j < call /\ f \in For(j)}}
                      /\ \A x \in file[f].cells : Named(x) \subseteq file[f].decl
                      /\ \A x \in fin_cell \cup {c} : x \in file[f].cells \/ x \in ToSet(text.cells) \cup {c} \/ Elsewhere(x, f, call)
                      /\ \A j \in Calls : j < call /\ f \in For(j) /\ Clean(j) =>
                           \A x \in ConeOf(j) : x \in file[f].cells \/ Elsewhere(x, f, j)
    BY <1>1, <1>2, <1>7, SameCall DEF FileInv
  <2> QED
    BY DEF FileInv
<1> QED
  BY <1>2, <1>3, <1>4, <1>5, <1>6, <1>7, <1>8, <1>9

(* The next root is printed alone.                                         *)
LEMMA RootInv == ASSUME IInv, DumpRoot PROVE IInv'
<1> DEFINE c == Head(roots)
<1> USE DEF IInv
<1>1. /\ roots # << >> /\ dep_cell = << >> /\ dep_wire = {} /\ roots' = Tail(roots)
      /\ DumpCellExpr(c, << >>) /\ net' = net /\ call' = call /\ file' = file
  BY DEF DumpRoot
<1>2. /\ Tail(roots) \in Seq(Cells) /\ Len(Tail(roots)) = Len(roots) - 1
      /\ c \in Cells /\ ToSet(roots) = {c} \cup ToSet(Tail(roots))
  BY <1>1, TailOf DEF Types
<1>3. call \in Calls /\ c \in ToSet(Tops(call))
  BY <1>1, <1>2 DEF Types, RootsInv
<1>4. c \in Printed(call)
  BY <1>3, PrintedClosed DEF Types, Tops
<1>5. << >> \in Seq(Cells) /\ ToSet(<< >>) = {}
  BY DEF ToSet
<1> HIDE DEF c
<1>6. /\ Pushed(c) \in Seq(Cells) /\ dep_cell' = << >> \o Pushed(c)
      /\ dep_cell' \in Seq(Cells) /\ fin_cell' = fin_cell \cup {c}
      /\ dep_wire' \in SUBSET net'.auto /\ IsFiniteSet(dep_wire')
      /\ dep_wire' = {} => dep_cell' = << >>
      /\ text' = [text EXCEPT !.cells = Append(@, c)]
      /\ text' \in [cells : Seq(Cells), decl : Seq(net.auto)]
      /\ ToSet(text'.cells) = ToSet(text.cells) \cup {c}
      /\ text'.decl = text.decl
      /\ TextInv' /\ FileInv'
  BY <1>1, <1>2, <1>3, <1>4, <1>5, DumpInto
<1>7. /\ Cells' = Cells /\ Calls' = Calls /\ Files' = Files
      /\ \A x : Needs(x)' = Needs(x) /\ Named(x)' = Named(x)
      /\ \A k : Tops(k)' = Tops(k) /\ For(k)' = For(k) /\ Sig(k)' = Sig(k)
      /\ \A x : MayLose(x)' = MayLose(x)
      /\ Tops(call)' = Tops(call)
  BY <1>1, SameNet, SameCall
<1>8. Types'
  BY <1>1, <1>2, <1>3, <1>6, <1>7 DEF Types
<1>9. dep_cell' = Pushed(c)
  BY <1>6, ConcatEmptySeq
<1>10. InputsInv'
  <2> SUFFICES ASSUME NEW x \in fin_cell \cup {c}, Due(x)' # {}
               PROVE  /\ \E k \in Calls : k <= call /\ x \in ToSet(Tops(k))
                      /\ \E d \in MayLose(x) : Due(x)' \subseteq {d}
    BY <1>1, <1>6, <1>7 DEF InputsInv
  <2>1. Due(x)' = Needs(x) \ (fin_cell \cup {c} \cup Above(Pushed(c)))
    BY <1>6, <1>7, <1>9 DEF Due
  <2>2. CASE x \in fin_cell
    <3>1. Above(dep_cell) = {}
      BY <1>1 DEF Above
    <3>2. Due(x)' \subseteq Due(x)
      BY <2>1, <3>1 DEF Due
    <3> QED
      BY <2>2, <3>2 DEF InputsInv
  <2>3. CASE x \notin fin_cell
    <3>1. x = c /\ c \in Cells \ fin_cell /\ net \in Netlists
      BY <1>2, <2>3 DEF Types
    <3>2. \A d \in Due(x)' : d \in MayLose(c)
      <4> TAKE d \in Due(x)'
      <4>1. d \in DriversOf(Inputs(c) \cap net.auto) \ fin_cell /\ d \notin Above(Pushed(c))
        BY <2>1, <3>1 DEF Needs
      <4> QED
        BY ONLY <3>1, <4>1, PushedAbove
    <3>3. Due(x)' \subseteq ToSet(Pushed(c)) \ Above(Pushed(c))
      <4>1. ToSet(Pushed(c)) = DriversOf(WiresOf(c) \cap net.auto) \ fin_cell
        BY <3>1, PushedOf
      <4>2. Needs(c) \subseteq DriversOf(WiresOf(c) \cap net.auto)
        BY DEF Needs, DriversOf, Inputs, WiresOf, ToSet
      <4> QED
        BY <2>1, <3>1, <4>1, <4>2
    <3>4. PICK d : d \in Due(x)'
      OBVIOUS
    <3>5. \A e \in Due(x)' : e = d
      <4> TAKE e \in Due(x)'
      <4>1. PICK q : q = Pushed(c)
        OBVIOUS
      <4>2. q \in Seq(Cells) /\ d \in ToSet(q) \ Above(q) /\ e \in ToSet(q) \ Above(q)
        BY <1>6, <3>3, <3>4, <4>1
      <4> QED
        BY ONLY <4>2, OneBottom
    <3>6. call \in Calls /\ call <= call
      BY <1>3, NetOf DEF Types
    <3> QED
      BY <1>3, <3>1, <3>2, <3>4, <3>5, <3>6
  <2> QED
    BY <2>2, <2>3
<1>11. RootsInv'
  BY <1>1, <1>2, <1>3, <1>6, <1>7 DEF RootsInv
<1>12. OnceInv'
  <2> SUFFICES ASSUME Len(Tops(call)) = 1
               PROVE  /\ IsInjective(text'.cells) /\ IsInjective(text'.decl)
                      /\ Tail(roots) = << >> /\ text'.decl = << >>
    BY <1>1, <1>3, <1>7 DEF OnceInv
  <2>1. Len(roots) = 1 /\ text = Blank
    BY <1>1, <1>3 DEF OnceInv
  <2>2. Tail(roots) = << >>
    <3>1. PICK q : q = Tail(roots)
      OBVIOUS
    <3>2. q \in Seq(Cells) /\ Len(q) = 0
      BY <1>2, <2>1, <3>1
    <3> QED
      BY <3>1, <3>2, EmptySeq
  <2>3. text'.decl = << >> /\ text'.cells = Append(<< >>, c)
    <3>1. text.cells = << >> /\ text.decl = << >>
      BY <2>1 DEF Blank
    <3>2. text'.cells = Append(text.cells, c) /\ text'.decl = text.decl
      BY <1>6 DEF Types
    <3> QED
      BY <3>1, <3>2
  <2>4. Append(<< >>, c) = <<c>>
    OBVIOUS
  <2>5. IsInjective(<< >>) /\ IsInjective(<<c>>)
    BY DEF IsInjective
  <2> QED
    BY <2>2, <2>3, <2>4, <2>5
<1> QED
  BY <1>6, <1>8, <1>10, <1>11, <1>12

(* What is above the bottom when a sequence is put on a stack that is not  *)
(* empty, and when the top of more than one is popped.                     *)
LEMMA AboveOf ==
  ASSUME NEW S, NEW s \in Seq(S), NEW t \in Seq(S), Len(s) > 1
  PROVE  /\ Above(s) = Above(Front(s)) \cup {Last(s)}
         /\ Above(Front(s) \o t) = Above(Front(s)) \cup ToSet(t)
<1>1. Len(s) \in Nat
  BY LenProperties
<1>2. Len(s) - 1 \in Nat \ {0} /\ Len(s) > 0
  <2>1. PICK n : n = Len(s)
    OBVIOUS
  <2>2. n \in Nat /\ n > 1
    BY <1>1, <2>1
  <2>3. n - 1 \in Nat \ {0} /\ n > 0
    BY ONLY <2>2
  <2> QED
    BY <2>1, <2>3
<1>3. /\ Front(s) \in Seq(S) /\ Len(Front(s)) = Len(s) - 1
      /\ \A k \in 1 .. Len(s) - 1 : Front(s)[k] = s[k]
  BY <1>2, FrontOf
<1>4. PICK u, v, m : u = Front(s) /\ v = u \o t /\ m = Len(s) - 1
  OBVIOUS
<1>5. /\ u \in Seq(S) /\ Len(u) = m /\ \A k \in 1 .. m : u[k] = s[k]
      /\ m \in Nat \ {0} /\ Last(s) = s[m + 1] /\ Len(s) = m + 1
  BY <1>2, <1>3, <1>4 DEF Last
<1>6. /\ Len(v) = m + Len(t) /\ Len(t) \in Nat /\ DOMAIN t = 1 .. Len(t)
      /\ \A k \in 1 .. m : v[k] = u[k]
      /\ \A k \in 1 .. Len(t) : v[m + k] = t[k]
  <2>1. u \in Seq(S) /\ t \in Seq(S)
    BY <1>5
  <2>2. /\ u \o t \in Seq(S) /\ Len(u \o t) = Len(u) + Len(t)
        /\ \A k \in 1 .. Len(u) : (u \o t)[k] = u[k]
        /\ \A k \in 1 .. Len(t) : (u \o t)[Len(u) + k] = t[k]
    BY ONLY <2>1, ToSetConcat
  <2>3. Len(t) \in Nat /\ DOMAIN t = 1 .. Len(t)
    BY LenProperties
  <2> QED
    BY <1>4, <1>5, <2>2, <2>3
<1>7. Above(s) = Above(u) \cup {Last(s)}
  <2>1. \A n \in 2 .. m + 1 : s[n] \in Above(u) \cup {Last(s)}
    BY <1>4, <1>5 DEF Above
  <2>2. \A n \in 2 .. m : u[n] \in Above(s)
    BY <1>5 DEF Above
  <2>3. Last(s) \in Above(s)
    BY <1>5 DEF Above
  <2> QED
    BY <1>4, <1>5, <2>1, <2>2, <2>3 DEF Above
<1>8. Above(v) = Above(u) \cup ToSet(t)
  <2>1. ASSUME NEW n \in 2 .. Len(v) PROVE v[n] \in Above(u) \cup ToSet(t)
    <3>1. CASE n <= m
      BY <1>4, <1>6, <3>1 DEF Above
    <3>2. CASE n > m
      <4>1. n - m \in DOMAIN t /\ v[n] = t[n - m]
        <5>1. n - m \in 1 .. Len(t) /\ m + (n - m) = n
          BY <1>5, <1>6, <2>1, <3>2
        <5> QED
          BY <1>6, <5>1
      <4> QED
        BY <4>1 DEF ToSet
    <3> QED
      BY <1>5, <3>1, <3>2
  <2>2. \A n \in 2 .. m : u[n] \in Above(v)
    <3> TAKE n \in 2 .. m
    <3>1. n \in 2 .. Len(v) /\ v[n] = u[n]
      BY <1>5, <1>6
    <3> QED
      BY <3>1 DEF Above
  <2>3. \A k \in DOMAIN t : m + k \in 2 .. Len(v) /\ v[m + k] = t[k]
    BY <1>5, <1>6
  <2>4. ToSet(t) \subseteq Above(v)
    BY <2>3 DEF ToSet, Above
  <2> QED
    BY <1>5, <2>1, <2>2, <2>4 DEF Above
<1> QED
  BY <1>4, <1>7, <1>8

(* Printing the top: what waited above the bottom still does, the top is   *)
(* printed now, and what it needs is above the bottom.                     *)
LEMMA NextInv == ASSUME IInv, DumpNext PROVE IInv'
<1> USE DEF IInv
<1>1. /\ Len(dep_cell) > 1 /\ Top \notin fin_cell /\ DumpCellExpr(Top, Front(dep_cell))
      /\ net' = net /\ call' = call /\ file' = file /\ roots' = roots
  BY DEF DumpNext
<1>2. /\ Front(dep_cell) \in Seq(Cells) /\ Top \in Cells /\ Top \in ToSet(dep_cell)
      /\ ToSet(Front(dep_cell)) \subseteq ToSet(dep_cell)
  <2>1. dep_cell \in Seq(Cells) /\ Len(dep_cell) > 0
    BY <1>1 DEF Types
  <2> QED
    BY <2>1, FrontOf DEF Top
<1>3. dep_cell # << >> /\ dep_wire # {} /\ call \in Calls
  BY <1>1, EmptySeq DEF Types
<1>4. PICK c, cells : c = Top /\ cells = Front(dep_cell)
  OBVIOUS
<1>5. c \in Printed(call) /\ c \in Cells /\ cells \in Seq(Cells)
  BY <1>2, <1>3, <1>4 DEF TextInv
<1>6. DumpCellExpr(c, cells) /\ (cells # << >> => dep_wire # {}) /\ ToSet(cells) \subseteq ToSet(dep_cell)
  BY <1>1, <1>2, <1>3, <1>4
<1>7. /\ Pushed(c) \in Seq(Cells) /\ dep_cell' = cells \o Pushed(c)
      /\ dep_cell' \in Seq(Cells) /\ fin_cell' = fin_cell \cup {c}
      /\ dep_wire' \in SUBSET net'.auto /\ IsFiniteSet(dep_wire')
      /\ dep_wire' = {} => dep_cell' = << >>
      /\ text' = [text EXCEPT !.cells = Append(@, c)]
      /\ text' \in [cells : Seq(Cells), decl : Seq(net.auto)]
      /\ ToSet(text'.cells) = ToSet(text.cells) \cup {c}
      /\ text'.decl = text.decl
      /\ TextInv' /\ FileInv'
  BY <1>1, <1>3, <1>5, <1>6, DumpInto
<1>8. /\ Cells' = Cells /\ Calls' = Calls /\ Files' = Files
      /\ \A x : Needs(x)' = Needs(x) /\ Named(x)' = Named(x)
      /\ \A k : Tops(k)' = Tops(k) /\ For(k)' = For(k) /\ Sig(k)' = Sig(k)
      /\ \A x : MayLose(x)' = MayLose(x)
      /\ Tops(call)' = Tops(call)
  BY <1>1, SameNet, SameCall
<1>9. Types'
  BY <1>1, <1>3, <1>7, <1>8 DEF Types
<1>10. ToSet(Pushed(c)) = DriversOf(Named(c)) \ fin_cell
  BY <1>5, PushedOf DEF Types, Named
<1>11. Needs(c) \subseteq fin_cell \cup ToSet(Pushed(c))
  <2>1. Inputs(c) \cap net.auto \subseteq Named(c)
    BY DEF Inputs, Named, WiresOf, ToSet
  <2>2. Needs(c) \subseteq DriversOf(Named(c))
    BY <2>1 DEF Needs, DriversOf
  <2> QED
    BY <1>10, <2>2
<1>12. Above(dep_cell') = Above(cells) \cup ToSet(Pushed(c)) /\ Above(dep_cell) = Above(cells) \cup {c}
  BY <1>1, <1>4, <1>7, AboveOf DEF Types, Top
<1>13. InputsInv'
  <2> SUFFICES ASSUME NEW x \in fin_cell', Due(x)' # {} PROVE x \in fin_cell /\ Due(x)' \subseteq Due(x)
    BY <1>1, InputsKept
  <2>1. Due(x)' = Needs(x) \ (fin_cell \cup {c} \cup Above(cells) \cup ToSet(Pushed(c)))
    BY <1>7, <1>8, <1>12 DEF Due
  <2>2. x # c
    BY <1>11, <2>1
  <2>3. x \in fin_cell
    BY <1>7, <2>2
  <2> QED
    BY <1>12, <2>1, <2>3 DEF Due
<1>14. RootsInv'
  BY <1>1, <1>7, <1>8 DEF RootsInv
<1>15. OnceInv'
  <2> SUFFICES ASSUME Len(Tops(call)) = 1
               PROVE  /\ IsInjective(text'.cells) /\ IsInjective(text.decl)
                      /\ roots = << >> /\ text.decl = << >>
    BY <1>1, <1>3, <1>7, <1>8 DEF OnceInv
  <2>1. roots = << >> /\ text.decl = << >> /\ IsInjective(text.cells) /\ IsInjective(text.decl)
    BY <1>3 DEF OnceInv
  <2>2. c \notin ToSet(text.cells) /\ text.cells \in Seq(Cells)
    BY <1>1, <1>4 DEF TextInv, Types
  <2>3. PICK s, t : s = text.cells /\ t = text'.cells
    OBVIOUS
  <2>4. t = Append(s, c)
    BY <1>7, <2>3 DEF Types
  <2>5. /\ DOMAIN s = 1 .. Len(s) /\ DOMAIN t = 1 .. Len(s) + 1 /\ Len(s) \in Nat
        /\ t[Len(s) + 1] = c /\ \A k \in 1 .. Len(s) : t[k] = s[k] /\ s[k] # c
    BY <1>5, <2>2, <2>3, <2>4, AppendProperties, LenProperties DEF ToSet
  <2>6. IsInjective(t)
    BY <2>1, <2>3, <2>5 DEF IsInjective
  <2> QED
    BY <2>1, <2>3, <2>6
<1> QED
  BY <1>7, <1>9, <1>13, <1>14, <1>15

(* A popped cell that is printed already was above the bottom.             *)
LEMMA SkipInv == ASSUME IInv, SkipNext PROVE IInv'
<1> USE DEF IInv
<1>1. /\ Len(dep_cell) > 1 /\ Top \in fin_cell /\ dep_cell' = Front(dep_cell)
      /\ net' = net /\ call' = call /\ file' = file /\ roots' = roots
      /\ dep_wire' = dep_wire /\ fin_cell' = fin_cell /\ text' = text
  BY DEF SkipNext
<1>2. dep_cell \in Seq(Cells) /\ Len(dep_cell) > 0
  BY <1>1 DEF Types
<1>3. Front(dep_cell) \in Seq(Cells) /\ ToSet(Front(dep_cell)) \subseteq ToSet(dep_cell)
  BY <1>2, FrontOf
<1>4. Above(dep_cell) = Above(Front(dep_cell)) \cup {Top}
  BY <1>1, <1>2, AboveOf DEF Top
<1>5. dep_wire # {}
  BY <1>1, EmptySeq DEF Types
<1>6. /\ Cells' = Cells /\ Calls' = Calls /\ Files' = Files
      /\ \A x : Needs(x)' = Needs(x) /\ Named(x)' = Named(x)
      /\ \A k : /\ Tops(k)' = Tops(k) /\ ConeOf(k)' = ConeOf(k)
                /\ For(k)' = For(k) /\ Sig(k)' = Sig(k)
      /\ \A x, f, j : Elsewhere(x, f, j)' <=> Elsewhere(x, f, j)
      /\ \A x : MayLose(x)' = MayLose(x)
      /\ \A j : Clean(j)' <=> Clean(j)
  BY <1>1, SameNet
<1>7. /\ Tops(call)' = Tops(call) /\ Printed(call)' = Printed(call)
      /\ \A x, f : Elsewhere(x, f, call)' <=> Elsewhere(x, f, call)
  BY <1>1, SameCall
<1>8. Types'
  BY <1>1, <1>3, <1>5, <1>6 DEF Types
<1>9. InputsInv'
  <2>1. \A x : Due(x)' = Due(x)
    BY <1>1, <1>4, <1>6 DEF Due
  <2> QED
    BY <1>1, <2>1, InputsKept
<1>10. RootsInv'
  BY <1>1, <1>6, <1>7 DEF RootsInv
<1>11. TextInv'
  BY <1>1, <1>3, <1>6, <1>7 DEF TextInv
<1>12. OnceInv'
  BY <1>1, <1>6, <1>7 DEF OnceInv
<1>13. FileInv'
  BY <1>1, <1>6, <1>7 DEF FileInv
<1> QED
  BY <1>8, <1>9, <1>10, <1>11, <1>12, <1>13

(* The wires are declared when at most the bottom is left.                 *)
LEMMA WiresInv == ASSUME IInv, DumpWires PROVE IInv'
<1> USE DEF IInv
<1>1. /\ Len(dep_cell) <= 1 /\ dep_wire # {} /\ dep_cell' = << >> /\ dep_wire' = {}
      /\ text' = [text EXCEPT !.decl = @ \o SetToSeq(dep_wire)]
      /\ net' = net /\ call' = call /\ file' = file /\ roots' = roots /\ fin_cell' = fin_cell
  BY DEF DumpWires
<1>2. call \in Calls
  BY <1>1 DEF Types
<1>3. /\ SetToSeq(dep_wire) \in Seq(dep_wire) /\ ToSet(SetToSeq(dep_wire)) = dep_wire
      /\ IsInjective(SetToSeq(dep_wire))
  BY SetAsSeq DEF Types
<1>4. PICK w : w = SetToSeq(dep_wire)
  OBVIOUS
<1>5. w \in Seq(net.auto) /\ ToSet(w) = dep_wire /\ IsInjective(w)
  BY <1>3, <1>4 DEF Types
<1>6. text.cells \in Seq(Cells) /\ text.decl \in Seq(net.auto)
  BY DEF Types
<1>7. /\ text.decl \o w \in Seq(net.auto)
      /\ ToSet(text.decl \o w) = ToSet(text.decl) \cup ToSet(w)
  <2>1. PICK d : d = text.decl
    OBVIOUS
  <2>2. d \in Seq(net.auto) /\ w \in Seq(net.auto)
    BY <1>5, <1>6, <2>1
  <2>3. d \o w \in Seq(net.auto) /\ ToSet(d \o w) = ToSet(d) \cup ToSet(w)
    BY ONLY <2>2, ToSetConcat
  <2> QED
    BY <2>1, <2>3
<1>8. /\ text' \in [cells : Seq(Cells), decl : Seq(net.auto)]
      /\ text'.cells = text.cells /\ text'.decl = text.decl \o w
      /\ ToSet(text'.decl) = ToSet(text.decl) \cup dep_wire
  BY <1>1, <1>4, <1>5, <1>7 DEF Types
<1>9. /\ Cells' = Cells /\ Calls' = Calls /\ Files' = Files
      /\ \A x : Needs(x)' = Needs(x) /\ Named(x)' = Named(x)
      /\ \A k : /\ Tops(k)' = Tops(k) /\ ConeOf(k)' = ConeOf(k)
                /\ For(k)' = For(k) /\ Sig(k)' = Sig(k)
      /\ \A x, f, j : Elsewhere(x, f, j)' <=> Elsewhere(x, f, j)
      /\ \A x : MayLose(x)' = MayLose(x)
      /\ \A j : Clean(j)' <=> Clean(j)
  BY <1>1, SameNet
<1>10. /\ Tops(call)' = Tops(call) /\ Printed(call)' = Printed(call)
       /\ \A x, f : Elsewhere(x, f, call)' <=> Elsewhere(x, f, call)
  BY <1>1, SameCall
<1>11. << >> \in Seq(Cells) /\ ToSet(<< >>) = {}
  BY DEF ToSet
<1>12. Types'
  BY <1>1, <1>2, <1>8, <1>9, <1>11, FS_EmptySet DEF Types
<1>13. InputsInv'
  <2>1. Above(dep_cell) = {}
    BY <1>1 DEF Above, Types
  <2>2. \A x : Due(x)' \subseteq Due(x)
    BY <1>1, <1>9, <2>1 DEF Due
  <2> QED
    BY <1>1, <2>2, InputsKept
<1>14. RootsInv'
  BY <1>1, <1>9, <1>10 DEF RootsInv
<1>15. TextInv'
  <2>1. \A x \in ToSet(text.cells) : Named(x) \subseteq ToSet(text.decl) \cup dep_wire
    BY DEF TextInv
  <2>2. \A x \in ToSet(text'.cells) : Named(x)' \subseteq ToSet(text'.decl) \cup dep_wire'
    BY <1>8, <1>9, <2>1
  <2> QED
    BY <1>1, <1>2, <1>8, <1>9, <1>10, <1>11, <2>2 DEF TextInv
<1>16. OnceInv'
  <2> SUFFICES ASSUME Len(Tops(call)) = 1
               PROVE  IsInjective(text'.cells) /\ IsInjective(text'.decl) /\ roots = << >>
    BY <1>1, <1>2, <1>9, <1>10 DEF OnceInv
  <2>1. IsInjective(text.cells) /\ text.decl = << >> /\ roots = << >>
    BY <1>1, <1>2 DEF OnceInv
  <2>2. << >> \o w = w
    BY <1>5, ConcatEmptySeq
  <2> QED
    BY <1>5, <1>8, <2>1, <2>2
<1>17. FileInv'
  BY <1>1, <1>8, <1>9, <1>10 DEF FileInv
<1> QED
  BY <1>12, <1>13, <1>14, <1>15, <1>16, <1>17

(* When a call has no root and no wire left, the drivers of the signals    *)
(* asked for so far are printed, and what a cell lacks is what it may lose.*)
LEMMA IdleBottom ==
  ASSUME IInv, roots = << >>, dep_wire = {}, call \in Calls
  PROVE  BottomLost
<1> USE DEF IInv
<1>1. dep_cell = << >>
  BY DEF Types
<1>2. Above(dep_cell) = {} /\ ToSet(roots) = {}
  BY <1>1 DEF Above, ToSet
<1>3. call \in Nat /\ Calls = 1 .. Len(net.asked) /\ Len(net.asked) \in Nat
  BY NetOf DEF Types
<1>4. \A k : Roots(k) = ToSet(Tops(k))
  BY DEF Roots, Tops, Sig
<1>5. \A c : Lacks(c) = Due(c)
  BY <1>2 DEF Lacks, Due, Needs
<1>6. ASSUME NEW k \in 1 .. call PROVE Roots(k) \subseteq fin_cell
  <2>1. CASE k < call
    BY <1>3, <1>4, <2>1 DEF RootsInv
  <2>2. CASE k = call
    BY <1>2, <1>4, <2>2 DEF RootsInv
  <2> QED
    BY <1>3, <2>1, <2>2
<1>7. ASSUME NEW c \in fin_cell, Lacks(c) # {}
      PROVE  (\E k \in 1 .. call : c \in Roots(k)) /\ \E d \in MayLose(c) : Lacks(c) = {d}
  <2>1. PICK k \in Calls : k <= call /\ c \in ToSet(Tops(k))
    BY <1>5, <1>7 DEF InputsInv
  <2>2. k \in 1 .. call /\ c \in Roots(k)
    BY <1>3, <1>4, <2>1
  <2>3. PICK d \in MayLose(c) : Due(c) \subseteq {d}
    BY <1>5, <1>7 DEF InputsInv
  <2>4. Lacks(c) = {d}
    BY <1>5, <1>7, <2>3
  <2> QED
    BY <2>2, <2>4
<1> QED
  BY <1>6, <1>7 DEF BottomLost

(* Then what is behind a signal asked for so far is printed, unless a root *)
(* among it may lose a driver.                                             *)
LEMMA IdlePrinted ==
  ASSUME IInv, roots = << >>, dep_wire = {}, call \in Calls, NEW k \in 1 .. call,
         LosesNothing(k, 1 .. call)
  PROVE  ConeOf(k) \subseteq fin_cell
<1> DEFINE ws == {Sig(k)}
           S == fin_cell \cap Cone(ws)
<1>1. BottomLost
  BY IdleBottom
<1>2. net \in Netlists /\ fin_cell \in SUBSET Cells
  BY DEF IInv, Types
<1>3. DriversOf(ws) = Roots(k)
  BY DEF DriversOf, Roots, Sig
<1>4. \A j \in 1 .. call : \A c \in Roots(j) \cap Cone(ws) : MayLose(c) = {}
  BY DEF LosesNothing, Sig
<1> HIDE DEF ws
<1>5. /\ Cone(ws) \in SUBSET Cells /\ DriversOf(ws) \subseteq Cone(ws)
      /\ \A d \in Cone(ws) : DriversOf(Inputs(d) \cap net.auto) \subseteq Cone(ws)
  BY <1>2, ConeClosed
<1>6. DriversOf(ws) \subseteq S
  BY <1>1, <1>3, <1>5 DEF BottomLost
<1>7. ASSUME NEW d \in S PROVE DriversOf(Inputs(d) \cap net.auto) \subseteq S
  <2>1. Lacks(d) = {}
    BY <1>1, <1>4, <1>7 DEF BottomLost
  <2> QED
    BY <1>5, <1>7, <2>1 DEF Lacks
<1>8. S \in SUBSET Cells
  BY <1>2
<1> HIDE DEF S
<1>9. Cone(ws) \subseteq S
  BY <1>6, <1>7, <1>8, ConeLeast
<1> QED
  BY <1>9 DEF S, ws, ConeOf

(* A text goes to its files, and the next call begins.                     *)
LEMMA EndInv == ASSUME IInv, EndCall PROVE IInv'
<1> USE DEF IInv
<1>1. /\ roots = << >> /\ dep_wire = {} /\ call \in Calls /\ call' = call + 1 /\ text' = Blank
      /\ roots' = IF call < Len(net.asked) THEN Drivers(net.asked[call + 1].sig) ELSE << >>
      /\ net' = net /\ dep_cell' = dep_cell /\ dep_wire' = dep_wire /\ fin_cell' = fin_cell
      /\ DOMAIN file' = Files
      /\ \A f \in Files :
           /\ f \in For(call) => file'[f] = [asked |-> file[f].asked \cup {Sig(call)},
                                             cells |-> file[f].cells \cup ToSet(text.cells),
                                             decl |-> file[f].decl \cup ToSet(text.decl)]
           /\ f \notin For(call) => file'[f] = file[f]
  BY DEF EndCall, For, Sig
<1>2. PICK k : k = call
  OBVIOUS
<1>3. /\ Cells' = Cells /\ Calls' = Calls /\ Files' = Files
      /\ \A x : Needs(x)' = Needs(x) /\ Named(x)' = Named(x)
      /\ \A j : /\ Tops(j)' = Tops(j) /\ ConeOf(j)' = ConeOf(j)
                /\ For(j)' = For(j) /\ Sig(j)' = Sig(j)
      /\ \A x, f, j : Elsewhere(x, f, j)' <=> Elsewhere(x, f, j)
      /\ \A x : MayLose(x)' = MayLose(x)
      /\ \A j : Clean(j)' <=> Clean(j)
  BY <1>1, SameNet
<1>4. /\ Calls = 1 .. Len(net.asked) /\ Len(net.asked) \in Nat \ {0} /\ k \in Calls /\ call' = k + 1
      /\ net \in Netlists
  BY <1>1, <1>2, NetOf DEF Types
<1>5. /\ k + 1 \in Calls => roots' = Tops(k + 1)
      /\ k + 1 \notin Calls => roots' = << >>
  BY <1>1, <1>2, <1>4 DEF Tops, Sig
<1>6. dep_cell = << >> /\ ToSet(<< >>) = {} /\ << >> \in Seq(Cells) /\ << >> \in Seq(net.auto)
  BY <1>1 DEF Types, ToSet
<1>7. text'.cells = << >> /\ text'.decl = << >> /\ text' \in [cells : Seq(Cells), decl : Seq(net.auto)]
  BY <1>1, <1>6 DEF Blank
<1>8. Tops(call)' = Tops(k + 1)
  BY <1>1, <1>2 DEF Tops, Sig, Drivers
<1>9. ASSUME NEW f \in Files
      PROVE  /\ file'[f] \in [asked : SUBSET DOMAIN net.drivers, cells : SUBSET Cells, decl : SUBSET net.auto]
             /\ f \in For(k) => /\ file'[f].asked = file[f].asked \cup {Sig(k)}
                                /\ file'[f].cells = file[f].cells \cup ToSet(text.cells)
                                /\ file'[f].decl = file[f].decl \cup ToSet(text.decl)
             /\ f \notin For(k) => file'[f] = file[f]
  <2>1. file[f] \in [asked : SUBSET DOMAIN net.drivers, cells : SUBSET Cells, decl : SUBSET net.auto]
    BY DEF Types
  <2>2. Sig(k) \in DOMAIN net.drivers /\ ToSet(text.cells) \subseteq Cells /\ ToSet(text.decl) \subseteq net.auto
    BY <1>4, NetOf, ElementsIn DEF Types
  <2>3. CASE f \in For(k)
    BY <1>1, <1>2, <2>1, <2>2, <2>3
  <2>4. CASE f \notin For(k)
    BY <1>1, <1>2, <2>1, <2>4
  <2> QED
    BY <2>3, <2>4
<1>10. Types'
  <2>1. roots' \in Seq(Cells)
    BY <1>4, <1>5, <1>6, NetOf DEF Tops
  <2>2. call' \in 1 .. Len(net.asked) + 1
    BY <1>4
  <2>3. file' \in [Files -> [asked : SUBSET DOMAIN net.drivers, cells : SUBSET Cells, decl : SUBSET net.auto]]
    <3>1. file' = [f \in Files |-> file'[f]]
      BY DEF EndCall
    <3> QED
      BY <1>9, <3>1
  <2>4. call' \notin Calls => roots' = << >>
    BY <1>4, <1>5
  <2> QED
    BY <1>1, <1>3, <1>7, <2>1, <2>2, <2>3, <2>4 DEF Types
<1>11. InputsInv'
  <2>1. \A x : Due(x)' = Due(x)
    BY <1>1, <1>3 DEF Due
  <2> QED
    BY <1>1, <2>1, InputsKept
<1>12. RootsInv'
  <2>1. \A j \in Calls : j < k + 1 => ToSet(Tops(j)) \subseteq fin_cell
    <3> TAKE j \in Calls
    <3> HAVE j < k + 1
    <3>1. CASE j < k
      BY <1>2, <3>1 DEF RootsInv
    <3>2. CASE j = k
      BY <1>1, <1>2, <1>6, <3>2 DEF RootsInv
    <3> QED
      BY <1>4, <3>1, <3>2
  <2>2. call' \in Calls => roots' = Tops(k + 1)
    BY <1>4, <1>5
  <2> QED
    BY <1>1, <1>3, <1>4, <1>8, <2>1, <2>2 DEF RootsInv
<1>13. TextInv'
  <2>1. ToSet(text'.cells) = {} /\ ToSet(dep_cell') = {}
    BY <1>1, <1>6, <1>7
  <2> QED
    BY <1>7, <2>1 DEF TextInv
<1>14. OnceInv'
  <2>1. IsInjective(<< >>)
    BY DEF IsInjective
  <2>2. call' \in Calls => roots' = Tops(k + 1)
    BY <1>4, <1>5
  <2>3. Blank' = Blank
    BY DEF Blank
  <2> QED
    BY <1>1, <1>3, <1>7, <1>8, <2>1, <2>2, <2>3 DEF OnceInv
<1>15. ASSUME NEW f \in Files
       PROVE  /\ file'[f].asked = {Sig(i) : i \in {j \in Calls : j < k + 1 /\ f \in For(j)}}
              /\ \A c \in file'[f].cells : Named(c) \subseteq file'[f].decl
              /\ \A c \in fin_cell : c \in file'[f].cells \/ Elsewhere(c, f, k + 1)
              /\ \A j \in Calls : j < k + 1 /\ f \in For(j) /\ Clean(j) =>
                   \A c \in ConeOf(j) : c \in file'[f].cells \/ Elsewhere(c, f, j)
  <2>1. /\ file[f].asked = {Sig(i) : i \in {j \in Calls : j < k /\ f \in For(j)}}
        /\ \A c \in file[f].cells : Named(c) \subseteq file[f].decl
        /\ \A c \in fin_cell : c \in file[f].cells \/ c \in ToSet(text.cells) \/ Elsewhere(c, f, k)
        /\ \A j \in Calls : j < k /\ f \in For(j) /\ Clean(j) =>
             \A c \in ConeOf(j) : c \in file[f].cells \/ Elsewhere(c, f, j)
    BY <1>2 DEF FileInv
  <2>2. \A j \in Calls : j < k + 1 <=> j < k \/ j = k
    BY <1>4
  <2>3. \A c : Elsewhere(c, f, k) => Elsewhere(c, f, k + 1)
    BY <2>2 DEF Elsewhere
  <2>4. /\ \A c \in ToSet(text.cells) : Named(c) \subseteq ToSet(text.decl) /\ c \in Printed(k)
        /\ ToSet(text.cells) \subseteq fin_cell
    BY <1>1, <1>2 DEF TextInv
  <2>5. Clean(k) => ConeOf(k) \subseteq fin_cell
    BY <1>1, <1>2, <1>4, IdlePrinted DEF Clean
  <2>6. CASE f \in For(k)
    <3>1. /\ file'[f].asked = file[f].asked \cup {Sig(k)}
          /\ file'[f].cells = file[f].cells \cup ToSet(text.cells)
          /\ file'[f].decl = file[f].decl \cup ToSet(text.decl)
      BY <1>9, <2>6
    <3>2. {j \in Calls : j < k + 1 /\ f \in For(j)} = {j \in Calls : j < k /\ f \in For(j)} \cup {k}
      BY <1>4, <2>2, <2>6
    <3>3. file'[f].asked = {Sig(i) : i \in {j \in Calls : j < k + 1 /\ f \in For(j)}}
      BY <2>1, <3>1, <3>2
    <3>4. \A c \in file'[f].cells : Named(c) \subseteq file'[f].decl
      BY <2>1, <2>4, <3>1
    <3>5. \A c \in fin_cell : c \in file'[f].cells \/ Elsewhere(c, f, k)
      BY <2>1, <3>1
    <3>6. \A j \in Calls : j < k + 1 /\ f \in For(j) /\ Clean(j) =>
            \A c \in ConeOf(j) : c \in file'[f].cells \/ Elsewhere(c, f, j)
      BY <2>1, <2>2, <2>5, <3>1, <3>5
    <3> QED
      BY <2>3, <3>3, <3>4, <3>5, <3>6
  <2>7. CASE f \notin For(k)
    <3>1. file'[f] = file[f]
      BY <1>9, <2>7
    <3>2. {j \in Calls : j < k + 1 /\ f \in For(j)} = {j \in Calls : j < k /\ f \in For(j)}
      BY <2>2, <2>7
    <3>3. \A c \in ToSet(text.cells) : Elsewhere(c, f, k + 1)
      BY <1>4, <2>4, <2>7, k < k + 1 DEF Elsewhere
    <3>4. \A c \in fin_cell : c \in file'[f].cells \/ Elsewhere(c, f, k + 1)
      BY <2>1, <2>3, <3>1, <3>3
    <3>5. \A j \in Calls : j < k + 1 /\ f \in For(j) => j < k
      BY <2>2, <2>7
    <3> QED
      BY <2>1, <3>1, <3>2, <3>4, <3>5
  <2> QED
    BY <2>6, <2>7
<1>16. FileInv'
  <2>1. \A c, f : Elsewhere(c, f, call)' <=> Elsewhere(c, f, k + 1)
    BY <1>1, <1>2 DEF Elsewhere, Printed, Behind, Cells, DriversOf, Drivers, WiresOf, For, Calls
  <2> SUFFICES ASSUME NEW f \in Files
               PROVE  /\ file'[f].asked = {Sig(i) : i \in {j \in Calls : j < k + 1 /\ f \in For(j)}}
                      /\ \A c \in file'[f].cells : Named(c) \subseteq file'[f].decl
                      /\ \A c \in fin_cell : c \in file'[f].cells \/ Elsewhere(c, f, k + 1)
                      /\ \A j \in Calls : j < k + 1 /\ f \in For(j) /\ Clean(j) =>
                           \A c \in ConeOf(j) : c \in file'[f].cells \/ Elsewhere(c, f, j)
    BY <1>1, <1>3, <1>4, <2>1 DEF FileInv
  <2> QED
    BY <1>15
<1> QED
  BY <1>10, <1>11, <1>12, <1>13, <1>14, <1>16

(* The invariant holds in every state of every behaviour.                  *)
THEOREM Invariant == Spec => []IInv
<1>1. Init => IInv
  BY InitInv
<1>2. IInv /\ [Next]_vars => IInv'
  <2> SUFFICES ASSUME IInv, [Next]_vars PROVE IInv'
    OBVIOUS
  <2>1. CASE DumpRoot
    BY <2>1, RootInv
  <2>2. CASE DumpNext
    BY <2>2, NextInv
  <2>3. CASE SkipNext
    BY <2>3, SkipInv
  <2>4. CASE DumpWires
    BY <2>4, WiresInv
  <2>5. CASE EndCall
    BY <2>5, EndInv
  <2>6. CASE UNCHANGED vars
    <3>1. /\ net' = net /\ call' = call /\ roots' = roots /\ dep_cell' = dep_cell /\ dep_wire' = dep_wire
          /\ fin_cell' = fin_cell /\ text' = text /\ file' = file
      BY <2>6 DEF vars
    <3>2. /\ Cells' = Cells /\ Calls' = Calls /\ Files' = Files
          /\ \A x : Needs(x)' = Needs(x) /\ Named(x)' = Named(x)
          /\ \A k : /\ Tops(k)' = Tops(k) /\ ConeOf(k)' = ConeOf(k)
                    /\ For(k)' = For(k) /\ Sig(k)' = Sig(k)
          /\ \A x, f, j : Elsewhere(x, f, j)' <=> Elsewhere(x, f, j)
          /\ \A x : MayLose(x)' = MayLose(x)
          /\ \A j : Clean(j)' <=> Clean(j)
      BY <3>1, SameNet
    <3>3. /\ Tops(call)' = Tops(call) /\ Printed(call)' = Printed(call)
          /\ \A x, f : Elsewhere(x, f, call)' <=> Elsewhere(x, f, call)
      BY <3>1, SameCall
    <3>4. Types' /\ InputsInv'
      BY <3>1, <3>2 DEF IInv, Types, InputsInv, Due
    <3>5. RootsInv' /\ TextInv'
      BY <3>1, <3>2, <3>3 DEF IInv, RootsInv, TextInv
    <3>6. OnceInv' /\ FileInv'
      BY <3>1, <3>2, <3>3 DEF IInv, OnceInv, FileInv, Blank
    <3> QED
      BY <3>4, <3>5, <3>6 DEF IInv
  <2> QED
    BY <2>1, <2>2, <2>3, <2>4, <2>5, <2>6 DEF Next
<1> QED
  BY <1>1, <1>2, PTL DEF Spec

-----------------------------------------------------------------------------
(* What the runs check.                                                    *)

(* Only cells of the netlist are on the stack or written (dep_cell,        *)
(* fin_cell), and only wires without an hdlname are declared.              *)
THEOREM TypeCorrect == Spec => []TypeOK
<1>1. IInv => TypeOK
  <2> SUFFICES ASSUME IInv PROVE TypeOK
    OBVIOUS
  <2>1. ToSet(roots) \subseteq Cells /\ ToSet(dep_cell) \subseteq Cells /\ ToSet(text.decl) \subseteq net.auto
    BY ElementsIn DEF IInv, Types
  <2> QED
    BY <2>1 DEF IInv, Types, TypeOK
<1> QED
  BY <1>1, Invariant, PTL

(* When get_sig_verilog returns, what feeds the cells printed so far has   *)
(* been printed as well, but for the one driver that a root leaves at the  *)
(* bottom of the stack: all logic behind a signal, if no root among it     *)
(* prints an input first.  A text of a signal with one driver prints no    *)
(* cell and declares no wire twice.                                        *)
THEOREM ConesCorrect == Spec => []ConesPrinted
<1>1. IInv => ConesPrinted
  <2> SUFFICES ASSUME IInv, roots = << >>, dep_wire = {}, call \in Calls
               PROVE  BottomLost /\ ConesWhole /\ PrintedOnce
    BY DEF ConesPrinted
  <2>1. BottomLost
    BY IdleBottom
  <2>2. \A k \in 1 .. call : LosesNothing(k, 1 .. call) => ConeOf(k) \subseteq fin_cell
    BY IdlePrinted
  <2>3. ConesWhole
    BY <2>2 DEF ConesWhole, ConeOf, Sig
  <2>4. PrintedOnce
    BY DEF PrintedOnce, IInv, OnceInv, Tops, Sig
  <2> QED
    BY <2>1, <2>3, <2>4
<1> QED
  BY <1>1, Invariant, PTL

(* In the end each file declares the wires that it names, and it has the   *)
(* logic behind its signals unless one of their roots may lose a driver or *)
(* a text for other files printed some of it before: nothing but the bottom*)
(* of a root's stack and fin_cell takes a cell from a file.                *)
THEOREM FilesCorrect == Spec => []FilesComplete
<1>1. IInv => FilesComplete
  <2> SUFFICES ASSUME IInv, Ended, NEW f \in Files
               PROVE  LET mine == {k \in Calls : f \in net.asked[k].files}
                          others == {k \in Calls \ mine : \E j \in mine : k < j}
                      IN /\ (UNION {WiresOf(c) : c \in file[f].cells}) \cap net.auto \subseteq file[f].decl
                         /\ /\ \A k \in mine : \A c \in Roots(k) : MayLose(c) = {}
                            /\ \A k \in others : Printed(k) \cap Cone(file[f].asked) = {}
                            => Cone(file[f].asked) \subseteq file[f].cells
    BY DEF FilesComplete
  <2> DEFINE mine == {k \in Calls : f \in For(k)}
  <2>1. \A c \in file[f].cells : Named(c) \subseteq file[f].decl
    BY DEF IInv, FileInv
  <2>2. (UNION {WiresOf(c) : c \in file[f].cells}) \cap net.auto \subseteq file[f].decl
    BY <2>1 DEF Named
  <2>3. ASSUME \A k \in mine : \A c \in Roots(k) : MayLose(c) = {},
               \A k \in Calls \ mine : (\E j \in mine : k < j) => Printed(k) \cap Cone(file[f].asked) = {},
               NEW c \in Cone(file[f].asked)
        PROVE  c \in file[f].cells
    <3>1. PICK w \in file[f].asked : c \in Cone({w})
      BY ConeOfMany DEF IInv, Types
    <3>2. PICK j \in Calls : j < call /\ f \in For(j) /\ w = Sig(j)
      BY DEF IInv, FileInv
    <3>3. Clean(j)
      <4> SUFFICES ASSUME NEW k \in 1 .. j, NEW d \in Roots(k) \cap Cone({w})
                   PROVE  MayLose(d) = {}
        BY <3>2 DEF Clean, LosesNothing, Sig
      <4>1. k \in Calls /\ (k # j => k < j) /\ j \in mine
        BY <3>2, NetOf DEF IInv, Types
      <4>2. d \in Printed(k) /\ d \in Cone(file[f].asked)
        <5>1. net \in Netlists
          BY DEF IInv, Types
        <5>2. Cone({w}) \subseteq Cone(file[f].asked)
          BY <5>1, ConeOfOne
        <5>3. Roots(k) \subseteq Printed(k)
          BY <5>1, PrintedClosed DEF Roots, Sig
        <5> QED
          BY <5>2, <5>3
      <4>3. k \in mine
        BY <2>3, <4>1, <4>2
      <4> QED
        BY <2>3, <4>3
    <3>4. c \in file[f].cells \/ Elsewhere(c, f, j)
      BY <3>1, <3>2, <3>3 DEF IInv, FileInv, ConeOf
    <3>5. ~ Elsewhere(c, f, j)
      BY <2>3, <3>2 DEF Elsewhere
    <3> QED
      BY <3>4, <3>5
  <2> QED
    BY <2>2, <2>3 DEF For
<1> QED
  BY <1>1, Invariant, PTL
=============================================================================
