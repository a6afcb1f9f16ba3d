--------------------------- MODULE IntraHbiProofs ---------------------------
(***************************************************************************)
(* The intra-instruction phase is right for every netlist and whatever the *)
(* checker answers, however much of its answer is there when it is read:   *)
(* every element is asked about, each path is cut into the stages that the *)
(* distances say, it holds every updated element that the data flow from   *)
(* the instruction register reaches, and the design handed on is one.      *)
(* MCIntraHbi checks the same invariants on small netlists.                *)
(***************************************************************************)
EXTENDS IntraHbi, FiniteSetTheorems, SequenceTheorems, TLAPS

Phases == {"per_s", "emit", "wait", "lines", "build", "anchor", "deps", "done", "abort"}

(* The rows are numbered, name the elements of the assertions, and speak   *)
(* of every element once.                                                  *)
AskedSoFar == IF phase = "per_s" THEN Asked \ todo ELSE Asked
RowsOf == {ever_update[k].elem : k \in DOMAIN ever_update}
Rows == [elem : Asked, at : [pcr : 0 .. net.pcrs - 1, after : BOOLEAN]]
Emitted == [sv |-> ever_update, txt |-> meta_list, eventual |-> eventual]
AskInv ==
  /\ net \in Netlists /\ phase \in Phases /\ idx \in Instns
  /\ ever_update \in Seq(Rows)
  /\ meta_list \in Seq([seq : Nat, elem : Asked]) /\ eventual \in Seq(Asked)
  /\ Len(meta_list) = Len(ever_update)
  /\ \A k \in 1 .. Len(meta_list) : meta_list[k] = [seq |-> k - 1, elem |-> ever_update[k].elem]
  /\ RowsOf = AskedSoFar /\ Len(ever_update) = Cardinality(AskedSoFar)
  /\ \A n \in AskedSoFar : Remote(n) => \E k \in 1 .. Len(eventual) : eventual[k] = n
  /\ phase = "per_s" => idx = 1 /\ todo \subseteq Asked
  /\ files \in [Instns -> {NoFile, Emitted}]
  /\ phase = "per_s" => \A i \in Instns : files[i] = NoFile

(* What can be read of an answer are rows in their order, and what is cut  *)
(* belongs to one more row.                                                *)
ResultFiles ==
  {r \in [lines : Seq([elem : Asked, updated : BOOLEAN]), cut : Cuts] :
     /\ Len(r.lines) <= Len(meta_list)
     /\ r.cut \in {"name", "after_name", "answer"} => Len(r.lines) < Len(meta_list)}

(* What is called updated was reported, for the instruction types read so  *)
(* far; the others have neither updates nor a path.                        *)
Fresh(i) == phase \in {"per_s", "emit"} \/ i > idx \/ (i = idx /\ phase = "wait")
ReadInv ==
  /\ resfile \in [Instns -> ResultFiles \cup {NoFile}]
  /\ phase = "per_s" => \A i \in Instns : resfile[i] = NoFile
  /\ \A i \in Instns : ~ Fresh(i) => resfile[i] # NoFile
  /\ line \in Nat /\ (phase = "lines" => line <= Len(Answers))
  /\ updated \in [Instns -> SUBSET Asked]
  /\ \A i \in Instns : Fresh(i) => updated[i] = {}
  /\ \A i \in Instns : \A n \in updated[i] : Reported(i, n)

(* What stage t + 1 of the path has to be: the elements below stage t.     *)
BelowAll(i, ns) == UNION {Below(i, n) : n \in ns}
NextStage(i, t) == IF t = 0 THEN Below(i, net.instn) ELSE BelowAll(i, seq_uhb[i][t])
AtStage(i, ns, t) == \A n \in ns : n \in updated[i] /\ net.diff[n] = t

(* The stages of a path are the levels of the walk, and its last stage     *)
(* has nothing below it.                                                   *)
LevelsInv ==
  /\ seq_uhb \in [Instns -> Seq(SUBSET Asked)]
  /\ \A i \in Instns : Fresh(i) \/ (i = idx /\ phase \in {"lines", "build"}) => seq_uhb[i] = << >>
  /\ \A i \in Instns : \A t \in 1 .. Len(seq_uhb[i]) :
       /\ seq_uhb[i][t] = NextStage(i, t - 1) /\ seq_uhb[i][t] # {}
       /\ AtStage(i, seq_uhb[i][t], t)
  /\ \A i \in Instns : Built(i) \/ (i = idx /\ phase = "deps") => NextStage(i, Len(seq_uhb[i])) = {}

(* The walk has the level under way in cur_pool; what it has seen of a     *)
(* later one is in next_pool.                                              *)
Depth == Len(seq_uhb[idx])
WalkInv ==
  /\ todo \cup visited \cup cur_pool \cup next_pool \subseteq Asked
  /\ phase = "anchor" =>
       /\ cur_pool = NextStage(idx, Depth) /\ todo \subseteq cur_pool
       /\ AtStage(idx, cur_pool, Depth + 1)
       /\ next_pool = BelowAll(idx, cur_pool \ todo)
       /\ \A v \in visited : net.diff[v] <= Depth + 1 \/ v \in next_pool

AccessInv ==
  /\ DOMAIN loc_per_reg = Instns
  /\ \A i \in Instns : Built(i) => loc_per_reg[i] = Accesses(i)

IInv == AskInv /\ ReadInv /\ LevelsInv /\ WalkInv /\ AccessInv

-----------------------------------------------------------------------------
(* What is known of a netlist (main.cc:95-136). *)
LEMMA NetFacts ==
  ASSUME net \in Netlists
  PROVE  /\ net.instns \in Nat \ {0} /\ net.pcrs \in Nat \ {0}
         /\ net.diff \in [Elements -> Int] /\ net.instn \in Elements
         /\ Asked \subseteq Elements /\ net.instn \notin Asked
         /\ IsFiniteSet(Asked)
         /\ net.diff[net.instn] = 0 /\ \A n \in Asked : net.diff[n] \in Nat \ {0}
<1>1. /\ net.instns \in Nat \ {0} /\ net.pcrs \in Nat \ {0}
      /\ net.diff \in [Elements -> Int] /\ net.instn \in Elements
      /\ net.diff[net.instn] = 0 /\ IsFiniteSet(Elements)
  BY NetlistsAssumption DEF Elements
<1>2. Asked \subseteq Elements /\ \A n \in Asked : net.diff[n] > 0
  BY DEF Asked
<1>3. IsFiniteSet(Asked)
  BY <1>1, <1>2, FS_Subset
<1> QED
  BY <1>1, <1>2, <1>3

(* A new row at the end of a sequence (dfg.h:177-198). *)
LEMMA AppendFacts ==
  ASSUME NEW S, NEW s \in Seq(S), NEW e \in S
  PROVE  /\ Append(s, e) \in Seq(S)
         /\ Len(s) \in Nat /\ Len(Append(s, e)) = Len(s) + 1
         /\ \A k \in 1 .. Len(s) : Append(s, e)[k] = s[k]
         /\ Append(s, e)[Len(s) + 1] = e
         /\ DOMAIN s = 1 .. Len(s) /\ DOMAIN Append(s, e) = 1 .. Len(s) + 1
BY AppendProperties, LenProperties

(* The PC register that an assertion watches exists (dfg.h:86-89). *)
LEMMA PcrFacts ==
  ASSUME net \in Netlists, NEW n \in Asked
  PROVE  Pcr(Watched(n)) \in [pcr : 0 .. net.pcrs - 1, after : BOOLEAN]
<1>1. Watched(n) \in Nat /\ net.pcrs \in Nat \ {0}
  BY NetFacts DEF Watched
<1> QED
  BY <1>1 DEF Pcr

(* Nothing has been asked about yet. *)
LEMMA InitAsk == Init => AskInv
<1> SUFFICES ASSUME Init PROVE AskInv
  OBVIOUS
<1> USE DEF Init
<1>1. idx \in Instns /\ Instns = 1 .. net.instns
  BY NetFacts DEF Instns
<1>2. RowsOf = {} /\ AskedSoFar = {}
  BY DEF RowsOf, AskedSoFar
<1>3. Cardinality(AskedSoFar) = 0 /\ Len(ever_update) = 0
  BY <1>2, FS_EmptySet
<1>4. files \in [Instns -> {NoFile, Emitted}]
  OBVIOUS
<1>5. /\ ever_update \in Seq(Rows)
      /\ meta_list \in Seq([seq : Nat, elem : Asked]) /\ eventual \in Seq(Asked)
      /\ Len(meta_list) = Len(ever_update) /\ Len(meta_list) = 0
  BY EmptySeq
<1> QED
  BY <1>1, <1>2, <1>3, <1>4, <1>5 DEF AskInv, Phases

(* One element is asked about: the row and the assertion get the same      *)
(* number (dfg.h:82-201).                                                  *)
LEMMA AskStep == ASSUME AskInv, NEW n \in todo, Ask(n) PROVE AskInv'
<1> USE DEF Ask
<1>1. /\ net' = net /\ Asked' = Asked /\ Instns' = Instns /\ Rows' = Rows
      /\ phase = "per_s" /\ phase' = "per_s"
      /\ n \in Asked /\ n \notin AskedSoFar /\ AskedSoFar' = AskedSoFar \cup {n}
      /\ AskedSoFar \subseteq Asked /\ net \in Netlists
  BY DEF AskInv, AskedSoFar, Asked, Elements, Instns, Rows
<1> DEFINE row == [elem |-> n, at |-> Pcr(Watched(n))]
           meta == [seq |-> Len(meta_list), elem |-> n]
<1>2. row \in Rows
  BY <1>1, PcrFacts DEF Rows
<1>3. /\ ever_update \in Seq(Rows) /\ Len(ever_update) \in Nat
      /\ meta_list \in Seq([seq : Nat, elem : Asked]) /\ Len(meta_list) = Len(ever_update)
      /\ eventual \in Seq(Asked)
  BY LenProperties DEF AskInv
<1>4. /\ ever_update' \in Seq(Rows) /\ Len(ever_update') = Len(ever_update) + 1
      /\ \A k \in 1 .. Len(ever_update) : ever_update'[k] = ever_update[k]
      /\ ever_update'[Len(ever_update) + 1] = row
      /\ DOMAIN ever_update = 1 .. Len(ever_update)
      /\ DOMAIN ever_update' = 1 .. Len(ever_update) + 1
  BY <1>2, <1>3, AppendFacts
<1>5. meta \in [seq : Nat, elem : Asked]
  BY <1>1, <1>3
<1>6. /\ meta_list' \in Seq([seq : Nat, elem : Asked]) /\ Len(meta_list') = Len(meta_list) + 1
      /\ \A k \in 1 .. Len(meta_list) : meta_list'[k] = meta_list[k]
      /\ meta_list'[Len(meta_list) + 1] = meta
  BY <1>3, <1>5, AppendFacts
<1>7. \A k \in 1 .. Len(meta_list') : meta_list'[k] = [seq |-> k - 1, elem |-> ever_update'[k].elem]
  <2> SUFFICES ASSUME NEW k \in 1 .. Len(meta_list')
               PROVE  meta_list'[k] = [seq |-> k - 1, elem |-> ever_update'[k].elem]
    OBVIOUS
  <2>1. CASE k \in 1 .. Len(meta_list)
    BY <2>1, <1>3, <1>4, <1>6 DEF AskInv
  <2>2. CASE k = Len(meta_list) + 1
    BY <2>2, <1>3, <1>4, <1>6
  <2> QED
    BY <2>1, <2>2, <1>3, <1>6
<1>8. RowsOf' = RowsOf \cup {n}
  BY <1>3, <1>4 DEF RowsOf
<1>9. RowsOf' = AskedSoFar' /\ Len(ever_update') = Cardinality(AskedSoFar')
  <2>1. IsFiniteSet(AskedSoFar)
    BY <1>1, NetFacts, FS_Subset
  <2>2. Cardinality(AskedSoFar \cup {n}) = Cardinality(AskedSoFar) + 1
    BY <2>1, <1>1, FS_AddElement
  <2> QED
    BY <2>2, <1>1, <1>4, <1>8 DEF AskInv
<1>10. /\ eventual' \in Seq(Asked) /\ Len(eventual) \in Nat
       /\ \A k \in 1 .. Len(eventual) : k \in 1 .. Len(eventual') /\ eventual'[k] = eventual[k]
       /\ Remote(n) => \E k \in 1 .. Len(eventual') : eventual'[k] = n
  <2>1. CASE Remote(n)
    <3>1. /\ eventual' \in Seq(Asked) /\ Len(eventual) \in Nat /\ Len(eventual') = Len(eventual) + 1
          /\ \A k \in 1 .. Len(eventual) : eventual'[k] = eventual[k]
          /\ eventual'[Len(eventual) + 1] = n
      BY <2>1, <1>1, <1>3, AppendFacts
    <3> QED
      BY <3>1
  <2>2. CASE ~ Remote(n)
    BY <2>2, <1>3, LenProperties
  <2> QED
    BY <2>1, <2>2
<1>11. \A m \in AskedSoFar' : Remote(m)' => \E k \in 1 .. Len(eventual') : eventual'[k] = m
  <2> SUFFICES ASSUME NEW m \in AskedSoFar \cup {n}, Remote(m)
               PROVE  \E k \in 1 .. Len(eventual') : eventual'[k] = m
    BY <1>1 DEF Remote, IsMem
  <2>1. CASE m = n
    BY <2>1, <1>10
  <2>2. CASE m # n
    BY <2>2, <1>10 DEF AskInv
  <2> QED
    BY <2>1, <2>2
<1>12. /\ files' \in [Instns -> {NoFile, Emitted'}]
       /\ \A i \in Instns : files'[i] = NoFile
  BY <1>1 DEF AskInv
<1> QED
  BY <1>1, <1>4, <1>6, <1>7, <1>9, <1>10, <1>11, <1>12 DEF AskInv

(* The files of an instruction type hold everything that was asked         *)
(* (dfg.h:204-247).                                                        *)
LEMMA EmitStep == AskInv /\ Emit => AskInv'
<1> SUFFICES ASSUME AskInv, Emit PROVE AskInv'
  OBVIOUS
<1> USE DEF Emit
<1>a. /\ net' = net /\ Asked' = Asked /\ Instns' = Instns /\ Rows' = Rows /\ Emitted' = Emitted
      /\ RowsOf' = RowsOf /\ phase' \in {"emit", "wait"} /\ net \in Netlists
  BY DEF AskInv, RowsOf, Asked, Elements, Instns, Rows, Emitted
<1>b. AskedSoFar = Asked /\ AskedSoFar' = Asked
  BY <1>a DEF AskedSoFar
<1>1. /\ net' = net /\ Asked' = Asked /\ Instns' = Instns /\ Rows' = Rows /\ Emitted' = Emitted
      /\ RowsOf' = RowsOf /\ AskedSoFar' = AskedSoFar
      /\ phase' \in {"emit", "wait"} /\ net \in Netlists
  BY <1>a, <1>b
<1>2. idx' \in Instns
  BY <1>1, NetFacts DEF AskInv, Instns
<1>3. files' \in [Instns -> {NoFile, Emitted}]
  BY DEF AskInv, Emitted
<1>4. \A n : Remote(n)' = Remote(n)
  BY <1>1 DEF Remote, IsMem
<1> QED
  BY <1>1, <1>2, <1>3, <1>4 DEF AskInv, Phases

(* Nothing else touches the rows or the files. *)
LEMMA AskRest ==
  ASSUME AskInv, UNCHANGED <<net, input>>, phase # "per_s", phase' \in Phases \ {"per_s"}, idx' \in Instns
  PROVE  AskInv'
<1>1. /\ Asked' = Asked /\ Instns' = Instns /\ Rows' = Rows /\ Emitted' = Emitted
      /\ AskedSoFar' = AskedSoFar /\ RowsOf' = RowsOf /\ \A n : Remote(n)' = Remote(n)
  BY DEF input, AskedSoFar, RowsOf, Asked, Elements, Instns, Rows, Emitted, Remote, IsMem
<1> QED
  BY <1>1 DEF AskInv, input

(* Every step keeps rows and assertions together. *)
LEMMA AskNext == AskInv /\ [Next]_vars => AskInv'
<1> SUFFICES ASSUME AskInv, [Next]_vars PROVE AskInv'
  OBVIOUS
<1> USE DEF Phases
<1>1. ASSUME NEW n \in todo, Ask(n) PROVE AskInv'
  BY <1>1, AskStep
<1>2. CASE Emit
  BY <1>2, EmitStep
<1>3. ASSUME NEW n \in todo, Anchor(n) PROVE AskInv'
  BY <1>3, AskRest DEF Anchor, AskInv, Instns
<1>4. CASE Open
  BY <1>4, AskRest DEF Open, AskInv, Instns
<1>5. CASE ReadLine
  BY <1>5, AskRest DEF ReadLine, AskInv, Instns
<1>6. CASE EndOfLines \/ Abort
  BY <1>6, AskRest DEF EndOfLines, Abort, AskInv, Instns
<1>7. CASE Build
  BY <1>7, AskRest DEF Build, AskInv, Instns
<1>8. CASE NextLevel
  BY <1>8, AskRest DEF NextLevel, AskInv, Instns
<1>9. CASE Deps
  <2>1. idx' \in Instns
    BY <1>9, NetFacts DEF Deps, AskInv, Instns
  <2> QED
    BY <1>9, <2>1, AskRest DEF Deps
<1>10. ASSUME NEW i \in Instns, WriteResults(i) PROVE AskInv'
  BY <1>10, AskRest DEF WriteResults, AskInv, Instns
<1>11. CASE UNCHANGED vars
  <2>1. CASE phase = "per_s"
    <3>1. /\ UNCHANGED <<net, phase, todo, idx, ever_update, meta_list, eventual, files>>
          /\ Asked' = Asked /\ Instns' = Instns /\ Rows' = Rows /\ Emitted' = Emitted
          /\ RowsOf' = RowsOf /\ \A n : Remote(n)' = Remote(n)
      BY <1>11 DEF vars, input, RowsOf, Asked, Elements, Instns, Rows, Emitted, Remote, IsMem
    <3>2. AskedSoFar' = AskedSoFar
      BY <3>1 DEF AskedSoFar
    <3> QED
      BY <3>1, <3>2 DEF AskInv
  <2>2. CASE phase # "per_s"
    BY <1>11, <2>2, AskRest DEF vars, AskInv, Instns
  <2> QED
    BY <2>1, <2>2
<1> QED
  BY <1>1, <1>2, <1>3, <1>4, <1>5, <1>6, <1>7, <1>8, <1>9, <1>10, <1>11 DEF Next, Pass, Checker

(* What an instruction type was asked is everything behind the instruction *)
(* register, row by row.                                                   *)
LEMMA AskInvSuffices == AskInv => EveryElementAsked
<1> SUFFICES ASSUME AskInv, NEW i \in Instns, files[i] # NoFile
             PROVE  /\ Len(files[i].sv) = Len(files[i].txt) /\ Len(files[i].sv) = Cardinality(Asked)
                    /\ \A n \in Asked : \E k \in DOMAIN files[i].txt :
                         files[i].txt[k] = [seq |-> k - 1, elem |-> n] /\ files[i].sv[k].elem = n
                    /\ \A n \in Asked : Remote(n) => \E k \in DOMAIN files[i].eventual : files[i].eventual[k] = n
  BY DEF EveryElementAsked
<1>1. files[i] = Emitted
  BY DEF AskInv
<1>2. AskedSoFar = Asked
  BY DEF AskInv, AskedSoFar
<1>3. /\ DOMAIN ever_update = 1 .. Len(ever_update) /\ DOMAIN eventual = 1 .. Len(eventual)
      /\ DOMAIN meta_list = 1 .. Len(ever_update) /\ Len(meta_list) = Len(ever_update)
  BY LenProperties DEF AskInv
<1>4. ASSUME NEW n \in Asked
      PROVE  \E k \in DOMAIN meta_list : meta_list[k] = [seq |-> k - 1, elem |-> n] /\ ever_update[k].elem = n
  <2>1. PICK k \in DOMAIN ever_update : ever_update[k].elem = n
    BY <1>2 DEF AskInv, RowsOf
  <2> QED
    BY <2>1, <1>3 DEF AskInv
<1>5. files[i].sv = ever_update /\ files[i].txt = meta_list /\ files[i].eventual = eventual
  BY <1>1 DEF Emitted
<1>6. \A n \in Asked : Remote(n) => \E k \in DOMAIN eventual : eventual[k] = n
  BY <1>2, <1>3 DEF AskInv
<1>7. Len(ever_update) = Cardinality(Asked)
  BY <1>2 DEF AskInv
<1> QED
  BY <1>3, <1>4, <1>5, <1>6, <1>7

(* Every assertion file holds one assertion and one row for each element   *)
(* behind the instruction register, and one more for each that is of no    *)
(* core (dfg.h:74-247).                                                    *)
THEOREM AskedOfEvery == Spec => []EveryElementAsked
<1>1. AskInv /\ [Next]_vars => AskInv'
  BY AskNext
<1>2. AskInv => EveryElementAsked
  BY AskInvSuffices
<1> QED
  BY InitAsk, <1>1, <1>2, PTL DEF Spec

-----------------------------------------------------------------------------
(* No answer has been read yet. *)
LEMMA InitRead == Init => ReadInv
BY DEF Init, ReadInv, Fresh

(* Steps of the pass that read no answer. *)
LEMMA ReadRest ==
  ASSUME ReadInv, UNCHANGED <<net, meta_list, resfile, line, updated, idx>>,
         phase \notin {"per_s", "emit", "wait"}, phase' \notin {"per_s", "emit", "wait", "lines"}
  PROVE  ReadInv'
<1>1. /\ Instns' = Instns /\ Asked' = Asked /\ ResultFiles' = ResultFiles
      /\ \A i : Fresh(i)' = Fresh(i) /\ \A n : Reported(i, n)' = Reported(i, n)
  BY DEF Instns, Asked, Elements, ResultFiles, Fresh, Reported
<1> QED
  BY <1>1 DEF ReadInv

(* The file is opened: nothing of it has been read (dfg.h:249-263).        *)
LEMMA OpenRead == AskInv /\ ReadInv /\ Open => ReadInv'
<1> SUFFICES ASSUME AskInv, ReadInv, Open PROVE ReadInv'
  OBVIOUS
<1> USE DEF Open
<1>1. /\ Instns' = Instns /\ Asked' = Asked /\ ResultFiles' = ResultFiles
      /\ \A i, n : Reported(i, n)' = Reported(i, n)
  BY DEF Instns, Asked, Elements, ResultFiles, Reported, input
<1>2. idx \in Instns /\ Instns \subseteq Nat
  BY NetFacts DEF AskInv, Instns
<1>3. \A i \in Instns : Fresh(i)' => Fresh(i) /\ i # idx
  BY <1>2 DEF Fresh
<1>4. \A i \in Instns : ~ Fresh(i)' => resfile[i] # NoFile
  BY <1>2 DEF Fresh, ReadInv
<1>5. 0 <= Len(Answers)'
  <2>1. resfile[idx] \in ResultFiles /\ Answers' = Answers
    BY <1>2 DEF ReadInv, Answers
  <2>2. Len(Answers) \in Nat
    BY <2>1, LenProperties DEF Answers, ResultFiles
  <2> QED
    BY <2>1, <2>2
<1> QED
  BY <1>1, <1>2, <1>3, <1>4, <1>5 DEF ReadInv

(* An update that a line reports is an update (dfg.h:265-309). *)
LEMMA ReadLineRead == AskInv /\ ReadInv /\ ReadLine => ReadInv'
<1> SUFFICES ASSUME AskInv, ReadInv, ReadLine PROVE ReadInv'
  OBVIOUS
<1> USE DEF ReadLine
<1>1. /\ Instns' = Instns /\ Asked' = Asked /\ ResultFiles' = ResultFiles /\ Answers' = Answers
      /\ \A i : Fresh(i)' = Fresh(i) /\ \A n : Reported(i, n)' = Reported(i, n)
  BY DEF Instns, Asked, Elements, ResultFiles, Reported, Fresh, Answers, input
<1>2. idx \in Instns /\ ~ Fresh(idx) /\ Instns \subseteq Nat
  BY NetFacts DEF AskInv, Instns, Fresh
<1>3. resfile[idx] \in ResultFiles
  BY <1>2 DEF ReadInv
<1>4. /\ Answers \in Seq([elem : Asked, updated : BOOLEAN]) /\ DOMAIN Answers = 1 .. Len(Answers)
      /\ Len(Answers) \in Nat
  BY <1>3, LenProperties DEF ResultFiles, Answers
<1>5. line' \in 1 .. Len(Answers) /\ line' \in Nat
  BY <1>4 DEF ReadInv
<1>6. Answers[line'] \in [elem : Asked, updated : BOOLEAN]
  BY <1>4, <1>5, ElementOfSeq
<1>7. updated' \in [Instns -> SUBSET Asked] /\ \A i \in Instns : i # idx => updated'[i] = updated[i]
  BY <1>2, <1>6 DEF ReadInv
<1>8. ASSUME NEW n \in updated'[idx] PROVE Reported(idx, n)
  <2>1. CASE n \in updated[idx]
    BY <2>1, <1>2 DEF ReadInv
  <2>2. CASE n \notin updated[idx]
    <3>1. n = Answers[line'].elem /\ Answers[line'].updated = TRUE
      BY <2>2, <1>2, <1>6, <1>8 DEF ReadInv
    <3>2. Answers[line'] = [elem |-> n, updated |-> TRUE]
      BY <3>1, <1>6
    <3> QED
      BY <3>2, <1>4, <1>5 DEF Reported, Answers
  <2> QED
    BY <2>1, <2>2
<1> QED
  BY <1>1, <1>2, <1>5, <1>7, <1>8 DEF ReadInv

(* So is the one that may be read off the line that is cut. *)
LEMMA EndOfLinesRead == AskInv /\ ReadInv /\ EndOfLines => ReadInv'
<1> SUFFICES ASSUME AskInv, ReadInv, EndOfLines PROVE ReadInv'
  OBVIOUS
<1> USE DEF EndOfLines
<1>1. /\ Instns' = Instns /\ Asked' = Asked /\ ResultFiles' = ResultFiles
      /\ \A i : Fresh(i)' = Fresh(i) /\ \A n : Reported(i, n)' = Reported(i, n)
  BY DEF Instns, Asked, Elements, ResultFiles, Reported, Fresh, input
<1>2. idx \in Instns /\ ~ Fresh(idx) /\ Instns \subseteq Nat
  BY NetFacts DEF AskInv, Instns, Fresh
<1>3. resfile[idx] \in ResultFiles /\ line = Len(resfile[idx].lines) /\ line \in Nat
  BY <1>2 DEF ReadInv, Answers
<1>4. CASE UNCHANGED updated
  BY <1>1, <1>4 DEF ReadInv
<1>5. CASE /\ resfile[idx].cut = "after_name"
           /\ updated' = [updated EXCEPT ![idx] = @ \cup {meta_list[line + 1].elem}]
  <2>1. line + 1 \in 1 .. Len(meta_list)
    BY <1>3, <1>5, LenProperties DEF ResultFiles, AskInv
  <2>2. meta_list[line + 1].elem \in Asked
    BY <2>1, ElementOfSeq DEF AskInv
  <2>3. updated' \in [Instns -> SUBSET Asked] /\ \A i \in Instns : i # idx => updated'[i] = updated[i]
    BY <1>2, <1>5, <2>2 DEF ReadInv
  <2>4. \A n \in updated'[idx] : Reported(idx, n)
    BY <1>2, <1>3, <1>5 DEF ReadInv, Reported
  <2> QED
    BY <1>1, <1>2, <2>3, <2>4 DEF ReadInv
<1> QED
  BY <1>4, <1>5

(* The checker writes one answer; nobody has read it.                      *)
LEMMA WriteRead == ASSUME AskInv, ReadInv, NEW i \in Instns, WriteResults(i) PROVE ReadInv'
<1>1. /\ Instns' = Instns /\ Asked' = Asked /\ ResultFiles' = ResultFiles
      /\ \A j : Fresh(j)' = Fresh(j)
      /\ phase # "per_s" /\ UNCHANGED <<net, phase, idx, meta_list, line, updated>>
  BY DEF WriteResults, Instns, Asked, Elements, ResultFiles, Fresh, input, AskInv
<1>2. PICK n \in 0 .. Len(meta_list), cut \in Cuts, yes \in SUBSET Asked :
        /\ cut \in {"name", "after_name", "answer"} => n < Len(meta_list)
        /\ resfile' = [resfile EXCEPT ![i] =
             [lines |-> [k \in 1 .. n |-> [elem |-> meta_list[k].elem,
                                           updated |-> meta_list[k].elem \in yes]],
              cut |-> cut]]
  BY DEF WriteResults
<1> DEFINE answers == [k \in 1 .. n |-> [elem |-> meta_list[k].elem, updated |-> meta_list[k].elem \in yes]]
<1>3. Len(meta_list) \in Nat /\ n \in Nat
  BY LenProperties DEF AskInv
<1>4. answers \in Seq([elem : Asked, updated : BOOLEAN]) /\ Len(answers) = n
  <2>1. \A k \in 1 .. n : meta_list[k].elem \in Asked
    BY <1>3, ElementOfSeq DEF AskInv
  <2> QED
    BY <2>1, <1>3
<1>5. [lines |-> answers, cut |-> cut] \in ResultFiles
  BY <1>2, <1>3, <1>4 DEF ResultFiles
<1>6. resfile' \in [Instns -> ResultFiles \cup {NoFile}] /\ \A j \in Instns : j # i => resfile'[j] = resfile[j]
  BY <1>2, <1>5 DEF ReadInv
<1>7. resfile[i] = NoFile /\ Fresh(i)
  BY DEF WriteResults, ReadInv
<1>8. \A j \in Instns : \A m \in updated[j] : Reported(j, m)'
  <2>1. \A j \in Instns : j # i => \A m \in updated[j] : Reported(j, m)'
    BY <1>1, <1>6 DEF ReadInv, Reported
  <2>2. updated[i] = {}
    BY <1>7 DEF ReadInv
  <2> QED
    BY <2>1, <2>2
<1>9. phase = "lines" => line <= Len(Answers)'
  <2>1. phase = "lines" => idx # i
    BY <1>7, NetFacts DEF Fresh, AskInv, Instns
  <2> QED
    BY <2>1, <1>1, <1>6 DEF ReadInv, Answers, AskInv
<1>10. \A j \in Instns : ~ Fresh(j) => resfile'[j] # NoFile
  BY <1>6, <1>7 DEF ReadInv
<1> QED
  BY <1>1, <1>6, <1>8, <1>9, <1>10 DEF ReadInv

(* Every step keeps to what was reported. *)
LEMMA ReadNext == AskInv /\ AskInv' /\ ReadInv /\ [Next]_vars => ReadInv'
<1> SUFFICES ASSUME AskInv, AskInv', ReadInv, [Next]_vars PROVE ReadInv'
  OBVIOUS
<1>1. ASSUME NEW n \in todo, Ask(n) PROVE ReadInv'
  BY <1>1 DEF Ask, ReadInv, Fresh, Instns, Asked, Elements
<1>2. CASE Emit
  <2>1. /\ Instns' = Instns /\ Asked' = Asked /\ ResultFiles' = ResultFiles
        /\ UNCHANGED <<net, resfile, line, updated>> /\ phase' \notin {"per_s", "lines"}
        /\ \A i, n : Reported(i, n)' = Reported(i, n)
    BY <1>2 DEF Emit, Instns, Asked, Elements, ResultFiles, Reported
  <2>2. Instns \subseteq Nat \ {0} /\ idx \in Instns
    BY NetFacts DEF AskInv, Instns
  <2>3. \A i \in Instns : Fresh(i)
    BY <1>2 DEF Emit, Fresh
  <2>4. \A i \in Instns : Fresh(i)'
    BY <1>2, <2>2 DEF Emit, Fresh
  <2> QED
    BY <2>1, <2>3, <2>4 DEF ReadInv
<1>3. ASSUME NEW n \in todo, Anchor(n) PROVE ReadInv'
  BY <1>3, ReadRest DEF Anchor, input
<1>4. CASE Open
  BY <1>4, OpenRead
<1>5. CASE ReadLine
  BY <1>5, ReadLineRead
<1>6. CASE EndOfLines
  BY <1>6, EndOfLinesRead
<1>7. CASE Abort
  BY <1>7, ReadRest DEF Abort, input
<1>8. CASE Build
  BY <1>8, ReadRest DEF Build, input
<1>9. CASE NextLevel
  BY <1>9, ReadRest DEF NextLevel, input
<1>10. CASE Deps
  <2>1. /\ Instns' = Instns /\ Asked' = Asked /\ ResultFiles' = ResultFiles
        /\ UNCHANGED <<net, resfile, line, updated>> /\ phase' \notin {"per_s", "lines"}
        /\ \A i, n : Reported(i, n)' = Reported(i, n)
    BY <1>10 DEF Deps, Instns, Asked, Elements, ResultFiles, Reported, input
  <2>2. Instns \subseteq Nat /\ idx \in Instns
    BY NetFacts DEF AskInv, Instns
  <2>3. \A i \in Instns : Fresh(i)' = Fresh(i)
    BY <1>10, <2>2 DEF Deps, Fresh
  <2> QED
    BY <2>1, <2>3 DEF ReadInv
<1>11. ASSUME NEW i \in Instns, WriteResults(i) PROVE ReadInv'
  BY <1>11, WriteRead
<1>12. CASE UNCHANGED vars
  <2>1. /\ Instns' = Instns /\ Asked' = Asked /\ ResultFiles' = ResultFiles /\ Answers' = Answers
        /\ UNCHANGED <<net, resfile, line, updated, phase>>
        /\ \A i : Fresh(i)' = Fresh(i) /\ \A n : Reported(i, n)' = Reported(i, n)
    BY <1>12 DEF vars, input, Instns, Asked, Elements, ResultFiles, Reported, Fresh, Answers
  <2> QED
    BY <2>1 DEF ReadInv
<1> QED
  BY <1>1, <1>2, <1>3, <1>4, <1>5, <1>6, <1>7, <1>8, <1>9, <1>10, <1>11, <1>12 DEF Next, Pass, Checker

-----------------------------------------------------------------------------
(* What build_dfg puts below a node is one stage further on, and was       *)
(* updated (dfg.h:344-403).                                                *)
LEMMA BelowFacts ==
  ASSUME net \in Netlists, updated \in [Instns -> SUBSET Asked], NEW i \in Instns,
         NEW n \in Asked \cup {net.instn}
  PROVE  /\ StageOf(n) = net.diff[n]
         /\ \A m \in Below(i, n) : m \in updated[i] /\ net.diff[m] = net.diff[n] + 1
<1>1. \A m \in Asked \cup {net.instn} : StageOf(m) = net.diff[m] /\ net.diff[m] \in Int
  BY NetFacts DEF StageOf
<1> SUFFICES ASSUME NEW m \in Below(i, n) PROVE m \in updated[i] /\ net.diff[m] = net.diff[n] + 1
  BY <1>1
<1>2. PICK e \in UhbEdges(i) : e[1] = n /\ e[2] = m
  BY DEF Below, NoLoops
<1>3. m \in updated[i] /\ StageOf(n) = StageOf(m) - 1
  BY <1>2 DEF UhbEdges, RegEdges, MemEdges, Result, NextTo
<1> QED
  BY <1>1, <1>3

(* The edges of an instruction type are those of its updates; its stages   *)
(* those of its path. *)
LEMMA GraphFrame ==
  ASSUME net' = net, NEW i, updated'[i] = updated[i]
  PROVE  /\ \A n : Below(i, n)' = Below(i, n) /\ Parents(i, n)' = Parents(i, n)
         /\ \A ns : BelowAll(i, ns)' = BelowAll(i, ns)
         /\ \A ns, t : AtStage(i, ns, t)' = AtStage(i, ns, t)
         /\ seq_uhb'[i] = seq_uhb[i] => /\ \A t : NextStage(i, t)' = NextStage(i, t)
                                        /\ Accesses(i)' = Accesses(i)
<1>1. UhbEdges(i)' = UhbEdges(i) /\ AllEdges(i)' = AllEdges(i)
  BY DEF UhbEdges, RegEdges, MemEdges, AllEdges, DataEdges, NoLoops, Result, NextTo, StageOf
<1>2. \A n : Below(i, n)' = Below(i, n) /\ Parents(i, n)' = Parents(i, n)
  BY <1>1 DEF Below, Parents, NoLoops
<1>3. \A ns : BelowAll(i, ns)' = BelowAll(i, ns)
  BY <1>2 DEF BelowAll
<1>4. \A ns, t : AtStage(i, ns, t)' = AtStage(i, ns, t)
  BY DEF AtStage
<1>5. ASSUME seq_uhb'[i] = seq_uhb[i]
      PROVE  (\A t : NextStage(i, t)' = NextStage(i, t)) /\ Accesses(i)' = Accesses(i)
  BY <1>2, <1>3, <1>5 DEF NextStage, Accesses
<1> QED
  BY <1>2, <1>3, <1>4, <1>5

(* There are no paths yet. *)
LEMMA InitLevels == Init => LevelsInv /\ WalkInv /\ AccessInv
<1> SUFFICES ASSUME Init PROVE LevelsInv /\ WalkInv /\ AccessInv
  OBVIOUS
<1> USE DEF Init
<1>1. \A i \in Instns : Fresh(i) /\ ~ Built(i) /\ seq_uhb[i] = << >> /\ Len(seq_uhb[i]) = 0
  BY DEF Fresh, Built
<1>2. seq_uhb \in [Instns -> Seq(SUBSET Asked)]
  BY EmptySeq
<1>3. LevelsInv
  BY <1>1, <1>2 DEF LevelsInv
<1>4. WalkInv
  BY DEF WalkInv
<1>5. AccessInv
  BY <1>1 DEF AccessInv
<1> QED
  BY <1>3, <1>4, <1>5

(* Instruction types without a path, and those whose path has its last     *)
(* stage.                                                                  *)
NoPath(i) == Fresh(i) \/ (i = idx /\ phase \in {"lines", "build"})
Ended(i) == Built(i) \/ (i = idx /\ phase = "deps")

(* Steps that leave the paths as they are. *)
LEMMA LevelsRest ==
  ASSUME LevelsInv, UNCHANGED <<net, updated, seq_uhb>>,
         \A i \in Instns : (NoPath(i)' => NoPath(i)) /\ (Ended(i)' => Ended(i))
  PROVE  LevelsInv'
<1>1. Instns' = Instns /\ Asked' = Asked
  BY DEF Instns, Asked, Elements
<1>2. \A i \in Instns : /\ \A t : NextStage(i, t)' = NextStage(i, t)
                        /\ \A ns, t : AtStage(i, ns, t)' = AtStage(i, ns, t)
  BY GraphFrame
<1> QED
  BY <1>1, <1>2 DEF LevelsInv, NoPath, Ended

(* More is known to be updated by an instruction type without a path. *)
LEMMA LevelsUpdate ==
  ASSUME LevelsInv, net' = net, UNCHANGED seq_uhb, idx' = idx, NoPath(idx), ~ Ended(idx)', NEW u,
         updated' = [updated EXCEPT ![idx] = u], updated \in [Instns -> SUBSET Asked],
         \A i \in Instns : (NoPath(i)' => NoPath(i)) /\ (Ended(i)' => Ended(i))
  PROVE  LevelsInv'
<1>1. Instns' = Instns /\ Asked' = Asked
  BY DEF Instns, Asked, Elements
<1>2. \A i \in Instns : i # idx => updated'[i] = updated[i]
  OBVIOUS
<1>3. \A i \in Instns : i # idx => /\ \A t : NextStage(i, t)' = NextStage(i, t)
                                   /\ \A ns, t : AtStage(i, ns, t)' = AtStage(i, ns, t)
  BY <1>2, GraphFrame
<1>4. idx \in Instns => seq_uhb[idx] = << >> /\ Len(seq_uhb[idx]) = 0
  BY EmptySeq DEF LevelsInv, NoPath
<1>5. (\A i \in Instns : \A t \in 1 .. Len(seq_uhb[i]) :
         /\ seq_uhb[i][t] = NextStage(i, t - 1) /\ seq_uhb[i][t] # {}
         /\ AtStage(i, seq_uhb[i][t], t))'
  <2> SUFFICES ASSUME NEW i \in Instns, NEW t \in 1 .. Len(seq_uhb[i])
               PROVE  (/\ seq_uhb[i][t] = NextStage(i, t - 1) /\ seq_uhb[i][t] # {}
                       /\ AtStage(i, seq_uhb[i][t], t))'
    BY <1>1
  <2>1. i # idx
    BY <1>4
  <2>2. NextStage(i, t - 1)' = NextStage(i, t - 1)
    BY <2>1, <1>3
  <2>3. AtStage(i, seq_uhb[i][t], t)' = AtStage(i, seq_uhb[i][t], t)
    BY <2>1 DEF AtStage
  <2> QED
    BY <2>2, <2>3 DEF LevelsInv
<1>6. \A i \in Instns : Ended(i)' => NextStage(i, Len(seq_uhb[i]))' = {}
  <2> SUFFICES ASSUME NEW i \in Instns, Ended(i)' PROVE NextStage(i, Len(seq_uhb[i]))' = {}
    OBVIOUS
  <2>1. i # idx /\ Ended(i)
    OBVIOUS
  <2>2. NextStage(i, Len(seq_uhb[i]))' = NextStage(i, Len(seq_uhb[i]))
    BY <2>1, <1>3
  <2> QED
    BY <2>1, <2>2 DEF LevelsInv, Ended
<1>7. seq_uhb' \in [Instns' -> Seq(SUBSET Asked')]
  BY <1>1 DEF LevelsInv
<1>8. \A i \in Instns : NoPath(i)' => seq_uhb[i] = << >>
  BY DEF LevelsInv, NoPath
<1>9. (\A i \in Instns : Built(i) \/ (i = idx /\ phase = "deps") => NextStage(i, Len(seq_uhb[i])) = {})'
  BY <1>1, <1>6 DEF Ended
<1>10. (\A i \in Instns : Fresh(i) \/ (i = idx /\ phase \in {"lines", "build"}) => seq_uhb[i] = << >>)'
  BY <1>1, <1>8 DEF NoPath
<1> QED
  BY <1>5, <1>7, <1>9, <1>10 DEF LevelsInv

(* The walk starts with what the instruction register feeds (util.h:322-327). *)
LEMMA BuildWalk == AskInv /\ ReadInv /\ LevelsInv /\ WalkInv /\ Build => LevelsInv' /\ WalkInv'
<1> SUFFICES ASSUME AskInv, ReadInv, LevelsInv, WalkInv, Build PROVE LevelsInv' /\ WalkInv'
  OBVIOUS
<1> USE DEF Build
<1>1. UNCHANGED <<net, updated, seq_uhb, idx>> /\ Instns' = Instns /\ Asked' = Asked
  BY DEF Instns, Asked, Elements
<1>2. idx \in Instns /\ net \in Netlists /\ updated \in [Instns -> SUBSET Asked]
  BY DEF AskInv, ReadInv
<1>3. LevelsInv'
  <2>1. \A i \in Instns : (NoPath(i)' => NoPath(i)) /\ (Ended(i)' => Ended(i))
    BY <1>1 DEF NoPath, Ended, Fresh, Built
  <2> QED
    BY <1>1, <2>1, LevelsRest
<1>4. seq_uhb[idx] = << >> /\ Depth' = 0
  BY <1>1, <1>2, EmptySeq DEF LevelsInv, Depth
<1>5. /\ \A n : Below(idx, n)' = Below(idx, n)
      /\ \A ns : BelowAll(idx, ns)' = BelowAll(idx, ns)
      /\ \A ns, t : AtStage(idx, ns, t)' = AtStage(idx, ns, t)
      /\ \A t : NextStage(idx, t)' = NextStage(idx, t)
  BY <1>1, GraphFrame
<1>6. cur_pool' = NextStage(idx, 0) /\ AtStage(idx, cur_pool', 1) /\ cur_pool' \subseteq Asked
  BY <1>2, BelowFacts, NetFacts DEF NextStage, AtStage
<1>7. BelowAll(idx, {}) = {} /\ cur_pool' \ todo' = {}
  BY DEF BelowAll
<1>8. WalkInv'
  BY <1>1, <1>4, <1>5, <1>6, <1>7 DEF WalkInv
<1> QED
  BY <1>3, <1>8

(* A node of the level: what is below it and has not been seen is of the   *)
(* next one; what has been seen is there already (util.h:329-336).         *)
LEMMA AnchorWalk ==
  ASSUME AskInv, ReadInv, LevelsInv, WalkInv, NEW n \in todo, Anchor(n)
  PROVE  LevelsInv' /\ WalkInv'
<1> USE DEF Anchor
<1>1. UNCHANGED <<net, updated, seq_uhb, idx, phase, cur_pool>> /\ Instns' = Instns /\ Asked' = Asked
  BY DEF Instns, Asked, Elements
<1>2. idx \in Instns /\ net \in Netlists /\ updated \in [Instns -> SUBSET Asked]
  BY DEF AskInv, ReadInv
<1>3. LevelsInv'
  <2>1. \A i \in Instns : (NoPath(i)' => NoPath(i)) /\ (Ended(i)' => Ended(i))
    BY <1>1 DEF NoPath, Ended, Fresh, Built
  <2> QED
    BY <1>1, <2>1, LevelsRest
<1>4. /\ \A ns : BelowAll(idx, ns)' = BelowAll(idx, ns)
      /\ \A ns, t : AtStage(idx, ns, t)' = AtStage(idx, ns, t)
      /\ \A t : NextStage(idx, t)' = NextStage(idx, t)
      /\ Depth' = Depth
  BY <1>1, GraphFrame DEF Depth
<1>5. /\ n \in cur_pool /\ n \in Asked /\ net.diff[n] = Depth + 1 /\ Depth \in Nat
      /\ todo \subseteq cur_pool
  BY <1>2, LenProperties DEF WalkInv, AtStage, Depth, LevelsInv
<1>6. \A m \in Below(idx, n) : m \in Asked /\ net.diff[m] = Depth + 2
  BY <1>2, <1>5, BelowFacts
<1>7. next_pool' = next_pool \cup Below(idx, n)
  BY <1>5, <1>6 DEF WalkInv
<1>8. next_pool' = BelowAll(idx, cur_pool \ todo')
  <2>1. cur_pool \ todo' = (cur_pool \ todo) \cup {n}
    BY <1>5
  <2>2. next_pool = BelowAll(idx, cur_pool \ todo)
    BY DEF WalkInv
  <2> QED
    BY <1>7, <2>1, <2>2 DEF BelowAll
<1>9. \A v \in visited' : net.diff[v] <= Depth + 1 \/ v \in next_pool'
  <2>1. visited' = visited \cup Below(idx, n) \cup {n}
    OBVIOUS
  <2>2. \A v \in visited : net.diff[v] <= Depth + 1 \/ v \in next_pool
    BY DEF WalkInv
  <2> QED
    BY <2>1, <2>2, <1>5, <1>7
<1>10. todo' \cup visited' \cup next_pool' \subseteq Asked
  BY <1>2, <1>5, <1>6, <1>7 DEF WalkInv
<1>11. WalkInv'
  BY <1>1, <1>4, <1>5, <1>8, <1>9, <1>10 DEF WalkInv
<1> QED
  BY <1>3, <1>11

(* The level under way becomes a stage; an empty one ends the walk         *)
(* (util.h:328-341).                                                       *)
LEMMA NextLevelWalk == AskInv /\ ReadInv /\ LevelsInv /\ WalkInv /\ NextLevel => LevelsInv' /\ WalkInv'
<1> SUFFICES ASSUME AskInv, ReadInv, LevelsInv, WalkInv, NextLevel PROVE LevelsInv' /\ WalkInv'
  OBVIOUS
<1>1. /\ UNCHANGED <<net, updated, idx, visited>> /\ Instns' = Instns /\ Asked' = Asked
      /\ cur_pool' = next_pool /\ todo' = next_pool /\ next_pool' = {}
      /\ phase = "anchor" /\ todo = {}
  BY DEF NextLevel, Instns, Asked, Elements
<1>2. idx \in Instns /\ net \in Netlists /\ updated \in [Instns -> SUBSET Asked]
  BY DEF AskInv, ReadInv
<1>3. /\ cur_pool = NextStage(idx, Depth) /\ AtStage(idx, cur_pool, Depth + 1)
      /\ next_pool = BelowAll(idx, cur_pool)
      /\ \A v \in visited : net.diff[v] <= Depth + 1 \/ v \in next_pool
      /\ cur_pool \subseteq Asked /\ next_pool \subseteq Asked /\ visited \subseteq Asked
  BY <1>1 DEF WalkInv
<1>4. /\ seq_uhb[idx] \in Seq(SUBSET Asked) /\ Depth \in Nat
      /\ \A i \in Instns : seq_uhb[i] \in Seq(SUBSET Asked)
  BY <1>2, LenProperties DEF LevelsInv, Depth
<1>5. CASE cur_pool = {}
  <2>1. UNCHANGED seq_uhb /\ phase' = "deps"
    BY <1>5 DEF NextLevel
  <2>2. \A i \in Instns : /\ \A t : NextStage(i, t)' = NextStage(i, t)
                          /\ \A ns, t : AtStage(i, ns, t)' = AtStage(i, ns, t)
    BY <1>1, <2>1, GraphFrame
  <2>3. \A i \in Instns : (NoPath(i)' => NoPath(i)) /\ (Ended(i)' => Ended(i) \/ i = idx)
    BY <1>1, <2>1 DEF NoPath, Ended, Fresh, Built
  <2>4. NextStage(idx, Len(seq_uhb[idx])) = {}
    BY <1>3, <1>5 DEF Depth
  <2>5. \A i \in Instns : Ended(i)' => NextStage(i, Len(seq_uhb[i])) = {}
    BY <2>3, <2>4 DEF LevelsInv, Ended
  <2>6. LevelsInv'
    BY <1>1, <2>1, <2>2, <2>3, <2>5 DEF LevelsInv, NoPath, Ended
  <2>7. WalkInv'
    BY <1>1, <1>3, <2>1 DEF WalkInv
  <2> QED
    BY <2>6, <2>7
<1>6. CASE cur_pool # {}
  <2>0. PICK s \in Instns, d \in Nat : s = idx /\ d = Depth
    BY <1>2, <1>4
  <2>1. phase' = "anchor" /\ seq_uhb' = [seq_uhb EXCEPT ![idx] = Append(@, cur_pool)]
    BY <1>1, <1>6 DEF NextLevel
  <2>2. \A i \in Instns : i # idx => seq_uhb'[i] = seq_uhb[i]
    BY <2>1 DEF LevelsInv
  <2>3. /\ seq_uhb'[idx] \in Seq(SUBSET Asked) /\ Len(seq_uhb'[idx]) = Depth + 1
        /\ \A t \in 1 .. Depth : seq_uhb'[idx][t] = seq_uhb[idx][t]
        /\ seq_uhb'[idx][Depth + 1] = cur_pool
    <3>1. seq_uhb'[idx] = Append(seq_uhb[idx], cur_pool)
      BY <1>2, <2>1 DEF LevelsInv
    <3> QED
      BY <3>1, <1>3, <1>4, AppendFacts DEF Depth
  <2>4. \A i \in Instns : /\ \A n : Below(i, n)' = Below(i, n)
                          /\ \A ns : BelowAll(i, ns)' = BelowAll(i, ns)
                          /\ \A ns, t : AtStage(i, ns, t)' = AtStage(i, ns, t)
                          /\ i # idx => \A t : NextStage(i, t)' = NextStage(i, t)
    BY <1>1, <2>2, GraphFrame
  <2>5. \A t \in 0 .. d : NextStage(s, t)' = NextStage(s, t)
    BY <1>1, <2>0, <2>3, <2>4 DEF NextStage
  <2>6. NextStage(s, d + 1)' = next_pool
    BY <1>1, <1>3, <2>0, <2>3, <2>4 DEF NextStage
  <2>7. seq_uhb' \in [Instns -> Seq(SUBSET Asked)]
    BY <1>2, <2>1, <2>3 DEF LevelsInv
  <2>8. \A i \in Instns : (NoPath(i)' => NoPath(i) /\ i # idx) /\ (Ended(i)' => Ended(i) /\ i # idx)
    BY <1>1, <1>2, <2>1, NetFacts DEF NoPath, Ended, Fresh, Built, AskInv, Instns
  <2>9. (\A i \in Instns : \A t \in 1 .. Len(seq_uhb[i]) :
           /\ seq_uhb[i][t] = NextStage(i, t - 1) /\ seq_uhb[i][t] # {}
           /\ AtStage(i, seq_uhb[i][t], t))'
    <3> SUFFICES ASSUME NEW i \in Instns, NEW t \in 1 .. Len(seq_uhb'[i])
                 PROVE  (/\ seq_uhb[i][t] = NextStage(i, t - 1) /\ seq_uhb[i][t] # {}
                         /\ AtStage(i, seq_uhb[i][t], t))'
      BY <1>1
    <3>1. CASE i # idx
      <4>1. t \in 1 .. Len(seq_uhb[i]) /\ seq_uhb'[i] = seq_uhb[i]
        BY <3>1, <2>2
      <4>2. seq_uhb[i][t] = NextStage(i, t - 1) /\ seq_uhb[i][t] # {} /\ AtStage(i, seq_uhb[i][t], t)
        BY <4>1 DEF LevelsInv
      <4>3. NextStage(i, t - 1)' = NextStage(i, t - 1)
        BY <3>1, <2>4
      <4>4. AtStage(i, seq_uhb[i][t], t)'
        BY <4>1, <4>2, <1>1 DEF AtStage
      <4> QED
        BY <4>1, <4>2, <4>3, <4>4
    <3>2. CASE i = idx /\ t \in 1 .. Depth
      <4>1. seq_uhb'[idx][t] = seq_uhb[idx][t]
        BY <3>2, <2>3
      <4>2. seq_uhb[i][t] = NextStage(i, t - 1) /\ seq_uhb[i][t] # {} /\ AtStage(i, seq_uhb[i][t], t)
        BY <3>2 DEF LevelsInv, Depth
      <4>3. NextStage(i, t - 1)' = NextStage(i, t - 1)
        BY <3>2, <2>0, <2>5
      <4>4. AtStage(i, seq_uhb[i][t], t)'
        BY <3>2, <4>1, <4>2, <1>1 DEF AtStage
      <4> QED
        BY <3>2, <4>1, <4>2, <4>3, <4>4
    <3>3. CASE i = idx /\ t = Depth + 1
      <4>1. NextStage(i, t - 1)' = cur_pool
        BY <3>3, <1>3, <2>0, <2>5
      <4>2. AtStage(i, seq_uhb[i][t], t)'
        BY <3>3, <1>1, <1>3, <2>3 DEF AtStage
      <4> QED
        BY <3>3, <4>1, <4>2, <1>6, <2>3
    <3> QED
      BY <3>1, <3>2, <3>3, <2>3, <1>4
  <2>10. \A i \in Instns : NoPath(i)' => seq_uhb'[i] = << >>
    BY <2>2, <2>8 DEF LevelsInv, NoPath
  <2>11. \A i \in Instns : Ended(i)' => NextStage(i, Len(seq_uhb[i]))' = {}
    <3> SUFFICES ASSUME NEW i \in Instns, Ended(i)' PROVE NextStage(i, Len(seq_uhb[i]))' = {}
      OBVIOUS
    <3>1. Ended(i) /\ i # idx /\ Len(seq_uhb[i])' = Len(seq_uhb[i])
      BY <2>2, <2>8
    <3>2. NextStage(i, Len(seq_uhb[i])) = {}
      BY <3>1 DEF LevelsInv, Ended
    <3> QED
      BY <3>1, <3>2, <2>4
  <2>12. LevelsInv'
    BY <1>1, <2>7, <2>9, <2>10, <2>11 DEF LevelsInv, NoPath, Ended
  <2>13. AtStage(idx, next_pool, Depth + 2)
    <3> SUFFICES ASSUME NEW m \in next_pool PROVE m \in updated[idx] /\ net.diff[m] = Depth + 2
      BY DEF AtStage
    <3>1. PICK n \in cur_pool : m \in Below(idx, n)
      BY <1>3 DEF BelowAll
    <3>2. n \in Asked /\ net.diff[n] = Depth + 1
      BY <1>3 DEF AtStage
    <3> QED
      BY <3>1, <3>2, <1>2, <1>4, BelowFacts
  <2>14. Depth' = Depth + 1
    BY <1>1, <2>3 DEF Depth
  <2>15. (cur_pool = NextStage(idx, Depth))'
    BY <1>1, <2>0, <2>6, <2>14
  <2>16. AtStage(idx, cur_pool, Depth + 1)'
    BY <1>1, <1>4, <2>13, <2>14 DEF AtStage
  <2>17. next_pool' = BelowAll(idx, cur_pool \ todo)'
    BY <1>1 DEF BelowAll
  <2>18. \A v \in visited : net.diff[v] <= Depth + 1 + 1
    <3> SUFFICES ASSUME NEW v \in visited PROVE net.diff[v] <= Depth + 1 + 1
      OBVIOUS
    <3>1. v \in Asked /\ net.diff[v] \in Nat
      BY <1>2, <1>3, NetFacts
    <3>2. CASE v \in next_pool
      BY <3>2, <2>13, <1>4 DEF AtStage
    <3>3. CASE net.diff[v] <= Depth + 1
      BY <3>1, <3>3, <1>4
    <3> QED
      BY <3>2, <3>3, <1>3
  <2>19. WalkInv'
    BY <1>1, <1>3, <2>14, <2>15, <2>16, <2>17, <2>18 DEF WalkInv
  <2> QED
    BY <2>12, <2>19
<1> QED
  BY <1>5, <1>6

(* The pass goes on with the next instruction type. *)
LEMMA DepsStep ==
  AskInv /\ LevelsInv /\ WalkInv /\ AccessInv /\ Deps => LevelsInv' /\ WalkInv' /\ AccessInv'
<1> SUFFICES ASSUME AskInv, LevelsInv, WalkInv, AccessInv, Deps PROVE LevelsInv' /\ WalkInv' /\ AccessInv'
  OBVIOUS
<1>1. /\ UNCHANGED <<net, todo, updated, visited, cur_pool, next_pool, seq_uhb>>
      /\ Instns' = Instns /\ Asked' = Asked /\ phase = "deps" /\ phase' \in {"wait", "done"}
      /\ IF idx < net.instns THEN idx' = idx + 1 /\ phase' = "wait" ELSE phase' = "done" /\ UNCHANGED idx
  BY DEF Deps, Instns, Asked, Elements, anchor, input
<1>2. Instns = 1 .. net.instns /\ net.instns \in Nat /\ idx \in Instns
  BY NetFacts DEF AskInv, Instns
<1>3. \A i \in Instns : Built(i)' => Built(i) \/ i = idx
  BY <1>1, <1>2 DEF Built
<1>4. \A i \in Instns : (NoPath(i)' => NoPath(i)) /\ (Ended(i)' => Ended(i))
  <2>1. \A i \in Instns : NoPath(i)' => NoPath(i)
    BY <1>1, <1>2 DEF NoPath, Fresh
  <2> QED
    BY <2>1, <1>1, <1>3 DEF Ended
<1>5. LevelsInv'
  BY <1>1, <1>4, LevelsRest
<1>6. WalkInv'
  BY <1>1 DEF WalkInv
<1>7. \A i \in Instns : Accesses(i)' = Accesses(i)
  BY <1>1, GraphFrame
<1>8. AccessInv'
  <2>1. loc_per_reg' = [loc_per_reg EXCEPT ![idx] = Accesses(idx)]
    BY DEF Deps
  <2> QED
    BY <2>1, <1>1, <1>2, <1>3, <1>7 DEF AccessInv
<1> QED
  BY <1>5, <1>6, <1>8

(* Steps outside the walk. *)
LEMMA AccessRest ==
  ASSUME AccessInv, UNCHANGED <<net, seq_uhb, loc_per_reg>>,
         \A i \in Instns : Built(i)' => Built(i) /\ updated'[i] = updated[i]
  PROVE  AccessInv'
<1>1. Instns' = Instns
  BY DEF Instns
<1>2. \A i \in Instns : Built(i)' => Accesses(i)' = Accesses(i)
  BY GraphFrame
<1> QED
  BY <1>1, <1>2 DEF AccessInv

(* Steps that leave the walk alone, or take work off its list. *)
LEMMA WalkRest ==
  ASSUME WalkInv, UNCHANGED <<net, visited, cur_pool, next_pool>>, todo' \subseteq todo,
         phase' # "anchor"
  PROVE  WalkInv'
BY DEF WalkInv, Asked, Elements

(* Every step keeps the paths the levels of the walk. *)
LEMMA PathNext ==
  AskInv /\ ReadInv /\ LevelsInv /\ WalkInv /\ AccessInv /\ [Next]_vars => LevelsInv' /\ WalkInv' /\ AccessInv'
<1> SUFFICES ASSUME AskInv, ReadInv, LevelsInv, WalkInv, AccessInv, [Next]_vars
             PROVE  LevelsInv' /\ WalkInv' /\ AccessInv'
  OBVIOUS
<1>0. Instns = 1 .. net.instns /\ net.instns \in Nat /\ idx \in Instns
  BY NetFacts DEF AskInv, Instns
<1>1. ASSUME NEW n \in todo, Ask(n) PROVE LevelsInv' /\ WalkInv' /\ AccessInv'
  <2>1. \A i \in Instns : (NoPath(i)' => NoPath(i)) /\ (Ended(i)' => Ended(i)) /\ (Built(i)' => Built(i))
    BY <1>1 DEF Ask, NoPath, Ended, Fresh, Built
  <2> QED
    BY <1>1, <2>1, LevelsRest, WalkRest, AccessRest DEF Ask, anchor
<1>2. CASE Emit
  <2>1. \A i \in Instns : (NoPath(i)' => NoPath(i)) /\ (Ended(i)' => Ended(i)) /\ (Built(i)' => Built(i))
    BY <1>2, <1>0 DEF Emit, NoPath, Ended, Fresh, Built
  <2>2. phase' # "anchor" /\ UNCHANGED <<net, updated, seq_uhb, loc_per_reg, todo, visited, cur_pool, next_pool>>
    BY <1>2 DEF Emit, anchor
  <2> QED
    BY <2>1, <2>2, LevelsRest, WalkRest, AccessRest
<1>3. ASSUME NEW n \in todo, Anchor(n) PROVE LevelsInv' /\ WalkInv' /\ AccessInv'
  <2>1. \A i \in Instns : Built(i)' => Built(i)
    BY <1>3 DEF Anchor, Built
  <2> QED
    BY <1>3, <2>1, AnchorWalk, AccessRest DEF Anchor
<1>4. CASE Open
  <2>1. updated' = updated
    BY <1>4, <1>0 DEF Open, ReadInv, Fresh
  <2>2. \A i \in Instns : (NoPath(i)' => NoPath(i)) /\ (Ended(i)' => Ended(i)) /\ (Built(i)' => Built(i))
    BY <1>4, <1>0 DEF Open, NoPath, Ended, Fresh, Built
  <2>3. phase' # "anchor" /\ UNCHANGED <<net, seq_uhb, loc_per_reg, todo, visited, cur_pool, next_pool>>
    BY <1>4 DEF Open, anchor
  <2> QED
    BY <2>1, <2>2, <2>3, LevelsRest, WalkRest, AccessRest
<1>5. CASE ReadLine \/ EndOfLines
  <2>1. /\ UNCHANGED <<net, idx, seq_uhb, loc_per_reg, todo, visited, cur_pool, next_pool>>
        /\ phase = "lines" /\ phase' \in {"lines", "build"}
    BY <1>5 DEF ReadLine, EndOfLines, anchor
  <2>2. updated \in [Instns -> SUBSET Asked]
    BY DEF ReadInv
  <2>3. \E u : updated' = [updated EXCEPT ![idx] = u]
    <3>1. updated = [updated EXCEPT ![idx] = updated[idx]]
      BY <1>0, <2>2
    <3> QED
      BY <1>5, <3>1 DEF ReadLine, EndOfLines
  <2>4. /\ \A i \in Instns : (NoPath(i)' => NoPath(i)) /\ (Ended(i)' => Ended(i)) /\ (Built(i)' => Built(i) /\ i # idx)
        /\ NoPath(idx) /\ ~ Ended(idx)'
    BY <2>1, <1>0 DEF NoPath, Ended, Fresh, Built
  <2>5. LevelsInv'
    BY <2>1, <2>2, <2>3, <2>4, LevelsUpdate
  <2>6. WalkInv'
    BY <2>1, WalkRest
  <2>7. AccessInv'
    BY <2>1, <2>2, <2>3, <2>4, AccessRest
  <2> QED
    BY <2>5, <2>6, <2>7
<1>6. CASE Abort
  <2>1. \A i \in Instns : (NoPath(i)' => NoPath(i)) /\ (Ended(i)' => Ended(i)) /\ (Built(i)' => Built(i))
    BY <1>6 DEF Abort, NoPath, Ended, Fresh, Built
  <2> QED
    BY <1>6, <2>1, LevelsRest, WalkRest, AccessRest DEF Abort, anchor
<1>7. CASE Build
  <2>1. \A i \in Instns : Built(i)' => Built(i)
    BY <1>7 DEF Build, Built
  <2> QED
    BY <1>7, <2>1, BuildWalk, AccessRest DEF Build
<1>8. CASE NextLevel
  <2>1. \A i \in Instns : Built(i)' => Built(i) /\ i # idx
    BY <1>8, <1>0 DEF NextLevel, Built
  <2>2. AccessInv'
    <3>1. Instns' = Instns /\ UNCHANGED <<net, updated, loc_per_reg>>
      BY <1>8 DEF NextLevel, Instns
    <3>2. \A i \in Instns : i # idx => seq_uhb'[i] = seq_uhb[i]
      BY <1>8, <1>0 DEF NextLevel, LevelsInv
    <3>3. \A i \in Instns : Built(i)' => Accesses(i)' = Accesses(i)
      BY <2>1, <3>1, <3>2, GraphFrame
    <3> QED
      BY <2>1, <3>1, <3>3 DEF AccessInv
  <2> QED
    BY <1>8, <2>2, NextLevelWalk
<1>9. CASE Deps
  BY <1>9, DepsStep
<1>10. ASSUME NEW i \in Instns, WriteResults(i) PROVE LevelsInv' /\ WalkInv' /\ AccessInv'
  <2>1. UNCHANGED <<net, phase, idx, updated, seq_uhb, loc_per_reg, todo, visited, cur_pool, next_pool>>
    BY <1>10 DEF WriteResults, anchor
  <2>2. \A j \in Instns : (NoPath(j)' => NoPath(j)) /\ (Ended(j)' => Ended(j)) /\ (Built(j)' => Built(j))
    BY <2>1 DEF NoPath, Ended, Fresh, Built
  <2>3. Depth' = Depth /\ Asked' = Asked
    BY <2>1 DEF Depth, Asked, Elements
  <2>4. /\ NextStage(idx, Depth)' = NextStage(idx, Depth)
        /\ BelowAll(idx, cur_pool \ todo)' = BelowAll(idx, cur_pool \ todo)
        /\ AtStage(idx, cur_pool, Depth + 1)' = AtStage(idx, cur_pool, Depth + 1)
    BY <2>1, <2>3, GraphFrame
  <2>5. WalkInv'
    BY <2>1, <2>3, <2>4 DEF WalkInv
  <2> QED
    BY <2>1, <2>2, <2>5, LevelsRest, AccessRest
<1>11. CASE UNCHANGED vars
  <2>1. UNCHANGED <<net, phase, idx, updated, seq_uhb, loc_per_reg, todo, visited, cur_pool, next_pool>>
    BY <1>11 DEF vars, anchor
  <2>2. \A j \in Instns : (NoPath(j)' => NoPath(j)) /\ (Ended(j)' => Ended(j)) /\ (Built(j)' => Built(j))
    BY <2>1 DEF NoPath, Ended, Fresh, Built
  <2>3. Depth' = Depth /\ Asked' = Asked
    BY <2>1 DEF Depth, Asked, Elements
  <2>4. /\ NextStage(idx, Depth)' = NextStage(idx, Depth)
        /\ BelowAll(idx, cur_pool \ todo)' = BelowAll(idx, cur_pool \ todo)
        /\ AtStage(idx, cur_pool, Depth + 1)' = AtStage(idx, cur_pool, Depth + 1)
    BY <2>1, <2>3, GraphFrame
  <2>5. WalkInv'
    BY <2>1, <2>3, <2>4 DEF WalkInv
  <2> QED
    BY <2>1, <2>2, <2>5, LevelsRest, AccessRest
<1> QED
  BY <1>1, <1>2, <1>3, <1>4, <1>5, <1>6, <1>7, <1>8, <1>9, <1>10, <1>11 DEF Next, Pass, Checker

(* What each part of the invariant rests on, step by step. *)
LEMMA Invariance == Spec => []IInv
<1>1. Init => IInv
  BY InitAsk, InitRead, InitLevels DEF IInv
<1>2. IInv /\ [Next]_vars => IInv'
  BY AskNext, ReadNext, PathNext DEF IInv
<1> QED
  BY <1>1, <1>2, PTL DEF Spec

-----------------------------------------------------------------------------
(* The parts of the invariant bound what the variables hold. *)
LEMMA TypeSuffices == IInv => TypeOK
<1> SUFFICES ASSUME IInv PROVE TypeOK
  OBVIOUS
<1>1. /\ ever_update \in Seq(Rows) /\ idx \in Instns /\ phase \in Phases
      /\ line \in Nat /\ updated \in [Instns -> SUBSET Asked]
      /\ seq_uhb \in [Instns -> Seq(SUBSET Asked)]
      /\ todo \cup visited \cup cur_pool \cup next_pool \subseteq Asked
  BY DEF IInv, AskInv, ReadInv, LevelsInv, WalkInv
<1>2. \A k \in DOMAIN ever_update : ever_update[k] \in Rows
  BY <1>1, LenProperties, ElementOfSeq
<1>3. \A i \in Instns : \A k \in DOMAIN seq_uhb[i] : seq_uhb[i][k] \subseteq Asked
  <2> SUFFICES ASSUME NEW i \in Instns, NEW k \in DOMAIN seq_uhb[i] PROVE seq_uhb[i][k] \in SUBSET Asked
    OBVIOUS
  <2>1. seq_uhb[i] \in Seq(SUBSET Asked)
    BY <1>1
  <2> QED
    BY <2>1, LenProperties, ElementOfSeq
<1> QED
  BY <1>1, <1>2, <1>3 DEF TypeOK, Rows, Phases

(* The phase keeps its types: what it walks over are elements behind the   *)
(* instruction register, and no assertion names a PC register there is not *)
(* (dfg.h:74-201).                                                         *)
THEOREM TypeCorrect == Spec => []TypeOK
BY Invariance, TypeSuffices, PTL

-----------------------------------------------------------------------------
(* A node of a stage is at that distance, and was reported. *)
LEMMA PlacedFacts ==
  ASSUME IInv, NEW i \in Instns, NEW t \in DOMAIN seq_uhb[i]
  PROVE  /\ t \in 1 .. Len(seq_uhb[i]) /\ t \in Nat \ {0}
         /\ seq_uhb[i][t] = NextStage(i, t - 1) /\ seq_uhb[i][t] # {}
         /\ \A n \in seq_uhb[i][t] : n \in Asked /\ n \in updated[i] /\ net.diff[n] = t
<1>1. seq_uhb[i] \in Seq(SUBSET Asked) /\ updated[i] \subseteq Asked
  BY DEF IInv, LevelsInv, ReadInv
<1>2. t \in 1 .. Len(seq_uhb[i]) /\ t \in Nat \ {0}
  BY <1>1, LenProperties
<1> QED
  BY <1>1, <1>2 DEF IInv, LevelsInv, AtStage

(* What is placed was reported. *)
LEMMA LevelsSuffice == IInv => LevelsAreDistances
<1> SUFFICES ASSUME IInv PROVE LevelsAreDistances
  OBVIOUS
<1>1. EveryElementAsked
  BY AskInvSuffices DEF IInv
<1>2. ASSUME NEW i \in Instns, NEW k \in DOMAIN seq_uhb[i], NEW n \in seq_uhb[i][k]
      PROVE  net.diff[n] = k /\ resfile[i] # NoFile /\ Reported(i, n)
  <2>1. n \in updated[i] /\ net.diff[n] = k
    BY PlacedFacts
  <2>2. ~ Fresh(i)
    BY <2>1 DEF IInv, ReadInv
  <2> QED
    BY <2>1, <2>2 DEF IInv, ReadInv
<1> QED
  BY <1>1, <1>2 DEF LevelsAreDistances

(* However much of its answer the checker had written, a node is placed at *)
(* its distance from the instruction register, and only because the answer *)
(* calls it updated (dfg.h:249-310, util.h:322-341).                       *)
THEOREM LevelsCorrect == Spec => []LevelsAreDistances
BY Invariance, LevelsSuffice, PTL

-----------------------------------------------------------------------------
(* Below a node are the updated elements it feeds one stage further on. *)
LEMMA BelowIff ==
  ASSUME net \in Netlists, updated \in [Instns -> SUBSET Asked], NEW i \in Instns,
         NEW u \in updated[i], NEW n \in updated[i], net.diff[n] = net.diff[u] + 1
  PROVE  n \in Below(i, u) <=> <<u, n>> \in net.reg_reg \cup net.reg_mem
<1>1. /\ u \in Asked /\ n \in Asked /\ u # n
      /\ StageOf(n) = net.diff[n] /\ StageOf(u) = net.diff[u] /\ net.diff[u] \in Nat
  BY NetFacts DEF StageOf
<1>2. NextTo(u, n)
  BY <1>1 DEF NextTo
<1>3. ASSUME n \in Below(i, u) PROVE <<u, n>> \in net.reg_reg \cup net.reg_mem
  <2>1. PICK e \in UhbEdges(i) : e[1] = u /\ e[2] = n
    BY <1>3 DEF Below, NoLoops
  <2>2. e \in net.reg_reg \cup net.reg_mem
    BY <2>1 DEF UhbEdges, RegEdges, MemEdges
  <2> QED
    BY <2>1, <2>2, NetlistsAssumption
<1>4. ASSUME <<u, n>> \in net.reg_reg \cup net.reg_mem PROVE n \in Below(i, u)
  <2>1. <<u, n>> \in UhbEdges(i)
    BY <1>2, <1>4 DEF UhbEdges, RegEdges, MemEdges, Result
  <2> QED
    BY <1>1, <2>1 DEF Below, NoLoops
<1> QED
  BY <1>3, <1>4

(* The same of the instruction register, which feeds registers only. *)
LEMMA BelowInstn ==
  ASSUME net \in Netlists, updated \in [Instns -> SUBSET Asked], NEW i \in Instns,
         NEW n \in updated[i], net.diff[n] = 1
  PROVE  n \in Below(i, net.instn) <=> <<net.instn, n>> \in net.reg_reg
<1>1. n \in Asked /\ net.instn \notin Asked /\ StageOf(n) = 1 /\ StageOf(net.instn) = 0
  BY NetFacts DEF StageOf
<1>2. NextTo(net.instn, n) /\ ~ Result(i, net.instn) /\ Result(i, n)
  BY <1>1 DEF NextTo, Result
<1>3. ASSUME n \in Below(i, net.instn) PROVE <<net.instn, n>> \in net.reg_reg
  <2>1. PICK e \in UhbEdges(i) : e[1] = net.instn /\ e[2] = n
    BY <1>3 DEF Below, NoLoops
  <2>2. e \in net.reg_reg
    BY <1>2, <2>1 DEF UhbEdges, RegEdges, MemEdges
  <2> QED
    BY <2>1, <2>2, NetlistsAssumption
<1>4. ASSUME <<net.instn, n>> \in net.reg_reg PROVE n \in Below(i, net.instn)
  <2>1. <<net.instn, n>> \in UhbEdges(i)
    BY <1>2, <1>4 DEF UhbEdges, RegEdges
  <2> QED
    BY <1>1, <2>1 DEF Below, NoLoops
<1> QED
  BY <1>3, <1>4

(* A path that is built has in each stage all that is below the one before *)
(* it; behind its last stage there is nothing.                             *)
LEMMA LevelIsNext ==
  ASSUME IInv, NEW i \in Instns, Built(i), NEW k \in Nat \ {0}
  PROVE  Level(i, k) = IF k = 1 THEN Below(i, net.instn) ELSE BelowAll(i, Level(i, k - 1))
<1>1. seq_uhb[i] \in Seq(SUBSET Asked) /\ DOMAIN seq_uhb[i] = 1 .. Len(seq_uhb[i]) /\ Len(seq_uhb[i]) \in Nat
  BY LenProperties DEF IInv, LevelsInv
<1>2. NextStage(i, Len(seq_uhb[i])) = {}
  BY DEF IInv, LevelsInv
<1>3. ASSUME NEW t \in 0 .. Len(seq_uhb[i]) PROVE Level(i, t + 1) = NextStage(i, t)
  <2>1. CASE t = Len(seq_uhb[i])
    BY <2>1, <1>1, <1>2 DEF Level
  <2>2. CASE t < Len(seq_uhb[i])
    <3>1. t + 1 \in 1 .. Len(seq_uhb[i]) /\ t + 1 - 1 = t
      BY <2>2, <1>1
    <3> QED
      BY <3>1, <1>1 DEF IInv, LevelsInv, Level
  <2> QED
    BY <2>1, <2>2, <1>1
<1>4. CASE k = 1
  BY <1>4, <1>1, <1>3 DEF NextStage
<1>5. CASE k # 1 /\ k - 1 \in 1 .. Len(seq_uhb[i])
  <2>1. Level(i, k) = NextStage(i, k - 1)
    BY <1>1, <1>3, <1>5
  <2> QED
    BY <2>1, <1>1, <1>5 DEF NextStage, Level
<1>6. CASE k # 1 /\ k - 1 \notin 1 .. Len(seq_uhb[i])
  <2>1. Level(i, k) = {} /\ Level(i, k - 1) = {}
    BY <1>1, <1>6 DEF Level
  <2> QED
    BY <2>1, <1>6 DEF BelowAll
<1> QED
  BY <1>4, <1>5, <1>6

(* The levels are what the data flow reaches. *)
LEMMA PathsSuffice == IInv => PathsComplete
<1> SUFFICES ASSUME IInv, NEW i \in Instns, Built(i), NEW n \in updated[i]
             PROVE  n \in Level(i, net.diff[n]) <=>
                      \/ net.diff[n] = 1 /\ <<net.instn, n>> \in net.reg_reg
                      \/ \E u \in Level(i, net.diff[n] - 1) : <<u, n>> \in net.reg_reg \cup net.reg_mem
  BY DEF PathsComplete
<1>1. net \in Netlists /\ updated \in [Instns -> SUBSET Asked] /\ n \in Asked /\ net.diff[n] \in Nat \ {0}
  BY NetFacts DEF IInv, AskInv, ReadInv
<1>2. CASE net.diff[n] = 1
  <2>1. Level(i, 0) = {}
    <3>1. DOMAIN seq_uhb[i] = 1 .. Len(seq_uhb[i])
      BY LenProperties DEF IInv, LevelsInv
    <3> QED
      BY <3>1, LenProperties DEF Level, IInv, LevelsInv
  <2>2. Level(i, 1) = Below(i, net.instn)
    BY LevelIsNext
  <2>3. n \in Below(i, net.instn) <=> <<net.instn, n>> \in net.reg_reg
    BY <1>1, <1>2, BelowInstn
  <2>4. net.diff[n] - 1 = 0
    BY <1>2
  <2> QED
    BY <1>2, <2>1, <2>2, <2>3, <2>4
<1>3. CASE net.diff[n] # 1
  <2>1. Level(i, net.diff[n]) = BelowAll(i, Level(i, net.diff[n] - 1))
    BY <1>1, <1>3, LevelIsNext
  <2>2. ASSUME NEW u \in Level(i, net.diff[n] - 1)
        PROVE  n \in Below(i, u) <=> <<u, n>> \in net.reg_reg \cup net.reg_mem
    <3>1. u \in updated[i] /\ net.diff[u] = net.diff[n] - 1
      BY <2>2, PlacedFacts DEF Level
    <3> QED
      BY <3>1, <1>1, BelowIff
  <2> QED
    BY <1>3, <2>1, <2>2 DEF BelowAll
<1> QED
  BY <1>2, <1>3

(* An updated element is on the path exactly if the data flow from the     *)
(* instruction register reaches it through updated elements, stage by      *)
(* stage (dfg.h:344-403, util.h:322-341).                                  *)
THEOREM PathsCorrect == Spec => []PathsComplete
BY Invariance, PathsSuffice, PTL

-----------------------------------------------------------------------------
(* Where the data of a memory are written.                                 *)
Fed(m) == {p[3] : p \in {q \in net.rdport \cup net.wrport : q[1] = m}}

(* Only its data lead from a memory to another node of the path, and they  *)
(* always do (dfg.h:410-456).                                              *)
LEMMA ReadWhere ==
  ASSUME IInv, NEW i \in Instns, NEW m \in net.mems, NEW k \in DOMAIN seq_uhb[i]
  PROVE  \A n \in seq_uhb[i][k] : m \in Parents(i, n) <=> n \in Fed(m) \ {m}
<1> SUFFICES ASSUME NEW n \in seq_uhb[i][k] PROVE m \in Parents(i, n) <=> n \in Fed(m) \ {m}
  OBVIOUS
<1>1. net \in Netlists /\ updated \in [Instns -> SUBSET Asked]
  BY DEF IInv, AskInv, ReadInv
<1>2. /\ \A e \in net.reg_reg : e[1] \notin net.mems /\ e[2] \notin net.mems
      /\ \A e \in net.reg_mem : e[1] \notin net.mems /\ e[2] \in net.mems
      /\ \A p \in net.rdport : p[2] \notin net.mems /\ p[3] \notin net.mems
      /\ \A p \in net.wrport : p[2] \notin net.mems /\ p[3] \in net.mems
  BY <1>1, NetlistsAssumption
<1>3. PICK d \in UhbEdges(i) : d[2] = n
  <2>1. n \in NextStage(i, k - 1) /\ k - 1 \in Nat
    BY PlacedFacts
  <2> QED
    BY <2>1 DEF NextStage, BelowAll, Below, NoLoops
<1>4. ASSUME m \in Parents(i, n) PROVE n \in Fed(m) \ {m}
  <2>1. PICK e \in AllEdges(i) : e[1] = m /\ e[2] = n
    BY <1>4 DEF Parents
  <2>2. e \in DataEdges(i) /\ m # n
    BY <2>1, <1>2 DEF AllEdges, NoLoops, UhbEdges, RegEdges, MemEdges
  <2>3. PICK p \in net.rdport \cup net.wrport : e \in {<<p[1], p[3]>>, <<p[2], p[3]>>}
    BY <2>2 DEF DataEdges
  <2>4. p[1] = m /\ p[3] = n
    BY <2>1, <2>3, <1>2
  <2> QED
    BY <2>2, <2>4 DEF Fed
<1>5. ASSUME n \in Fed(m) \ {m} PROVE m \in Parents(i, n)
  <2>1. PICK p \in net.rdport \cup net.wrport : p[1] = m /\ p[3] = n
    BY <1>5 DEF Fed
  <2>2. p \in net.rdport => d \in RegEdges(i)
    BY <1>2, <1>3, <2>1 DEF UhbEdges, MemEdges
  <2>3. p \in net.wrport => d \in MemEdges(i)
    BY <1>2, <1>3, <2>1 DEF UhbEdges, RegEdges
  <2>4. <<m, n>> \in DataEdges(i)
    <3>1. CASE p \in net.rdport
      BY <1>3, <2>1, <2>2, <3>1 DEF DataEdges
    <3>2. CASE p \in net.wrport
      BY <1>3, <2>1, <2>3, <3>2 DEF DataEdges
    <3> QED
      BY <3>1, <3>2
  <2>5. <<m, n>> \in AllEdges(i)
    BY <1>5, <2>4 DEF AllEdges, NoLoops
  <2> QED
    BY <2>5 DEF Parents
<1> QED
  BY <1>4, <1>5

(* The accesses recorded of a node, whether or not it has any. *)
Found(i, n) == IF n \in DOMAIN loc_per_reg[i] THEN loc_per_reg[i][n] ELSE {}

(* A node is written at its stage and read before what it feeds is written *)
(* (util.h:342-354).                                                       *)
LEMMA AccessFacts ==
  ASSUME IInv, NEW i \in Instns, Built(i), NEW n
  PROVE  Found(i, n) =
           {[dep |-> k, write |-> TRUE] : k \in {j \in DOMAIN seq_uhb[i] : n \in seq_uhb[i][j]}}
           \cup {[dep |-> k - 1, write |-> FALSE] :
                   k \in {j \in DOMAIN seq_uhb[i] : \E q \in seq_uhb[i][j] : n \in Parents(i, q)}}
<1> DEFINE placed == UNION {{k} \X seq_uhb[i][k] : k \in DOMAIN seq_uhb[i]}
           nodes == UNION {{p[2]} \cup Parents(i, p[2]) : p \in placed}
           writes == {[dep |-> p[1], write |-> TRUE] : p \in {q \in placed : q[2] = n}}
           reads == {[dep |-> p[1] - 1, write |-> FALSE] : p \in {q \in placed : n \in Parents(i, q[2])}}
<1>1. loc_per_reg[i] = Accesses(i)
  BY DEF IInv, AccessInv
<1>2. DOMAIN Accesses(i) = nodes /\ (n \in nodes => Accesses(i)[n] = writes \cup reads)
  BY DEF Accesses
<1>3. \A k, q : <<k, q>> \in placed <=> k \in DOMAIN seq_uhb[i] /\ q \in seq_uhb[i][k]
  OBVIOUS
<1>4. ASSUME NEW p \in placed PROVE p[1] \in DOMAIN seq_uhb[i] /\ p[2] \in seq_uhb[i][p[1]]
  <2>1. PICK k \in DOMAIN seq_uhb[i] : p \in {k} \X seq_uhb[i][k]
    OBVIOUS
  <2> QED
    BY <2>1
<1>5. n \notin nodes => writes = {} /\ reads = {}
  OBVIOUS
<1>6. Found(i, n) = writes \cup reads
  BY <1>1, <1>2, <1>5 DEF Found
<1>7. writes = {[dep |-> k, write |-> TRUE] : k \in {j \in DOMAIN seq_uhb[i] : n \in seq_uhb[i][j]}}
  <2>1. ASSUME NEW p \in placed, p[2] = n
        PROVE  p[1] \in {j \in DOMAIN seq_uhb[i] : n \in seq_uhb[i][j]}
    BY <1>4, <2>1
  <2>2. ASSUME NEW k \in {j \in DOMAIN seq_uhb[i] : n \in seq_uhb[i][j]}
        PROVE  \E p \in placed : p[1] = k /\ p[2] = n
    <3>1. <<k, n>> \in placed /\ <<k, n>>[1] = k /\ <<k, n>>[2] = n
      BY <1>3
    <3> HIDE DEF placed
    <3> QED
      BY <3>1
  <2> HIDE DEF placed
  <2> QED
    BY <2>1, <2>2
<1>8. reads = {[dep |-> k - 1, write |-> FALSE] :
                 k \in {j \in DOMAIN seq_uhb[i] : \E q \in seq_uhb[i][j] : n \in Parents(i, q)}}
  <2>1. ASSUME NEW p \in placed, n \in Parents(i, p[2])
        PROVE  p[1] \in {j \in DOMAIN seq_uhb[i] : \E q \in seq_uhb[i][j] : n \in Parents(i, q)}
    BY <1>4, <2>1
  <2>2. ASSUME NEW k \in {j \in DOMAIN seq_uhb[i] : \E q \in seq_uhb[i][j] : n \in Parents(i, q)}
        PROVE  \E p \in placed : p[1] = k /\ n \in Parents(i, p[2])
    <3>1. PICK q \in seq_uhb[i][k] : n \in Parents(i, q)
      OBVIOUS
    <3>2. <<k, q>> \in placed /\ <<k, q>>[1] = k /\ <<k, q>>[2] = q
      BY <1>3
    <3> HIDE DEF placed
    <3> QED
      BY <3>1, <3>2
  <2> HIDE DEF placed
  <2> QED
    BY <2>1, <2>2
<1> QED
  BY <1>6, <1>7, <1>8

(* The accesses of a memory follow from the stages alone. *)
LEMMA AccessesSuffice == IInv => AccessesObserved
<1> SUFFICES ASSUME IInv, NEW i \in Instns, Built(i), NEW m \in net.mems
             PROVE  Found(i, m) =
                      {[dep |-> k, write |-> TRUE] : k \in {j \in DOMAIN seq_uhb[i] : m \in seq_uhb[i][j]}}
                      \cup {[dep |-> k - 1, write |-> FALSE] :
                              k \in {j \in DOMAIN seq_uhb[i] : Fed(m) \cap (seq_uhb[i][j] \ {m}) # {}}}
  BY DEF AccessesObserved, Found, Fed
<1>1. \A j \in DOMAIN seq_uhb[i] :
        (\E q \in seq_uhb[i][j] : m \in Parents(i, q)) <=> Fed(m) \cap (seq_uhb[i][j] \ {m}) # {}
  <2> SUFFICES ASSUME NEW j \in DOMAIN seq_uhb[i]
               PROVE  (\E q \in seq_uhb[i][j] : m \in Parents(i, q)) <=> Fed(m) \cap (seq_uhb[i][j] \ {m}) # {}
    OBVIOUS
  <2>1. \A q \in seq_uhb[i][j] : m \in Parents(i, q) <=> q \in Fed(m) \ {m}
    BY ReadWhere
  <2> QED
    BY <2>1
<1>2. {j \in DOMAIN seq_uhb[i] : \E q \in seq_uhb[i][j] : m \in Parents(i, q)}
      = {j \in DOMAIN seq_uhb[i] : Fed(m) \cap (seq_uhb[i][j] \ {m}) # {}}
  BY <1>1
<1> QED
  BY <1>2, AccessFacts

(* What is recorded of a memory in the stages before and at which it is    *)
(* accessed is what the inter-instruction phase takes for a design: no     *)
(* stage is empty, a memory that is read feeds something, and no element   *)
(* is at two stages.                                                       *)
LEMMA DesignSuffices == IInv /\ phase = "done" => Inter!DesignOK(Design)
<1> SUFFICES ASSUME IInv, phase = "done" PROVE Inter!DesignOK(Design)
  OBVIOUS
<1>1. ASSUME NEW i \in Instns, NEW m \in Memories(i), NEW a \in loc_per_reg[i][m], ~ a.write
      PROVE  Downstream(i, m) # {}
  <2>1. Built(i) /\ m \in DOMAIN loc_per_reg[i]
    BY DEF Built, Memories
  <2>2. a \in Found(i, m)
    BY <1>1, <2>1 DEF Found
  <2>3. PICK j \in DOMAIN seq_uhb[i] : \E q \in seq_uhb[i][j] : m \in Parents(i, q)
    BY <1>1, <2>1, <2>2, AccessFacts
  <2>4. PICK q \in seq_uhb[i][j] : m \in Parents(i, q)
    BY <2>3
  <2> QED
    BY <2>4 DEF Parents, Downstream
<1>2. ASSUME NEW i \in Instns, NEW m \in Memories(i) PROVE IsFiniteSet(Downstream(i, m))
  <2>1. \A e \in AllEdges(i) : e[2] \in updated[i]
    BY DEF AllEdges, NoLoops, DataEdges, UhbEdges, RegEdges, MemEdges, Result
  <2>2. Downstream(i, m) \subseteq Asked
    BY <2>1 DEF Downstream, IInv, ReadInv
  <2> QED
    BY <2>2, NetFacts, FS_Subset DEF IInv, AskInv
<1>3. /\ seq_uhb \in [1 .. net.instns -> Seq(SUBSET Asked)] /\ net.instns \in Nat \ {0}
      /\ Instns = 1 .. net.instns
  BY NetFacts DEF IInv, AskInv, LevelsInv, Instns
<1>4. Design.uhb = seq_uhb /\ DOMAIN seq_uhb = Instns
  BY <1>3 DEF Design
<1>5. \A i \in Instns : \A t \in DOMAIN seq_uhb[i] :
        seq_uhb[i][t] # {} /\ seq_uhb[i][t] \in SUBSET Inter!Elements(Design)
  <2>1. \A i \in Instns : \A t \in DOMAIN seq_uhb[i] : seq_uhb[i][t] # {}
    BY PlacedFacts
  <2> QED
    BY <1>4, <2>1 DEF Inter!Elements
<1>6. seq_uhb \in Seq(Seq((SUBSET Inter!Elements(Design)) \ {{}}))
  <2>1. ASSUME NEW i \in Instns PROVE seq_uhb[i] \in Seq((SUBSET Inter!Elements(Design)) \ {{}})
    <3>1. seq_uhb[i] \in Seq(SUBSET Asked)
      BY <1>3
    <3> QED
      BY <1>5, <3>1, SeqDef
  <2> QED
    BY <1>3, <2>1, SeqDef
<1>7. seq_uhb # << >>
  BY <1>3
<1>8. ASSUME NEW i \in DOMAIN Design.uhb, NEW m \in DOMAIN Design.loc[i]
      PROVE  /\ IsFiniteSet(Design.loc[i][m]) /\ IsFiniteSet(Design.down[i][m])
             /\ \A a \in Design.loc[i][m] : ~ a.write => Design.down[i][m] # {}
  <2>1. i \in Instns /\ m \in Memories(i)
    BY <1>4 DEF Design
  <2>2. Design.loc[i][m] = loc_per_reg[i][m] /\ Design.down[i][m] = Downstream(i, m)
    BY <2>1 DEF Design
  <2>3. IsFiniteSet(loc_per_reg[i][m])
    <3>1. Built(i) /\ m \in DOMAIN loc_per_reg[i]
      BY <2>1 DEF Built, Memories
    <3> DEFINE D == DOMAIN seq_uhb[i]
               f == [p \in D \X BOOLEAN |->
                       IF p[2] THEN [dep |-> p[1], write |-> TRUE] ELSE [dep |-> p[1] - 1, write |-> FALSE]]
               T == {f[p] : p \in D \X BOOLEAN}
    <3>2. loc_per_reg[i][m] \subseteq T
      <4>1. \A k \in D : f[<<k, TRUE>>] = [dep |-> k, write |-> TRUE] /\ f[<<k, FALSE>>] = [dep |-> k - 1, write |-> FALSE]
        OBVIOUS
      <4>2. \A k \in D : [dep |-> k, write |-> TRUE] \in T /\ [dep |-> k - 1, write |-> FALSE] \in T
        <5> SUFFICES ASSUME NEW k \in D PROVE f[<<k, TRUE>>] \in T /\ f[<<k, FALSE>>] \in T
          BY <4>1
        <5> QED
          OBVIOUS
      <4> HIDE DEF T
      <4>3. loc_per_reg[i][m] = Found(i, m)
        BY <3>1 DEF Found
      <4>4. Found(i, m) \subseteq T
        <5> DEFINE W == {j \in D : m \in seq_uhb[i][j]}
                   R == {j \in D : \E q \in seq_uhb[i][j] : m \in Parents(i, q)}
        <5>1. Found(i, m) = {[dep |-> k, write |-> TRUE] : k \in W} \cup {[dep |-> k - 1, write |-> FALSE] : k \in R}
          BY <2>1, <3>1, AccessFacts
        <5>2. W \subseteq D /\ R \subseteq D
          OBVIOUS
        <5> HIDE DEF D, W, R, f
        <5> QED
          BY ONLY <4>2, <5>1, <5>2
      <4> QED
        BY <4>3, <4>4
    <3>3. IsFiniteSet(D)
      <4>1. Len(seq_uhb[i]) \in Nat /\ D = 1 .. Len(seq_uhb[i])
        BY <1>3, <2>1, LenProperties
      <4> QED
        BY <4>1, FS_Interval
    <3>4. IsFiniteSet(BOOLEAN)
      BY FS_Interval, FS_AddElement, FS_EmptySet, BOOLEAN = ({} \cup {TRUE}) \cup {FALSE}
    <3>5. f \in Surjection(D \X BOOLEAN, T)
      BY DEF Surjection
    <3> HIDE DEF D, f, T
    <3>6. IsFiniteSet(T)
      BY <3>3, <3>4, <3>5, FS_Product, FS_Surjection
    <3> QED
      BY <3>2, <3>6, FS_Subset
  <2> QED
    BY <1>1, <1>2, <2>1, <2>2, <2>3
<1>9. ASSUME NEW S, IsFiniteSet(S) PROVE Inter!IsFiniteSet(S)
  BY <1>9 DEF IsFiniteSet, Inter!IsFiniteSet
<1>10. \A i \in Instns : \A t \in DOMAIN seq_uhb[i] : IsFiniteSet(seq_uhb[i][t])
  <2> SUFFICES ASSUME NEW i \in Instns, NEW t \in DOMAIN seq_uhb[i] PROVE IsFiniteSet(seq_uhb[i][t])
    OBVIOUS
  <2>1. seq_uhb[i][t] \subseteq Asked
    BY PlacedFacts
  <2> QED
    BY <2>1, NetFacts, FS_Subset DEF IInv, AskInv
<1>11. ASSUME NEW i \in Instns, NEW j \in Instns, NEW t \in DOMAIN seq_uhb[i],
              NEW u \in DOMAIN seq_uhb[j], seq_uhb[i][t] \cap seq_uhb[j][u] # {}
       PROVE  t = u
  <2>1. PICK n \in seq_uhb[i][t] : n \in seq_uhb[j][u]
    BY <1>11
  <2> QED
    BY <2>1, PlacedFacts
<1>12. ASSUME NEW i \in Instns, NEW m \in Memories(i), NEW j \in Instns, NEW t \in DOMAIN seq_uhb[j],
              m \in seq_uhb[j][t]
       PROVE  m \in Memories(j)
  <2>1. Built(j) /\ m \in net.mems
    BY DEF Built, Memories
  <2>2. Found(j, m) # {}
    <3>1. {[dep |-> k, write |-> TRUE] : k \in {l \in DOMAIN seq_uhb[j] : m \in seq_uhb[j][l]}} \subseteq Found(j, m)
      BY <2>1, AccessFacts
    <3>2. [dep |-> t, write |-> TRUE] \in {[dep |-> k, write |-> TRUE] : k \in {l \in DOMAIN seq_uhb[j] : m \in seq_uhb[j][l]}}
      BY <1>12
    <3> QED
      BY <3>1, <3>2
  <2> QED
    BY <2>1, <2>2 DEF Found, Memories
<1>13. ASSUME NEW i \in DOMAIN Design.uhb, NEW m \in DOMAIN Design.loc[i], NEW j \in DOMAIN Design.uhb,
              NEW t \in DOMAIN Design.uhb[j], m \in Design.uhb[j][t]
       PROVE  m \in DOMAIN Design.loc[j]
  <2>1. i \in Instns /\ j \in Instns /\ t \in DOMAIN seq_uhb[j] /\ m \in seq_uhb[j][t]
    BY <1>4, <1>13
  <2>2. m \in Memories(i)
    BY <2>1 DEF Design
  <2>3. m \in Memories(j)
    BY <1>12, <2>1, <2>2
  <2> QED
    BY <2>1, <2>3 DEF Design
<1>14. ASSUME NEW i \in DOMAIN Design.uhb PROVE IsFiniteSet(DOMAIN Design.loc[i])
  <2>1. i \in Instns
    BY <1>4, <1>14
  <2>2. DOMAIN Design.loc[i] \in SUBSET net.mems
    BY <2>1 DEF Design, Memories
  <2>3. IsFiniteSet(net.mems)
    BY NetlistsAssumption DEF IInv, AskInv
  <2> QED
    BY <2>2, <2>3, FS_Subset
<1> QED
  BY <1>4, <1>6, <1>7, <1>8, <1>9, <1>10, <1>11, <1>13, <1>14 DEF Inter!DesignOK

(* What the phase leaves is a design. *)
LEMMA ProducesSuffice == IInv => ProducesDesign
<1> SUFFICES ASSUME IInv PROVE ProducesDesign
  OBVIOUS
<1>1. AccessesObserved
  BY AccessesSuffice
<1>2. phase = "done" => Inter!DesignOK(Design)
  BY DesignSuffices
<1> QED
  BY <1>1, <1>2 DEF ProducesDesign

(* Memories are read and written when the path says, and the phase ends    *)
(* with a design as the inter-instruction phase assumes it (dfg.h:408-501, *)
(* inter_hbi.h).                                                           *)
THEOREM DesignProduced == Spec => []ProducesDesign
BY Invariance, ProducesSuffice, PTL
=============================================================================
