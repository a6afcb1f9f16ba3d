----------------------------- MODULE InterPhase -----------------------------
(***************************************************************************)
(* The inter-instruction phase from hypothesis to verdict: generate        *)
(* numbers the files (InterHbi), the property checker, an external tool,   *)
(* writes hbi_meta.txt.res, parse_result applies its verdicts by number    *)
(* (ParseResult).  The last invocation of the pass generates again before  *)
(* it parses; the same inputs give the same numbers.                       *)
(***************************************************************************)
EXTENDS InterHbi

CONSTANTS
  NoFile,
  CheckerVerdicts,  \* verdicts other than proven the checker may report
  MaxUnproven       \* bound: files for which it reports one of them

VARIABLES resfile, stage, line, sva_result, chk, track, stack_res, placed

Parser == INSTANCE ParseResult

parser == <<resfile, stage, line, sva_result, chk, track, stack_res, placed>>
allvars == <<vars, parser>>

(* The checker decides the files of hbi_meta in their order.  It may still *)
(* be writing when the file is opened: what can be read then is a prefix,  *)
(* which may end in the middle of a line, whose number may lose digits and *)
(* whose verdict is lost; an empty line may follow the last one.           *)
Outcomes ==
  UNION {[unproven -> CheckerVerdicts] :
           unproven \in {u \in SUBSET DOMAIN hbi_meta : Cardinality(u) <= MaxUnproven}}
ResultLine(outcome, f) ==
  Parser!Line(f, IF f \in DOMAIN outcome THEN outcome[f] ELSE "proven", TRUE)
Torn(f) == {Parser!Line(n, "na", FALSE) : n \in {f} \cup (IF f < 10 THEN {} ELSE {f \div 10})}

WriteResults ==
  /\ phase = "done" /\ resfile = NoFile
  /\ \/ resfile' \in {<< >>, <<Parser!Header(FALSE)>>}
     \/ \E outcome \in Outcomes, n \in 0 .. hbi_cntr :
          LET whole == <<Parser!Header(TRUE)>> \o [k \in 1 .. n |-> ResultLine(outcome, k - 1)]
          IN /\ DOMAIN outcome \subseteq 0 .. n - 1
             /\ \/ resfile' = whole
                \/ resfile' = Append(whole, Parser!Blank)
                \/ n > 0 /\ resfile' = [whole EXCEPT ![n + 1].eol = FALSE]
                \/ n < hbi_cntr /\ \E last \in Torn(n) : resfile' = Append(whole, last)
  /\ UNCHANGED <<vars, stage, line, sva_result, chk, track, stack_res, placed>>

AllInit == Init /\ resfile = NoFile /\ Parser!InitLocals

AllNext ==
  \/ Next /\ UNCHANGED parser
  \/ WriteResults
  \/ phase = "done" /\ Parser!Next /\ UNCHANGED vars

AllSpec == AllInit /\ [][AllNext]_allvars

(* The pass runs to its end; so does the checker, which the user starts    *)
(* between two invocations.                                                *)
AllFairSpec == AllSpec /\ WF_allvars(AllNext)

ProvenOnlyIfChainProven == Parser!ProvenOnlyIfChainProven

(* A verdict placed on a hypothesis is one its own file can justify: the   *)
(* file asserts the hypothesis, and the checker reported it proven,        *)
(* although its results may be read before they are complete, with the     *)
(* last line cut short.                                                    *)
VerdictMeansHypothesis ==
  \A p \in placed : p.itm.seq # -1 /\ p.res = "proven" =>
    /\ Parser!Reported(p.itm.seq)
    /\ CASE p.itm.type = "data" -> FlowAnswers(p.itm, files[p.itm.seq])
         [] p.itm.next # -1     -> AccessAnswers(p.itm, files[p.itm.seq])
         [] OTHER               -> PcrAnswers(p.itm, files[p.itm.seq])

(* The wait for verdicts ends and every hypothesis that is not an inner    *)
(* link of a chain gets one, once a file whose last line is terminated is  *)
(* there, or a failed assertion ends it.                                   *)
Terminated == resfile # NoFile /\ (resfile = << >> \/ resfile[Len(resfile)].eol)
VerdictsApplied ==
  <>(\/ stage = "parsed" /\ Parser!AllBinned
     \/ stage = "abort" \/ phase = "abort" \/ (resfile # NoFile /\ ~ Terminated))
=============================================================================
