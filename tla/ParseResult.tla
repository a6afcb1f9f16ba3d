----------------------------- MODULE ParseResult -----------------------------
(***************************************************************************)
(* USPEC_GEN::parse_result, get_res and place_bin (dumpuspec.h): read the  *)
(* verdicts of hbi_meta.txt.res by file number, fold the verdicts of a     *)
(* chain of files into one, and bin every hypothesis with its verdict.     *)
(***************************************************************************)
EXTENDS Integers, Sequences, Tables

CONSTANT NoFile  \* stands for a hbi_meta.txt.res that does not exist

VARIABLES
  hbi_checkings,  \* from Inter_HBI: hypotheses in the order they were pushed
  hbi_inferred,   \* from Inter_HBI: hypotheses that need no check
  resfile,        \* lines of hbi_meta.txt.res that can be read, or NoFile
  stage,          \* wait, lines, fold, parsed, abort
  line,           \* lines read so far
  sva_result,     \* file number -> verdict
  chk,            \* index of the next hypothesis to fold
  track, stack_res,
  placed          \* contents of the three bins: [itm, res]

input == <<hbi_checkings, hbi_inferred, resfile>>
local == <<stage, line, sva_result, chk, track, stack_res, placed>>
vars == <<input, local>>

(* Lines of the file.  The last one may lack its newline (eol). *)
Verdicts == {"proven", "cex", "error", "undetermined", "na"}
Line(seq, verdict, eol) == [kind |-> "verdict", seq |-> seq, verdict |-> verdict, eol |-> eol]
Header(eol) == [kind |-> "header", seq |-> -3, verdict |-> "na", eol |-> eol]
Blank == [kind |-> "blank", seq |-> -3, verdict |-> "na", eol |-> TRUE]

(* The loop waits until the file can be opened.  An inferred hypothesis    *)
(* carries an assertion_res no constructor of hbi_res has initialised; the *)
(* first line is the header.                                               *)
Open ==
  /\ stage = "wait" /\ hbi_checkings # << >> /\ resfile # NoFile
  /\ stage' = "lines"
  /\ line' = IF resfile = << >> THEN 0 ELSE 1
  /\ \E garbage \in [hbi_inferred -> Verdicts] :
       placed' = {[itm |-> c, res |-> garbage[c]] : c \in hbi_inferred}
  /\ UNCHANGED <<input, sva_result, chk, track, stack_res>>

(* A later line for the same file replaces an earlier one. *)
ReadLine ==
  /\ stage = "lines" /\ line < Len(resfile) /\ resfile[line + 1] # Blank
  /\ line' = line + 1
  /\ sva_result' = Put(sva_result, resfile[line + 1].seq, resfile[line + 1].verdict)
  /\ UNCHANGED <<input, stage, chk, track, stack_res, placed>>

(* getline empties the string at an empty line, and at the end of the file *)
(* if it got a newline before.  After an unterminated line the stream is   *)
(* no longer good: getline leaves the string as it was, which is not       *)
(* empty, and the loop takes that line again and again, changing nothing.  *)
Unterminated == line > 0 /\ ~ resfile[line].eol
MutEndOfLines ==  \* mutant: an empty line does not end the loop
  /\ stage = "lines"
  /\ line = Len(resfile) /\ ~ Unterminated
  /\ stage' = "fold"
  /\ UNCHANGED <<input, line, sva_result, chk, track, stack_res, placed>>

EndOfLines ==
  /\ stage = "lines"
  /\ IF line = Len(resfile) THEN ~ Unterminated ELSE resfile[line + 1] = Blank
  /\ stage' = "fold"
  /\ UNCHANGED <<input, line, sva_result, chk, track, stack_res, placed>>

(* The assertion that there is something to read; std::stoi throws on the  *)
(* text of an unterminated header.                                         *)
Abort ==
  /\ \/ stage = "wait" /\ hbi_checkings = << >>
     \/ stage = "lines" /\ line = 1 /\ Len(resfile) = 1 /\ resfile[1] = Header(FALSE)
  /\ stage' = "abort"
  /\ UNCHANGED <<input, line, sva_result, chk, track, stack_res, placed>>

MutVerdictProven(seq) == IF seq \in DOMAIN sva_result THEN sva_result[seq] ELSE "proven"  \* mutant
Verdict(seq) == IF seq \in DOMAIN sva_result THEN sva_result[seq] ELSE "na"

MutFolded(t) == t  \* mutant: the last verdict wins
Folded(t) == IF track /\ t # stack_res THEN "na" ELSE t
Closes(c) == c.next \in {-1, -2}

(* One iteration of the loop over hbi_checkings: hypotheses are folded     *)
(* from the first link of a chain to the first hypothesis that closes.     *)
Fold ==
  /\ stage = "fold" /\ chk <= Len(hbi_checkings)
  /\ LET itm     == hbi_checkings[chk]
         t       == Verdict(itm.seq)
         chained == itm.next # -1
         closes  == Closes(itm)
     IN /\ stack_res' = IF chained THEN Folded(t) ELSE stack_res
        /\ track' = (~ closes /\ (track \/ chained))
        /\ placed' = IF closes
                     THEN placed \cup {[itm |-> itm, res |-> IF track \/ chained THEN stack_res' ELSE t]}
                     ELSE placed
  /\ chk' = chk + 1
  /\ UNCHANGED <<input, stage, line, sva_result>>

Return ==
  /\ stage = "fold" /\ chk > Len(hbi_checkings)
  /\ stage' = "parsed"
  /\ UNCHANGED <<input, line, sva_result, chk, track, stack_res, placed>>

InitLocals ==
  /\ stage = "wait" /\ line = 0 /\ sva_result = << >>
  /\ chk = 1 /\ track = FALSE /\ stack_res = "na" /\ placed = {}

Next == Open \/ ReadLine \/ EndOfLines \/ Abort \/ Fold \/ Return

-----------------------------------------------------------------------------

TypeOK ==
  /\ stage \in {"wait", "lines", "fold", "parsed", "abort"}
  /\ line \in Nat
  /\ \A k \in DOMAIN sva_result : k \in Int /\ sva_result[k] \in Verdicts
  /\ chk \in 1 .. Len(hbi_checkings) + 1
  /\ track \in BOOLEAN /\ stack_res \in Verdicts
  /\ \A p \in placed : p.res \in Verdicts

(* The files of the chain that ends with hypothesis c: those of the        *)
(* hypotheses about the same two nodes that lead to it.                    *)
ChainFiles(c) ==
  LET Leads(d) == /\ d.next # -1 /\ <<d.i1, d.i2, d.l1, d.l2>> = <<c.i1, c.i2, c.l1, c.l2>>
                  /\ d.seq \in c.seq - 2 .. c.seq
  IN {c.seq} \cup (IF c.next = -1 THEN {}
                   ELSE {hbi_checkings[k].seq : k \in {j \in DOMAIN hbi_checkings : Leads(hbi_checkings[j])}})

(* What the generated model relies on: an order is emitted as an axiom     *)
(* only when every check that it rests on was proven.  A process file      *)
(* assumes the receive order and says nothing of a request that was        *)
(* received out of order.                                                  *)
ProvenOnlyIfChainProven ==
  \A p \in placed : p.itm.seq # -1 /\ p.res = "proven" =>
    \A f \in ChainFiles(p.itm) : Verdict(f) = "proven"

(* The file the checker wrote has a proven line for file seq. *)
Reported(seq) == \E i \in 2 .. line, eol \in BOOLEAN : resfile[i] = Line(seq, "proven", eol)

(* Every hypothesis that is not an inner link of a chain is binned, with   *)
(* one verdict.                                                            *)
AllBinned ==
  /\ \A p, q \in placed : p.itm = q.itm => p = q
  /\ stage = "parsed" =>
       \A k \in DOMAIN hbi_checkings : hbi_checkings[k].next < 0 =>
         \E p \in placed : p.itm = hbi_checkings[k]
=============================================================================
