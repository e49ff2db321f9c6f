------------------------------ MODULE Targeting ------------------------------
(***************************************************************************)
(* The targeting predicate and the repair target of src/CR/IN.py, and the  *)
(* two places src/CR/CR.py applies them to one individual's analyzer       *)
(* results: the hard fitness values (problemDectionScore_general) and     *)
(* plausibility (isPatchPlausible over the vulnerability map that         *)
(* evaluatePopulation keeps), and the fault specifier src/CR/Utils.py     *)
(* builds from that map.  The state machine follows one individual from   *)
(* the results detectPatch returned, under CR.repair's targeting          *)
(* arguments, through evaluation and the plausibility check to its fault  *)
(* specifier; the operators are checked against reference definitions    *)
(* taken from the spec, over every argument and result in a small box.     *)
(*                                                                         *)
(* A vulnerability is a record: its class (the Python class that decides   *)
(* which isTargeted runs), its name, and its fault localization: a         *)
(* sequence of elements, or NoArg for None.  A fault element is a          *)
(* CodeRange or a node-type element (whose fields play no part here).      *)
(* NoArg also stands for a None targetedVul or targetedLoc argument.       *)
(***************************************************************************)
EXTENDS Integers, Sequences, SequencesExt

CONSTANTS
  VulNames,   \* vulnerability names and test paths
  Lines,      \* line numbers of locations
  Columns,    \* column numbers of locations
  NoArg       \* Python's None

-----------------------------------------------------------------------------
(***************************************************************************)
(* Location and CodeRange: attrs cmp=True compares (line, column) tuples.  *)
(***************************************************************************)
Locs == [line : Lines, column : Columns]

LocLeq(a, b) == a.line < b.line \/ (a.line = b.line /\ a.column <= b.column)

CodeRanges == {r \in [start : Locs, end : Locs] : LocLeq(r.start, r.end)}

\* Faulty variant: only the first disjunct (self starts inside other).
IntersectWithOneSided(a, b) == LocLeq(b.start, a.start) /\ LocLeq(a.start, b.end)

(***************************************************************************)
(* CodeRange.intersectWith                                                 *)
(***************************************************************************)
IntersectWith(a, b) ==
  \/ LocLeq(b.start, a.start) /\ LocLeq(a.start, b.end)
  \/ LocLeq(a.start, b.start) /\ LocLeq(b.start, a.end)

-----------------------------------------------------------------------------
(***************************************************************************)
(* isTargeted, dispatched on the class as Python's MRO does it.           *)
(*   "Detected"  DetectedVulnerability (what Slither reports)             *)
(*   "FastFail"  DetectedVulnerability_FastFail                           *)
(*   "Failed"    ETC's FailedTestCase(DetectedVulnerability,              *)
(*               TestCaseExecutionResult): super() in DetectedVulnerability*)
(*               .isTargeted reaches TestCaseExecutionResult.isTargeted    *)
(*   "Passed"    ETC's PassedTestCase(NonDetectedVulnerability,           *)
(*               TestCaseExecutionResult)                                  *)
(***************************************************************************)
DetectedClasses == {"Detected", "FastFail", "Failed"}

IsDetected(v) == v.cls \in DetectedClasses

\* VulnerabilityInfo.isTargeted
InfoTargeted(v, tv) == IF tv = NoArg THEN IsDetected(v) ELSE v.name \in tv

\* TestCaseExecutionResult.isTargeted
TestCaseTargeted(v) == IsDetected(v)


\* The location clause of DetectedVulnerability.isTargeted.
LocTargeted(v, tl) ==
  \/ v.fl = NoArg \/ tl = NoArg
  \/ \E e \in ToSet(v.fl), r \in ToSet(tl) :
       e.kind = "range" /\ IntersectWith(e.range, r)

IsTargeted(v, tv, tl) ==
  CASE v.cls = "FastFail" -> TRUE
    [] v.cls = "Detected" -> InfoTargeted(v, tv) /\ LocTargeted(v, tl)
    [] v.cls = "Failed"   -> TestCaseTargeted(v) /\ LocTargeted(v, tl)
    [] v.cls = "Passed"   -> TestCaseTargeted(v)

(***************************************************************************)
(* The count RepairTarget_Detector_Target_Remaining.isTargetFulfilled     *)
(* takes: the vulnerabilities of a result that are targeted.              *)
(***************************************************************************)
TargetedCount(s, tv, tl) == Len(SelectSeq(s, LAMBDA v : IsTargeted(v, tv, tl)))


\* Faulty variant: the count without its sign.
ScoreUnsigned(s, tv, tl) ==
  Len(SelectSeq(s, LAMBDA v : IsDetected(v) /\ IsTargeted(v, tv, tl)))

(***************************************************************************)
(* CR.problemDectionScore_general: minus the number of targeted detected  *)
(* vulnerabilities (the hard value of one analyzer).                       *)
(***************************************************************************)
Score(s, tv, tl) ==
  -Len(SelectSeq(s, LAMBDA v : IsDetected(v) /\ IsTargeted(v, tv, tl)))

(***************************************************************************)
(* evaluatePopulation's ind.vulnerability: per analyzer its detected      *)
(* vulnerabilities, analyzers with none left out.                         *)
(***************************************************************************)
VulnerabilityMap(rsts) ==
  LET kept == {d \in DOMAIN rsts : SelectSeq(rsts[d], IsDetected) # <<>>}
  IN [d \in kept |-> SelectSeq(rsts[d], IsDetected)]

-----------------------------------------------------------------------------
(***************************************************************************)
(* Repair targets: Remaining(n), and Repaired(original, repaired) whose   *)
(* num_remaining is original - repaired, or 0 when repaired is infinite.   *)
(***************************************************************************)
Inf == 1000   \* math.inf: above any count the model reaches

NumRemaining(t) ==
  IF t.kind = "Remaining" THEN t.n
  ELSE IF t.repaired = Inf THEN 0 ELSE t.original - t.repaired

\* Faulty variant: at most n is read as fewer than n.
DetectorTargetStrict(t, s, tv, tl) == NumRemaining(t) > TargetedCount(s, tv, tl)

\* RepairTarget_Detector_Target_Remaining.isTargetFulfilled
DetectorTargetFulfilled(t, s, tv, tl) == NumRemaining(t) >= TargetedCount(s, tv, tl)

(***************************************************************************)
(* CR.isPatchPlausible: RepairTarget.isTargetFulfilled over the analyzers  *)
(* of the individual's vulnerability map; `target` is the defaultdict with *)
(* its defaults filled in.                                                 *)
(***************************************************************************)
IsPatchPlausible(vmap, tv, tl, target) ==
  \A d \in DOMAIN vmap : DetectorTargetFulfilled(target[d], vmap[d], tv, tl)

-----------------------------------------------------------------------------
(***************************************************************************)
(* Fault localization (src/CR/Utils.py).  FaultLocalization.toSpecifierStr *)
(* sorts the frozenset of elements by (type(x).__name__, x): the class    *)
(* name puts every FaultElement_CodeRange before every                    *)
(* FaultElement_NodeType, and attrs compares a CodeRange element as       *)
(* (weigh, codeRange), weigh always None, so by (start, end).  Each        *)
(* element becomes one `;`-separated token; the specifier is kept as the  *)
(* sequence of its tokens, a token as the element it prints.              *)
(***************************************************************************)
LocLess(a, b) == LocLeq(a, b) /\ a # b

\* Faulty variant: ranges ordered by their end first.
FaultLessEndFirst(a, b) ==
  \/ a.kind = "range" /\ b.kind = "node"
  \/ /\ a.kind = "range" /\ b.kind = "range"
     /\ \/ LocLess(a.range.end, b.range.end)
        \/ a.range.end = b.range.end /\ LocLess(a.range.start, b.range.start)

FaultLess(a, b) ==
  \/ a.kind = "range" /\ b.kind = "node"
  \/ /\ a.kind = "range" /\ b.kind = "range"
     /\ \/ LocLess(a.range.start, b.range.start)
        \/ a.range.start = b.range.start /\ LocLess(a.range.end, b.range.end)

ToSpecifierStr(elements) == SetToSortSeq(elements, FaultLess)

\* isinstance(vul, DetectedVulnerability): Detected, FastFail and Failed.
IsDetectedVulnerability(v) == v.cls \in DetectedClasses

(***************************************************************************)
(* faultLocalizationFromDetectionResults: the elements of every detected, *)
(* targeted vulnerability that carries fault information, as a set (the   *)
(* frozenset of toSpecifierStr).                                           *)
(***************************************************************************)
FaultLocalizationFromDetectionResults(vmap, tv, tl) ==
  LET vuls == UNION {ToSet(vmap[d]) : d \in DOMAIN vmap}
  IN UNION {ToSet(v.fl) : v \in {v \in vuls : /\ IsDetectedVulnerability(v)
                                             /\ IsTargeted(v, tv, tl)
                                             /\ v.fl # NoArg}}

-----------------------------------------------------------------------------
(***************************************************************************)
(* The arguments of CR.repair the CLI passes (targetVul and targetLoc: None *)
(* or a non-empty list; repair_target: a defaultdict of conditions), and   *)
(* what detectPatch can return for one individual when fastFail is off:    *)
(* Slither's DetectedVulnerability, whose fault tuple lists node-type      *)
(* elements then code ranges and is never None, and ETC's test cases,     *)
(* which carry no fault localization.                                      *)
(***************************************************************************)
Analyzers == {"Slither", "ETC"}

NodeElement == [kind |-> "node"]
RangeElement(r) == [kind |-> "range", range |-> r]
FaultElements == {NodeElement} \cup {RangeElement(r) : r \in CodeRanges}

SlitherFaults ==
  {<<>>, <<NodeElement>>} \cup {<<RangeElement(r)>> : r \in CodeRanges}
    \cup {<<NodeElement, RangeElement(r)>> : r \in CodeRanges}

SlitherVuls == [cls : {"Detected"}, name : VulNames, fl : SlitherFaults]
SlitherResults == {<<>>} \cup {<<v>> : v \in SlitherVuls}
SlitherPairs == {<<v, w>> : v, w \in SlitherVuls}

TestCases == [cls : {"Passed", "Failed"}, name : VulNames, fl : {NoArg}]
EtcResults == {<<>>} \cup {<<t>> : t \in TestCases} \cup {<<t, u>> : t, u \in TestCases}

TargetVulArgs == {NoArg} \cup (SUBSET VulNames \ {{}})
TargetLocArgs == {NoArg} \cup {<<r>> : r \in CodeRanges}

Conditions ==
  {[kind |-> "Remaining", n |-> n] : n \in 0..1}
    \cup {[kind |-> "Repaired", original |-> 2, repaired |-> 1],
          [kind |-> "Repaired", original |-> 1, repaired |-> Inf]}
Default == [kind |-> "Remaining", n |-> 0]
RepairTargets ==
  {[d \in Analyzers |-> Default]}
    \cup {[d \in Analyzers |-> IF d = a THEN c ELSE Default] : a \in Analyzers, c \in Conditions}

VARIABLES
  targetedVul, targetedLoc, repairTarget,  \* CR.repair's arguments
  results,        \* what detectPatch returned for the individual
  hard,           \* ind.fitness.values, one hard value per analyzer
  vulnerability,  \* ind.vulnerability
  plausible,      \* what isPatchPlausible answered
  specifier,      \* the fault specifier computed from the individual
  mutationSpace,  \* what the engine gets from it: the specifier, or NoArg (None)
  phase           \* "detected", "evaluated", "judged", "localized"

vars == <<targetedVul, targetedLoc, repairTarget, results, hard,
          vulnerability, plausible, specifier, mutationSpace, phase>>

Init ==
  /\ targetedVul \in TargetVulArgs
  /\ targetedLoc \in TargetLocArgs
  \* Two Slither detections only under RepairTarget(), which the CLI passes.
  /\ \/ /\ repairTarget \in RepairTargets
        /\ results \in {[d \in Analyzers |-> IF d = "Slither" THEN s ELSE e] :
                          s \in SlitherResults, e \in EtcResults}
     \/ /\ repairTarget = [d \in Analyzers |-> Default]
        /\ results \in {[d \in Analyzers |-> IF d = "Slither" THEN p ELSE <<>>] :
                          p \in SlitherPairs}
  /\ hard = [d \in Analyzers |-> 0]
  /\ vulnerability = [d \in {} |-> <<>>]
  /\ plausible = FALSE
  /\ specifier = <<>>
  /\ mutationSpace = NoArg
  /\ phase = "detected"

(***************************************************************************)
(* evaluatePopulation after its gather: evaluateFn (calculateFitness, then *)
(* fitnessFn_ProblemDection over the results just gathered) gives the hard *)
(* values, and the vulnerability map keeps the detected vulnerabilities.   *)
(***************************************************************************)
Evaluate ==
  /\ phase = "detected"
  /\ hard' = [d \in Analyzers |-> Score(results[d], targetedVul, targetedLoc)]
  /\ vulnerability' = VulnerabilityMap(results)
  /\ phase' = "evaluated"
  /\ UNCHANGED <<targetedVul, targetedLoc, repairTarget, results, plausible, specifier, mutationSpace>>

\* The plausibility filter of CR.repair over the new candidates.
Judge ==
  /\ phase = "evaluated"
  /\ plausible' = IsPatchPlausible(vulnerability, targetedVul, targetedLoc, repairTarget)
  /\ phase' = "judged"
  /\ UNCHANGED <<targetedVul, targetedLoc, repairTarget, results, hard, vulnerability, specifier, mutationSpace>>

LocalizedAs(sp, arg) ==
  /\ specifier' = sp /\ mutationSpace' = arg
  /\ phase' = "localized"
  /\ UNCHANGED <<targetedVul, targetedLoc, repairTarget, results, hard, vulnerability, plausible>>

Specifier == ToSpecifierStr(
               FaultLocalizationFromDetectionResults(vulnerability, targetedVul, targetedLoc))

(***************************************************************************)
(* CR.repair for the original, when no fault-space-specifier was given     *)
(* (after the early return for an empty map): the specifier is stored and  *)
(* handed to patchSource, and to every seeding request, as it is.          *)
(***************************************************************************)
LocalizeOriginal ==
  /\ phase = "judged" /\ DOMAIN vulnerability # {}
  /\ LocalizedAs(Specifier, Specifier)

(***************************************************************************)
(* CR.repair for a parent (not plausible, or the search would have ended)  *)
(* before it is mutated: an empty specifier is passed as None.            *)
(***************************************************************************)
LocalizeParent ==
  /\ phase = "judged" /\ ~plausible
  /\ LocalizedAs(Specifier, IF Specifier = <<>> THEN NoArg ELSE Specifier)

\* The individual has been judged or localized; nothing more happens to it.
Judged == phase \in {"judged", "localized"} /\ UNCHANGED vars

Next == Evaluate \/ Judge \/ LocalizeOriginal \/ LocalizeParent \/ Judged

Spec == Init /\ [][Next]_vars /\ WF_vars(Evaluate \/ Judge \/ LocalizeOriginal \/ LocalizeParent)

-----------------------------------------------------------------------------
TypeOK ==
  /\ targetedVul \in TargetVulArgs /\ targetedLoc \in TargetLocArgs
  /\ repairTarget \in RepairTargets
  /\ hard \in [Analyzers -> -2..0]
  /\ DOMAIN vulnerability \subseteq Analyzers
  /\ plausible \in BOOLEAN
  /\ specifier \in Seq(FaultElements)
  /\ mutationSpace \in Seq(FaultElements) \cup {NoArg}
  /\ phase \in {"detected", "evaluated", "judged", "localized"}

(***************************************************************************)
(* Reference definitions, from the spec: a CodeRange is the closed        *)
(* interval [start, end] of locations; a vulnerability is targeted when   *)
(* it is listed by name (or detected, when no names are given) and, when  *)
(* it has fault information and ranges are targeted, one of its ranges    *)
(* meets one of them; Remaining(n) allows at most n targeted detections   *)
(* and Repaired(o, r) is Remaining(o - r), or Remaining(0) when r is      *)
(* infinite.                                                              *)
(***************************************************************************)
Covers(r, l) == LocLeq(r.start, l) /\ LocLeq(l, r.end)

Overlap(a, b) == \E l \in Locs : Covers(a, l) /\ Covers(b, l)

SpecTargeted(v, tv, tl) ==
  /\ IF tv = NoArg THEN IsDetected(v) ELSE v.name \in tv
  /\ \/ tl = NoArg \/ v.fl = NoArg
     \/ \E e \in ToSet(v.fl), r \in ToSet(tl) :
          e.kind = "range" /\ Overlap(e.range, r)

SpecAllowed(c) ==
  CASE c.kind = "Remaining" -> c.n
    [] c.repaired = Inf -> 0
    [] OTHER -> c.original - c.repaired

(***************************************************************************)
(* DetectedVulnerability.isTargeted, reached through the class hierarchy, *)
(* is the spec's targeting predicate on every Slither detection: across   *)
(* all pairs of ranges intersectWith is the overlap of two closed         *)
(* intervals (both orders of the start comparison are needed, and         *)
(* touching ends meet), node-type fault elements never match a location,  *)
(* and an empty fault tuple with targeted ranges is untargeted.           *)
(***************************************************************************)
TargetingAsSpecified ==
  \A i \in DOMAIN results["Slither"] :
    LET v == results["Slither"][i] IN
    IsTargeted(v, targetedVul, targetedLoc) <=> SpecTargeted(v, targetedVul, targetedLoc)

(***************************************************************************)
(* Plausibility agrees with the fitness: isPatchPlausible, computed on    *)
(* the vulnerability map (non-detections dropped, analyzers without a     *)
(* detection left out, the repair target's defaults filled in), holds iff *)
(* every analyzer's hard value, computed on the raw results by            *)
(* problemDectionScore_general, is within what the target allows.  The    *)
(* repair loop ranks by the one and stops on the other.                   *)
(***************************************************************************)
PlausibleAgreesWithFitness ==
  phase = "judged" =>
    (plausible <=> \A d \in Analyzers : -hard[d] <= SpecAllowed(repairTarget[d]))

(***************************************************************************)
(* Reference definitions, from the spec's fault localization formatter:   *)
(* the elements of every detected and targeted vulnerability of every     *)
(* analyzer, deduplicated and sorted by (variant tag, canonical fields),  *)
(* with LOC before TYPE and a range keyed by (l1, c1, l2, c2).            *)
(***************************************************************************)
RECURSIVE LexLess(_, _)
LexLess(s, t) ==
  /\ s # <<>>
  /\ \/ Head(s) < Head(t)
     \/ Head(s) = Head(t) /\ LexLess(Tail(s), Tail(t))

SpecKey(e) ==
  IF e.kind = "range"
  THEN <<0, e.range.start.line, e.range.start.column, e.range.end.line, e.range.end.column>>
  ELSE <<1, 0, 0, 0, 0>>

SpecElements(rsts, tv, tl) ==
  UNION {ToSet(v.fl) : v \in {v \in UNION {ToSet(rsts[d]) : d \in Analyzers} :
                                 IsDetected(v) /\ SpecTargeted(v, tv, tl) /\ v.fl # NoArg}}

(***************************************************************************)
(* The fault specifier the repair loop hands the mutation engine, built   *)
(* by faultLocalizationFromDetectionResults over the filtered             *)
(* vulnerability map and FaultLocalization.toSpecifierStr, lists each     *)
(* fault element of the detected and targeted vulnerabilities of the raw  *)
(* results exactly once, in the spec's canonical order, whatever order    *)
(* and repetition the detectors reported them in.                         *)
(***************************************************************************)
SpecifierAsSpecified ==
  phase = "localized" =>
    /\ ToSet(specifier) = SpecElements(results, targetedVul, targetedLoc)
    /\ \A i, j \in DOMAIN specifier :
         i < j => LexLess(SpecKey(specifier[i]), SpecKey(specifier[j]))

(***************************************************************************)
(* The spec's mutation engine client treats the empty specifier as no     *)
(* specifier: an individual whose targeted detections carry no fault      *)
(* element must reach the engine with None, never as --mutation-space=    *)
(* or an empty overridenFaultSpaceSpecifier.  CR.repair converts '' to    *)
(* None for a parent but not for the original's seed specifier.           *)
(***************************************************************************)
EmptySpecifierIsNone ==
  phase = "localized" => mutationSpace # <<>>

=============================================================================
