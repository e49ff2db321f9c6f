------------------------------- MODULE Repair -------------------------------
(***************************************************************************)
(* The MOGA repair loop of src/CR/CR.py (CR.repair and the helpers it      *)
(* awaits): evaluate the original, seed the population from the mutation  *)
(* engine, then generation by generation update the Pareto archive, stop  *)
(* on a plausible patch or on maxTrial, select with NSGA-II and breed by   *)
(* mutation (4 parents) or one-point crossover (their 6 pairs).            *)
(*                                                                         *)
(* An individual is an id; its fitness is what the analyzers report: per  *)
(* detector the number of targeted detected vulnerabilities, and whether  *)
(* it has detected vulnerabilities that are not targeted.  The mutation   *)
(* length (the soft objective) is left out: no comparison the model makes *)
(* depends on it.  The mutation engine (SolidityM.patchSource) is seen     *)
(* through what one asend returns: a patch, an empty tuple, the end of the *)
(* generator (StopAsyncIteration) or a fatal error.                        *)
(*                                                                         *)
(* The fitness comparisons are the ones of CR.Fitness under python -O:     *)
(* when two hard-value vectors are equal, dominates reaches the undefined  *)
(* name `profiling` and __eq__/__lt__ reach gas_dominates on gas_info =    *)
(* None; both raise.  With assertions on, setting soft_values (two values *)
(* for one soft weight) raises on the first evaluation.                    *)
(***************************************************************************)
EXTENDS Integers, FiniteSets, Sequences, SequencesExt

CONSTANTS
  Detectors,      \* the problem detectors (Slither, ETC)
  DetectorOrder,  \* their order in the fitness tuple
  MaxVul,         \* most targeted vulnerabilities one detector reports
  MaxPopulation,  \* maxSzPopulation
  InitSizes,      \* the values of num_init_population explored
  MaxTrials,      \* the values of maxTrial explored: a bound, or NoLimit
  NoLimit,
  Operators,      \* the operators rng.random() can pick given p_crossover
  MaxInds,        \* bound on the individuals created
  AssertModes,    \* TRUE: assertions on; FALSE: python -O
  EngineMayFail   \* whether a mutation-engine request may raise

ASSUME
  /\ DetectorOrder \in Seq(Detectors) /\ ToSet(DetectorOrder) = Detectors
  /\ MaxPopulation \in Nat \ {0} /\ InitSizes \subseteq Nat \ {0}
  /\ MaxTrials \subseteq Nat \cup {NoLimit} /\ MaxTrials # {}
  /\ Operators \subseteq {"mutate", "crossover"} /\ Operators # {}
  /\ MaxInds \in Nat /\ MaxInds >= 2
  /\ AssertModes \subseteq BOOLEAN /\ AssertModes # {} /\ EngineMayFail \in BOOLEAN

VARIABLES
  phase,      \* where repair is
  fit,        \* the fitness of each evaluated individual
  nInds,      \* individuals created so far (id 1 is the original)
  pop,        \* populations
  archive,    \* paretofront
  newCands,   \* newPatchCandidates
  numTried,   \* num_patch_tried
  parents,    \* parents still to mutate in this generation
  pairsLeft,  \* crossover pairs still to request in this generation
  engine,     \* "open" until the generator has returned
  numInit,    \* num_init_population of this run
  result,     \* the list of plausible patches returned
  error,      \* the exception repair raised, or "none"
  scored,     \* history: the individuals the archive has been updated with
  asserts,    \* whether the interpreter keeps assert statements
  maxTrial    \* repair's maxTrial argument (None: NoLimit)

vars == <<phase, fit, nInds, pop, archive, newCands, numTried, parents,
          pairsLeft, engine, numInit, result, error, scored, asserts, maxTrial>>

Original == 1
Ids == 1..MaxInds
NoFit == [hard |-> [d \in Detectors |-> 0], untargeted |-> FALSE, none |-> TRUE]
Fitnesses == [hard : [Detectors -> 0..MaxVul], untargeted : BOOLEAN, none : {FALSE}]
Phases == {"start", "first", "init", "top", "mutate", "crossover", "done", "failed"}
Errors == {"none", "AssertionError", "NameError", "AsendReentered",
           "IndexError", "StopAsyncIteration", "EngineError"}

-----------------------------------------------------------------------------
(***************************************************************************)
(* Fitness relations.  deap's base Fitness.dominates over the weighted     *)
(* hard values (weights 1.0 on scores -count): no detector worse and one  *)
(* better.  SameHard is where CR.Fitness.dominates and __eq__ raise.       *)
(***************************************************************************)
SameHard(x, y) == fit[x].hard = fit[y].hard

Dominates(x, y) ==
  /\ \A d \in Detectors : fit[x].hard[d] <= fit[y].hard[d]
  /\ \E d \in Detectors : fit[x].hard[d] < fit[y].hard[d]

\* Two distinct members of S whose comparison raises.
ClashIn(S) == \E x, y \in S : x # y /\ SameHard(x, y)

\* Fitness tuple order used by sorted()/selBest: wvalues compared lexicographically.
RECURSIVE LexBetterFrom(_, _, _)
LexBetterFrom(x, y, i) ==
  IF i > Len(DetectorOrder) THEN FALSE
  ELSE LET d == DetectorOrder[i] IN
       IF fit[x].hard[d] # fit[y].hard[d] THEN fit[x].hard[d] < fit[y].hard[d]
       ELSE LexBetterFrom(x, y, i + 1)

LexBetter(x, y) == LexBetterFrom(x, y, 1)

(***************************************************************************)
(* CR.isPatchPlausible with the default RepairTarget (Remaining(0) for    *)
(* every detector listed in the individual's vulnerability map).          *)
(***************************************************************************)
IsPlausible(x) == \A d \in Detectors : fit[x].hard[d] = 0

\* The plausible patches of a batch, in batch order.
PlausibleOf(s) == SelectSeq(s, IsPlausible)

\* The individual's vulnerability map is empty: nothing detected at all.
NoVulnerability(x) == IsPlausible(x) /\ ~fit[x].untargeted

-----------------------------------------------------------------------------
\* Faulty variant: parents taken from the population as it was before selNSGA2.
SelBestStale(S, k) ==
  LET best == {x \in pop : Cardinality({y \in pop : LexBetter(y, x)}) < k}
  IN SetToSortSeq(best, LexBetter)

(***************************************************************************)
(* deap tools.selBest(S, k): the k best by fitness, best first.           *)
(***************************************************************************)
SelBest(S, k) ==
  LET best == {x \in S : Cardinality({y \in S : LexBetter(y, x)}) < k}
  IN SetToSortSeq(best, LexBetter)

(***************************************************************************)
(* deap tools.selNSGA2(S, k): whole non-dominated fronts in rank order    *)
(* (the rank of x: the longest chain of individuals dominating it),      *)
(* the last one cut by crowding distance (left nondeterministic).  With    *)
(* |S| <= k every individual is kept.                                     *)
(***************************************************************************)
RECURSIVE Rank(_, _)
Rank(x, S) ==
  LET above == {y \in S : Dominates(y, x)} IN
  IF above = {} THEN 0 ELSE 1 + Max({Rank(y, S) : y \in above})

SelNSGA2Choices(S, k) ==
  IF Cardinality(S) <= k THEN {S}
  ELSE {C \in SUBSET S :
          /\ Cardinality(C) = k
          /\ \A x \in C, y \in S \ C : Rank(x, S) <= Rank(y, S)}

(***************************************************************************)
(* deap ParetoFront.update for one individual x, on an archive of        *)
(* mutually non-dominated members: a member with the same hard values is  *)
(* compared with dominates and raises; a dominating member keeps x out;   *)
(* otherwise x evicts the members it dominates and is inserted.            *)
(***************************************************************************)
\* Faulty variant: members dominated by the newcomer are not evicted.
UpdateOneKeep(A, x) ==
  IF \E a \in A : Dominates(a, x) THEN A ELSE A \cup {x}

UpdateOne(A, x) ==
  IF \E a \in A : Dominates(a, x) THEN A
  ELSE {a \in A : ~Dominates(x, a)} \cup {x}

\* The whole update fails when some x of the batch meets a same-hard member.
RECURSIVE UpdateRaises(_, _)
UpdateRaises(A, s) ==
  IF s = <<>> THEN FALSE
  ELSE \/ \E a \in A : SameHard(a, Head(s))
       \/ UpdateRaises(UpdateOne(A, Head(s)), Tail(s))

ParetoUpdate(A, s) == FoldLeft(UpdateOne, A, s)

\* itertools.combinations(offspringParent, 2): the number of pairs.
NumPairs(n) == (n * (n - 1)) \div 2

-----------------------------------------------------------------------------
\* What one patchGen.asend can give back.
EngineAnswers ==
  IF engine = "closed" THEN {"stop"}
  ELSE {"empty", "stop"} \cup (IF nInds < MaxInds THEN {"patch"} ELSE {})
         \cup (IF EngineMayFail THEN {"raise"} ELSE {})

EngineAfter(a) == IF a = "stop" THEN "closed" ELSE engine

Fail(e) ==
  /\ phase' = "failed" /\ error' = e
  /\ UNCHANGED <<fit, nInds, pop, archive, newCands, numTried, parents,
                 pairsLeft, engine, numInit, result, scored>>

(***************************************************************************)
(* evaluatePopulation: the analyzers report a fitness for each individual *)
(* of S.  (With assertions on, the first call, on the original, raises.)  *)
(***************************************************************************)
Evaluate(S) ==
  \E f \in [S -> Fitnesses] : fit' = [i \in Ids |-> IF i \in S THEN f[i] ELSE fit[i]]

(***************************************************************************)
(* Returning []: the finally clause then computes the patches better than *)
(* the original with dominates, which raises on the original itself while *)
(* the original is still in the archive.                                   *)
(***************************************************************************)
ReturnEmpty(A) ==
  IF \E a \in A : SameHard(a, Original)
  THEN phase' = "failed" /\ error' = "NameError" /\ result' = result
  ELSE phase' = "done" /\ error' = error /\ result' = <<>>

-----------------------------------------------------------------------------
(***************************************************************************)
(* The Fitness.soft_values setter asserts one value per soft weight, but   *)
(* calculateFitness returns the mutation length and the gas rank after the *)
(* hard values: two values for the single soft weight repair creates.  The *)
(* first evaluation raises exactly when assertions are kept.               *)
(***************************************************************************)
SoftValuesRaise == asserts

(***************************************************************************)
(* Evaluate the original; stop with it when its vulnerability map is      *)
(* empty; otherwise open the engine.                                      *)
(***************************************************************************)
EvaluateOriginal ==
  /\ phase = "start"
  /\ \/ SoftValuesRaise /\ Fail("AssertionError")
     \/ /\ ~SoftValuesRaise /\ Evaluate({Original})
        /\ IF NoVulnerability(Original)'
           THEN phase' = "done" /\ result' = <<Original>>
           ELSE phase' = "first" /\ result' = result
        /\ UNCHANGED <<nInds, pop, archive, newCands, numTried, parents,
                       pairsLeft, engine, numInit, error, scored>>

(***************************************************************************)
(* firstIndividual = (await patchGen.asend(None))[0], then evaluated: an  *)
(* empty answer raises IndexError, a finished generator                    *)
(* StopAsyncIteration.                                                     *)
(***************************************************************************)
FirstIndividual ==
  /\ phase = "first"
  /\ \E a \in EngineAnswers :
       \/ /\ a = "patch" /\ Evaluate({2})
          /\ nInds' = 2 /\ phase' = "init"
          /\ UNCHANGED <<pop, archive, newCands, numTried, parents,
                         pairsLeft, engine, numInit, result, error, scored>>
       \/ a = "empty" /\ Fail("IndexError")
       \/ a = "stop"  /\ Fail("StopAsyncIteration")
       \/ a = "raise" /\ Fail("EngineError")

(***************************************************************************)
(* asyncio.gather of num_init_population - 1 mutatePatchAndEvaluate((),..) *)
(* on the one generator.  The first task suspends inside asend on the IPC *)
(* with the children (a Mutate(()) request was never answered before), so *)
(* the second task's asend re-enters the running generator and raises     *)
(* RuntimeError; the client's lock is never reached.  A None result is     *)
(* dropped.  Then populations = [original, first, init...], the batch is  *)
(* [first, init..., original], and select(populations, len) compares every *)
(* pair of the population.                                                 *)
(***************************************************************************)
Seed(batch) ==
  /\ pop' = ToSet(batch) /\ newCands' = batch
  /\ IF ClashIn(ToSet(batch))'
     THEN phase' = "failed" /\ error' = "NameError"
     ELSE phase' = "top" /\ error' = error
  /\ UNCHANGED <<archive, numTried, parents, pairsLeft, numInit, result, scored>>

InitPopulation ==
  /\ phase = "init"
  /\ \/ numInit >= 3 /\ Fail("AsendReentered")
     \/ numInit = 1 /\ UNCHANGED <<fit, nInds, engine>> /\ Seed(<<2, Original>>)
     \/ /\ numInit = 2
        /\ \E a \in EngineAnswers :
             \/ a = "raise" /\ Fail("EngineError")
             \/ /\ a = "patch" /\ Evaluate({3})
                /\ nInds' = 3 /\ engine' = engine
                /\ Seed(<<2, 3, Original>>)
             \/ /\ a \in {"empty", "stop"}
                /\ engine' = EngineAfter(a)
                /\ UNCHANGED <<fit, nInds>>
                /\ Seed(<<2, Original>>)

-----------------------------------------------------------------------------
(***************************************************************************)
(* One pass of the generation loop up to the choice of operator: the      *)
(* statistics over the new batch (min/max compare fitnesses and may raise *)
(* on two of the same hard values), ParetoFront.update, the count of      *)
(* patches tried, the return of the batch's plausible patches, the        *)
(* maxTrial exit, selNSGA2 down to maxSzPopulation, then mutate with the  *)
(* 4 best as parents or crossover over the pairs of the 4 best.           *)
(***************************************************************************)
GenerationStep ==
  /\ phase = "top"
  /\ LET A == ParetoUpdate(archive, newCands)
         tried == numTried + Len(newCands)
         plausible == PlausibleOf(newCands)
         limitHit == maxTrial # NoLimit /\ tried >= maxTrial
     IN
     \/ ClashIn(ToSet(newCands)) /\ Fail("NameError")
     \/ UpdateRaises(archive, newCands) /\ Fail("NameError")
     \/ /\ ~UpdateRaises(archive, newCands)
        /\ plausible = <<>> /\ ~limitHit /\ ClashIn(pop)
        /\ Fail("NameError")
     \/ /\ ~UpdateRaises(archive, newCands)
        /\ archive' = A /\ scored' = scored \cup ToSet(newCands)
        /\ numTried' = tried
        /\ \/ /\ plausible # <<>>
              /\ phase' = "done" /\ result' = plausible
              /\ UNCHANGED <<error, pop, newCands, parents, pairsLeft>>
           \/ /\ plausible = <<>> /\ limitHit
              /\ ReturnEmpty(A)
              /\ UNCHANGED <<pop, newCands, parents, pairsLeft>>
           \/ /\ plausible = <<>> /\ ~limitHit /\ ~ClashIn(pop)
              /\ \E P \in SelNSGA2Choices(pop, MaxPopulation), op \in Operators :
                   /\ pop' = P /\ newCands' = <<>>
                   /\ parents' = SelBest(P, 4)
                   /\ phase' = op
                   /\ pairsLeft' = IF op = "crossover"
                                   THEN NumPairs(Len(parents'))
                                   ELSE 0
              /\ UNCHANGED <<result, error>>
        /\ UNCHANGED <<fit, nInds, engine, numInit>>

(***************************************************************************)
(* One parent of the mutate step: mutatePatchAndEvaluate.  An empty       *)
(* answer or the end of the generator gives None, and the parent leaves   *)
(* the population as unmutatable; an empty population returns [].  The    *)
(* fitness computed here belongs to an individual the loop then copies    *)
(* into a fresh creator.Individual, which the step evaluates again.       *)
(***************************************************************************)
\* Faulty variant: the unmutatable parent stays in the population.
MutateParentKeep ==
  /\ phase = "mutate" /\ parents # <<>>
  /\ LET p == Head(parents) IN
     \E a \in EngineAnswers :
       \/ a = "raise" /\ Fail("EngineError")
       \/ /\ a = "patch"
          /\ nInds' = nInds + 1 /\ newCands' = Append(newCands, nInds + 1)
          /\ parents' = Tail(parents)
          /\ UNCHANGED <<phase, fit, pop, archive, numTried, pairsLeft, engine,
                         numInit, result, error, scored>>
       \/ /\ a \in {"empty", "stop"}
          /\ engine' = EngineAfter(a)
          /\ pop' = pop /\ parents' = Tail(parents)
          /\ IF pop' = {}
             THEN ReturnEmpty(archive)
             ELSE UNCHANGED <<phase, result, error>>
          /\ UNCHANGED <<fit, nInds, archive, newCands, numTried, pairsLeft,
                         numInit, scored>>

MutateParent ==
  /\ phase = "mutate" /\ parents # <<>>
  /\ LET p == Head(parents) IN
     \E a \in EngineAnswers :
       \/ a = "raise" /\ Fail("EngineError")
       \/ /\ a = "patch"
          /\ nInds' = nInds + 1 /\ newCands' = Append(newCands, nInds + 1)
          /\ parents' = Tail(parents)
          /\ UNCHANGED <<phase, fit, pop, archive, numTried, pairsLeft, engine,
                         numInit, result, error, scored>>
       \/ /\ a \in {"empty", "stop"}
          /\ engine' = EngineAfter(a)
          /\ pop' = pop \ {p} /\ parents' = Tail(parents)
          /\ IF pop' = {}
             THEN ReturnEmpty(archive)
             ELSE UNCHANGED <<phase, result, error>>
          /\ UNCHANGED <<fit, nInds, archive, newCands, numTried, pairsLeft,
                         numInit, scored>>

(***************************************************************************)
(* One pair of the crossover step: crossoverOnePointPatch awaits asend    *)
(* with no handler, so the end of the generator escapes repair as         *)
(* StopAsyncIteration.                                                    *)
(***************************************************************************)
CrossoverPair ==
  /\ phase = "crossover" /\ pairsLeft > 0
  /\ \E a \in EngineAnswers :
       \/ a = "raise" /\ Fail("EngineError")
       \/ a = "stop" /\ Fail("StopAsyncIteration")
       \/ /\ a = "patch"
          /\ nInds' = nInds + 1 /\ newCands' = Append(newCands, nInds + 1)
          /\ pairsLeft' = pairsLeft - 1
          /\ UNCHANGED <<phase, fit, pop, archive, numTried, parents, engine,
                         numInit, result, error, scored>>
       \/ /\ a = "empty"
          /\ pairsLeft' = pairsLeft - 1
          /\ UNCHANGED <<phase, fit, nInds, pop, archive, newCands, numTried,
                         parents, engine, numInit, result, error, scored>>

(***************************************************************************)
(* End of the breeding step: evaluatePopulation(newPatchCandidates) and   *)
(* populations.extend(newPatchCandidates).                                *)
(***************************************************************************)
EvaluateOffspring ==
  /\ \/ phase = "mutate" /\ parents = <<>>
     \/ phase = "crossover" /\ pairsLeft = 0
  /\ Evaluate(ToSet(newCands))
  /\ pop' = pop \cup ToSet(newCands) /\ phase' = "top"
  /\ UNCHANGED <<nInds, archive, newCands, numTried, parents, pairsLeft,
                 engine, numInit, result, error, scored>>

\* repair has returned or raised.
Terminated ==
  /\ phase \in {"done", "failed"}
  /\ UNCHANGED vars

-----------------------------------------------------------------------------
\* Faulty variant: the count starts at zero and includes the original.
InitialTriedZero == 0

\* num_patch_tried starts at -1: the original, in the first batch, is not a try.
InitialTried == -1

Init ==
  /\ phase = "start"
  /\ fit = [i \in Ids |-> NoFit]
  /\ nInds = 1
  /\ pop = {Original}
  /\ archive = {}
  /\ newCands = <<>>
  /\ numTried = InitialTried
  /\ parents = <<>>
  /\ pairsLeft = 0
  /\ engine = "open"
  /\ numInit \in InitSizes
  /\ result = <<>>
  /\ error = "none"
  /\ scored = {}
  /\ asserts \in AssertModes
  /\ maxTrial \in MaxTrials

Step ==
  /\ \/ EvaluateOriginal \/ FirstIndividual \/ InitPopulation
     \/ GenerationStep \/ MutateParent \/ CrossoverPair \/ EvaluateOffspring
  /\ UNCHANGED <<asserts, maxTrial>>

Next == Step \/ Terminated

\* Every await of repair returns: the analyzers and the engine answer.
Spec == Init /\ [][Next]_vars /\ WF_vars(Step)

\* The operator of a generation is drawn as rng.random() >= p_crossover; with
\* p_crossover < 1 mutation is drawn in infinitely many of infinitely many
\* generations (with probability 1), so choosing it is strongly fair.
ChooseMutate == UNCHANGED <<asserts, maxTrial>> /\ GenerationStep /\ phase' = "mutate"
LiveSpec == Spec /\ SF_vars(ChooseMutate)

-----------------------------------------------------------------------------
TypeOK ==
  /\ phase \in Phases
  /\ fit \in [Ids -> Fitnesses \cup {NoFit}]
  /\ nInds \in 1..MaxInds
  /\ pop \subseteq 1..nInds /\ archive \subseteq 1..nInds
  /\ newCands \in Seq(1..nInds) /\ scored \subseteq 1..nInds
  /\ numTried \in -1..MaxInds - 1
  /\ parents \in Seq(pop) /\ Len(parents) <= 4
  /\ pairsLeft \in 0..6
  /\ engine \in {"open", "closed"}
  /\ result \in Seq(1..nInds)
  /\ error \in Errors
  /\ asserts \in BOOLEAN /\ maxTrial \in MaxTrials

(***************************************************************************)
(* The archive kept by ParetoFront.update is exactly the Pareto front of  *)
(* every individual the loop has scored: each scored individual that no   *)
(* other scored one dominates is in it, and nothing else is.  (States     *)
(* after repair raised are excluded.)                                     *)
(***************************************************************************)
ArchiveIsFront ==
  phase # "failed" =>
    archive = {x \in scored : ~\E y \in scored : Dominates(y, x)}

(***************************************************************************)
(* The maxTrial exit returns [] only once maxTrial patches other than the *)
(* original have been scored.                                             *)
(***************************************************************************)
MaxTrialHonoured ==
  (phase = "done" /\ result = <<>> /\ pop # {})
    => maxTrial # NoLimit /\ Cardinality(scored) - 1 >= maxTrial

(***************************************************************************)
(* With the mutate operator only, repair always comes to an end: the      *)
(* unmutatable parents leave the population until it is empty.            *)
(***************************************************************************)
Terminates == <>(phase \in {"done", "failed"})

(***************************************************************************)
(* CR.Fitness never raises: evaluating an individual sets its soft values *)
(* and comparing two individuals decides their order.                     *)
(***************************************************************************)
FitnessNeverRaises == error \notin {"AssertionError", "NameError"}

(***************************************************************************)
(* The engine never receives a request while another one is in flight    *)
(* (spec: one Mutation Engine request at a time), so building the initial *)
(* population does not re-enter the generator.                            *)
(***************************************************************************)
NoReentrantRequest == error # "AsendReentered"

(***************************************************************************)
(* When the mutation engine has no more patches, repair ends with [] and  *)
(* does not raise (spec: all spaces exhausted at the first request gives  *)
(* an empty result).                                                      *)
(***************************************************************************)
ExhaustionReturnsEmpty == error \notin {"IndexError", "StopAsyncIteration"}

=============================================================================
