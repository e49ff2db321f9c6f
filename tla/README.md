# TLA+ models of SCRepair

SCRepair repairs a Solidity contract by searching for patches with a
multi-objective genetic algorithm (MOGA). This directory holds TLA+ models of its
control plane, the TLC configurations that check them, and what the checks
found. `PROJECT.json` lists the components and the runs, the mutants that show
each property can fail, the source lines every definition models, the findings,
and the hazards.

## The system

| Part | Source | Role |
|---|---|---|
| CLI orchestrator | `src/CLI.py` | Parses arguments and builds `CR`. Runs `CR.repair` under `asyncio.wait_for` with a global timeout. On timeout it cancels the task and shuts down the async generators. |
| MOGA repair loop | `src/CR/CR.py` (`CR.repair` and helpers) | Evaluates the original, seeds a population from the mutation engine, then loops generation by generation (details below). |
| Fitness | `src/CR/CR.py` (`Fitness`) | Hard values are minus the number of targeted vulnerabilities per detector. The soft value is minus the mutation length. There is also a gas map. `dominates`, `__eq__` and `__lt__` compare these. |
| Mutation engine client | `src/CR/SolidityM.py` | An async generator (details below). |
| Evaluator | `src/CR/IN.py` (`detectPatch`), `CR.evaluatePopulation`, `CR.calculateFitness` | Runs every detector (Slither, ETC) concurrently on each individual. It then awaits `calculateFitness`, which runs the gas ranker, for one individual after another, and finally sets every fitness and vulnerability map. |
| Gas ranker | `src/CR/GR.py` | `rankGas` runs the Oyente container in a worker thread of `GR.threadPool` and returns the mean path gas. It raises on unparsable output, an unprocessed target contract, or no paths. |
| Detectors | `src/Slither.py`, `src/ETC.py`, `src/CR/GR.py` | Docker, shell and test-runner I/O, plus output parsing. ETC serialises test campaigns with an `asyncio.Lock`. |
| Fault localization | `src/CR/IN.py`, `src/CR/Utils.py` | Builds the `--mutation-space` specifier from a patch's vulnerabilities. |

Each generation of the repair loop does the following, in order:

1. Update the DEAP Pareto archive.
2. Return the plausible patches of the batch, if there are any.
3. Return `[]` if `maxTrial` has been reached.
4. Select with NSGA-II.
5. Breed, either by mutation of the 4 best or by one-point crossover of their 6 pairs.
6. Evaluate the offspring.

The mutation engine client spawns one `sm` child per non-empty subset of the mutation types. Each request becomes one line written to every running child. It waits for the first answer, tells the children to stop, and reads them all. Patches that no one asked for yet are cached by request. It returns when no child is running, and it kills the children on every exit.

How the parts interact:

- The repair loop talks to the client only through `patchGen.asend(request)`.
- The client wraps the inner generator in `patchSourceLock`.
- The loop awaits the evaluator for every individual it creates.
- Everything runs on one asyncio event loop. The only concurrency is between coroutines at `await` points, and between the event loop and the child processes.

## Modules

### `MutationClient` (SolidityM.py)

**State:**

- `pc`: where the generator is. The values are `unstarted`, `spawning` the children, `suspended` at a yield, `top` of the loop, `reading` the children's answers, `closed` (returned or closed by `aclose`), `failed` (raised) and `cancelled` (`CancelledError` at an await).
- `req`: the current request.
- `child[s]`: the state of each space's child. The values are `idle` (not spawned, so its `spaceInfo` entry has no `proc`), `live`, `exited`, `crashed` and `killed`.
- `reaped`: the children whose `returncode` the event loop has set.
- `cache`: `unconsumedPatches`, as a sequence of `[json, id]`.
- `nextId`: the next patch id.
- `out`: the tuple last yielded.
- `origin` and `delivered`: history variables.

**Actions:** one per path through the loop body.

- `Start` is the first `asend`: it enters the spawn loop, serving the random request.
- `Spawn` is one await of `create_subprocess_exec`, for the next space in `spaceInfo` order. The spawn may raise: the Pythons that check it reject its `encoding=` argument, and a fork may fail. After the last spawn the loop is entered.
- `Asend` resumes at a yield.
- `CacheHit` serves a request from the cache.
- `CheckFails` is `checkIfProcessesOkay` raising.
- `NoneRunning` returns.
- `WriteRequest` writes and drains.
- `ReadResponses` waits, reads every child, appends the new patches and ends the round.

The environment has two actions:

- `Crash(s)`: a child dies.
- `Reap(s)`: the event loop sets `returncode`. This happens only while the generator is parked (`spawning`, `suspended` or `reading`), because the child watcher runs only then.

`CLI.main`'s `finally` has two more:

- `Cancel`: after the timeout, `task.cancel()` throws `CancelledError` into the generator parked at a spawn or at an await of a round. A cancelled spawn closes its own half-made child.
- `Aclose`: `loop.shutdown_asyncgens()` closes the generator left at a yield, throwing `GeneratorExit` there.

In both, the `finally` of `__patchSource` runs `killAllProcesses`. That kills every running child once all are spawned. While a space still has no `proc`, `allProcesses` raises `KeyError` before any kill (`KillAllProcesses`). The same holds after a spawn raised.

A child that answers `AllSpaceExhasuted` then exits with status 0. This is the assumption the code's removal of exhausted spaces relies on. Such a child may be reaped before the round ends, while the round still awaits the other reads, or only later. The clean return (`NoneRunning`) needs the first case. The `mutation_client_eof` failure comes from the second.

### `PatchEngine` (spec section 4.5), refined by `MutationClient`

`PatchEngine` is the contract the client promises its caller, with the children, rounds and deque left out.

**State:**

- the patches it holds, each bound to the request it was generated for;
- the ids issued and the ids handed out;
- the last reply.

**Actions:**

- `Open`: the bootstrap request.
- `Request(r)`.
- `Round`: generate fresh patches for the current request, then do one of:
  - hand out a held patch of this request and drop it;
  - reply `()`, but only when none is held;
  - keep serving.
- `Close`: only when nothing is held for the request.
- `Fail`.
- `Abandon`: the caller closes an idle engine; the patches it holds are dropped.

Weak fairness of replying says that a request is eventually answered.

`MutationClient` defines the refinement mapping:

| `PatchEngine` | `MutationClient` |
|---|---|
| `fresh` | `pc = unstarted` |
| `idle` | `suspended` |
| `serving` | `top` or `reading` |
| `returned` | `closed` |
| `raised` | `failed` or `cancelled` |
| the held set | the set of deque entries |
| issued ids | `1..nextId-1` |
| handed ids | `delivered` |
| last reply | `out` |

The run checks `Engine!Spec` as the property `ImplementsEngine`. Each client step maps to an engine step or to a stutter:

- `CacheHit` is a `Round` with nothing new.
- `ReadResponses` is one `Round`.
- `WriteRequest`, `Crash` and `Reap` are stutters.
- `Cancel` is a `Fail` and `Aclose` an `Abandon`.

### `Evaluator` (IN.detectPatch, ETC.py, Slither.py, GR.py)

This module covers one batch of `evaluatePopulation`. `detectPatch` runs on every individual, and each run has a Slither task and an ETC task. Once that gather has returned, `calculateFitness` is awaited for each individual in turn.

**State:**

- `ds[i][d]`: where detector `d`'s task for individual `i` is. While running, it sits at one of its awaits:
  - `idle`: not started;
  - `container`: Slither's call to the worker pool;
  - `compiling`: ETC's `solc` child;
  - `waitLock`: waiting for `ctxManagerExecTC`;
  - `testing`: ETC's test-runner child.

  When finished, it is `done`, `raised` or `cancelled`.
- `verdict`: whether a finished report contains a detected vulnerability. No targeted names are passed, so every detected vulnerability counts as targeted.
- `sk`: what `skippableAsyncFn_helper` sees of the skippable gather: the results, a `FastFailException`, or another exception.
- `compiler` and `runner`: the child processes that are alive.
- `holder` and `queue`: the `asyncio.Lock`. A release reserves the lock for the first waiter, and a newcomer cannot barge past it.
- `timedOut` and `cancelSet`: the global timeout of `CLI.py`, and the tasks it has cancelled that have not yet raised.
- `gas[i]`: where individual `i`'s `rankGas` is: `idle`, `running`, `done`, `raised` or `cancelled`.
- `oyente`: individuals whose Oyente container thread still runs.
- `assigned`: individuals whose fitness and vulnerability map are written.
- `fastFail` and `notSkippable`: the arguments of `detectPatch`, chosen in `Init`. `CR` always passes `False` and `()`. The other values are the API that the spec's fast-fail scenario uses.

**Actions:**

- `SlitherStart` and `SlitherDone`.
- `EtcCompile`: sets `R` and `C`, then forks the compiler.
- `EtcCompiled`: the exit checks, then takes the lock or queues for it.
- `Acquired`.
- `TestsDone`: `execTCs` returns, the lock is released on both paths, and the results are mapped.
- `Timeout`: cancels the root task.
- `Cancel(i, d)`: `CancelledError` reaches a task's await. `execTCs`' `finally` kills the runner, `async with` releases the lock, and a woken waiter passes the lock on.
- `CompilerExit`: an orphaned compiler child finishes on its own.
- `GasStart(i)`: `calculateFitness` for the next individual. This needs the detection gather to have returned and no other ranking to be running. It hands `runContainer` to the thread pool.
- `GasDone(i)`: the container's output is parsed, and the ranking returns or raises. When the last ranking returns, the write loop sets every fitness at once (`AssignFitness`).
- `OyenteExit(i)`: the container of a cancelled ranking finishes in its thread. `Timeout` cancels an awaited ranking at once, but the executor future cannot stop a thread that is already running.

Individuals are ranked in any order, not in population order, because they are interchangeable for every property. The gas value itself is left out: it only reaches the soft values, which no comparison reaches without raising.

These outcomes are derived from the sticky task states, not stored:

- `NonSkippable(i)`: the non-skippable gather.
- `Outcome(i)`: the outer gather followed by `ProblemDetectorResults(...)`.
- `Batch`: `evaluatePopulation`'s gather.
- `Evaluation`: the whole of `evaluatePopulation`, that is, the gather and then the rankings.

The timeout's cancellation reaches a task only while all of its enclosing gathers are pending (`Reach`). A gather that has already raised is done, and so are `cancel()` calls on it.

**Why `EtcCompile` is one atomic step.** Setting `os.environ` and forking the shell happen in one step because the code cannot suspend between them. `create_subprocess_shell` calls `Popen` synchronously inside `_make_subprocess_transport`, before its first suspension. So concurrent ETC detections cannot compile each other's source through the shared `R`/`C`.

**No task finishes before every task has started (`Started`).** The gathers of `evaluatePopulation` and `detectPatch` create every helper task at once. Each task takes its first step in the next loop iteration: Slither hands its call to the pool, and ETC forks `solc` or raises. A completion, whether a thread's callback or a child's exit, is delivered in a later iteration. So `SlitherDone` and `EtcCompiled` wait for every detector task to have left `idle`.

**The compiler spawn may raise.** The Python versions that check it reject the `encoding=` argument.

### `Repair` (CR.py)

**How data is abstracted:**

- An individual is an id.
- Its fitness is what the analyzers report. That is, per detector, the number of targeted vulnerabilities, plus whether it has detected vulnerabilities that are not targeted (which makes its vulnerability map non-empty).
- The mutation length and the gas map are left out. Every comparison that would read them has already raised: `dominates`, `__eq__` and `__lt__` reach the undefined name `profiling` once two hard-value tuples are equal.
- The engine is seen through what one `asend` returns:
  - `patch`, a new individual;
  - `empty`, the tuple `()`;
  - `stop`, meaning the generator has returned (`StopAsyncIteration` from then on);
  - `raise`, a fatal client error.

**Actions:**

- `EvaluateOriginal`.
- `FirstIndividual`.
- `InitPopulation`: the concurrent seeding `gather`.
- `GenerationStep`: the loop body up to the choice of operator, one atomic step because it has no await.
- `MutateParent`: one per parent await.
- `CrossoverPair`: one per pair await.
- `EvaluateOffspring`.

**DEAP's operators:**

- `selBest` is a lexicographic sort.
- `selNSGA2` keeps whole fronts and cuts the last front nondeterministically, standing in for crowding distance.
- `ParetoFront.update` adds a newcomer unless something dominates it, and evicts what it dominates.

These are written from the behaviour of DEAP that `CR.repair` relies on, at the call sites named in the map.

**Other variables:**

- `asserts` is whether the interpreter keeps `assert` statements. It is chosen in `Init`. With asserts on, `SoftValuesRaise` makes `EvaluateOriginal` fail, as the soft-values assert of `CR.py:58-63` does.
- `maxTrial` is the argument of `repair`, a bound or `None`. It is also chosen in `Init`.
- `scored` is a history of the individuals passed to the archive.

### `Targeting` (IN.py, ETC.py, Slither.py, CR.evaluatePopulation and isPatchPlausible)

`Targeting` models what decides whether a vulnerability counts: the `--targetVul` and `--targetLoc` arguments, the repair target, and the class of each reported result.

**Operators**, one per method:

- `LocLeq` is the tuple order that `attr` gives `Location`. `IntersectWith` is `CodeRange.intersectWith`.
- `IsTargeted(v, tv, tl)` follows Python's method resolution order:
  - `DetectedVulnerability` checks the name, then any code-range element of its fault tuple against any target range;
  - `DetectedVulnerability_FastFail` is always targeted;
  - `FailedTestCase` reaches `TestCaseExecutionResult.isTargeted` through `super()`, so it ignores the names;
  - `PassedTestCase` is never targeted.
- `FaultLocalizationFromDetectionResults` collects the fault elements of the detected, targeted vulnerabilities of a vulnerability map into a set, the `frozenset` of `FaultLocalization`. `ToSpecifierStr` sorts that set with `FaultLess`, the key `(type(x).__name__, x)`: code ranges before node types, and ranges by `(start, end)` through the order `attrs` generates. A token of the specifier is kept as the element it prints.
- `Score` is `problemDectionScore_general`. `VulnerabilityMap` is the map `evaluatePopulation` stores in `ind.vulnerability`. `NumRemaining`, `DetectorTargetFulfilled` and `IsPatchPlausible` are the repair-target classes.

**Inputs**, all chosen in `Init`:

- Slither results with every fault tuple `Slither.__processOutput` can build: empty, a node element, a code range, or both.
- Two Slither detections with no ETC result, under the default `RepairTarget()`.
- ETC results with up to two passed or failed tests.
- `--targetVul` absent or any non-empty set of names, and `--targetLoc` absent or one range.
- Repair targets `Remaining(0)`, `Remaining(1)`, `Repaired(2, 1)` and `Repaired(1, inf)`, set per detector.

**Actions:**

- `Evaluate`: the bookkeeping of `evaluatePopulation`, which sets the hard values and the vulnerability map.
- `Judge`: the filter `CR.repair` applies with `isPatchPlausible`.
- `LocalizeOriginal`: the original's fault specifier (`CR.py:345`), computed when its vulnerability map is not empty and handed to the engine as it is.
- `LocalizeParent`: a parent's fault specifier (`CR.py:468`), computed before the parent is mutated. An empty specifier is passed as `None`.

`mutationSpace` is what the engine receives: the specifier, or `None`.

**Reference definitions.** The properties compare the code against definitions written from the spec:

- `SpecTargeted`: a vulnerability is targeted when it is detected, its name is among the targeted names, and a code-range element shares a location with a targeted range.
- `SpecAllowed`: the number of targeted vulnerabilities a condition accepts.
- `SpecElements` and `SpecKey`: the fault elements of every detected, targeted vulnerability of the raw results, and the spec's sort key `(variantTag, l1, c1, l2, c2)`, compared lexicographically by the recursive `LexLess`.

## Runs

| Run | Result | What it shows |
|---|---|---|
| `mutation_client` | pass, about 127k states | Every yield answers the current request with a patch generated for it (`ResponseMatchesRequest`). No patch is lost or handed out twice (`PatchConservation`). Every request is eventually answered (`RequestAnswered`). All three hold under spawn errors, a crash and reaps at the generator's awaits, and with the generator cancelled or closed by `CLI.main`'s `finally`. The client refines `PatchEngine` (`ImplementsEngine`). |
| `mutation_client_eof` | violation | `FailsOnlyOnCrash` fails with no crash at all (see findings). Spawns succeed in this run, so the failure is the exhausted round's. |
| `mutation_client_spawn` | violation | `NoOrphanChildren`: the first child is spawned, the second spawn raises, and the `finally` leaves the first child running. |
| `repair` | pass, about 747k states | `ArchiveIsFront`: the archive equals the Pareto front of every individual ever scored. `MaxTrialHonoured`: the `maxTrial` exit comes only after `maxTrial` non-original patches. `Terminates`: with both operators and an engine that may answer `()` forever, repair always ends, whether `maxTrial` is 4 or `None` (as the CLI passes it). This relies on mutation being drawn in infinitely many generations, which is strong fairness of `ChooseMutate`. Without that fairness, TLC finds the crossover loop that spins forever, so the run needs `p_crossover < 1`. |
| `repair_reentry` | violation | The seeding `gather` re-enters the generator. |
| `repair_compare` | violation | Equal hard values raise `NameError` under `python -O`. |
| `repair_exhaustion` | violation | An exhausted engine makes repair raise instead of returning `[]`. |
| `evaluator` | pass, about 10k states | The run allows detector and Oyente errors, the timeout, and both `fastFail` modes. Under these, it checks: `RunnerOnlyUnderLock`, a test-runner child runs only for the task that owns `ctxManagerExecTC`, even after a cancelled campaign passes the lock on; `LockNotLeaked`, the lock never belongs to a task that no longer waits for it or tests under it; `FitnessAllOrNone`, fitness is written for the whole batch or none of it, and only from finished detections and rankings, even when a later ranking fails or times out; `EvaluationSettles`, `evaluatePopulation` eventually returns with every detection and ranking finished, or ends by an exception or the timeout, so no ETC task waits for the lock forever. |
| `evaluator_teardown` | violation | An evaluation ended by an exception or by the timeout leaves a compiler, test-runner or Oyente child alive. |
| `evaluator_fastfail_cancel` | violation | After a fast-fail detection, the other skippable detector runs on instead of being cancelled. |
| `targeting` | pass, about 1.5M states | `TargetingAsSpecified`: for every argument and Slither result, `isTargeted` agrees with `SpecTargeted`, including ranges that only touch and fault tuples without ranges. `PlausibleAgreesWithFitness`: `isPatchPlausible`, which reads the filtered vulnerability map, accepts a patch exactly when every detector's hard value is within what its target allows. `SpecifierAsSpecified`: the fault specifier lists every fault element of the detected and targeted vulnerabilities exactly once, in the spec's canonical order, whatever order and repetition the detections had. |
| `targeting_seed` | violation | With no targeting arguments and one failing ETC test, the original's empty fault specifier reaches the engine (`EmptySpecifierIsNone`). |

**Findings**, in detail in `PROJECT.json`:

1. **The client raises with no crash.** A round in which every child reports `AllSpaceExhasuted` loops back and writes to exited children that the event loop has not reaped yet. The client then raises, by EOF or by `asyncio.wait([])`.
2. **Seeding always fails with the defaults.** It re-enters the generator whenever `num_init_population >= 3`, and the default is 8. The lock sits inside the generator and cannot serialise two `asend` calls.
3. **Any equal hard values crash the search.** `Fitness.dominates` and the comparison operators use the undefined name `profiling`, and `gas_info` is never set. So under `-O`, two individuals with the same targeted counts abort the search.
4. **An exhausted engine raises instead of returning `[]`.** This happens at the first request (`[0]` on `()`, or an unhandled `StopAsyncIteration`) and at any crossover after the generator has returned.
5. **Children outlive the evaluation.**
   - `ETC.detect` awaits the compiler without a `finally` that kills it.
   - `evaluatePopulation`'s gather does not cancel sibling detections when one raises.

   - A timeout while `rankGas` awaits its executor future cancels only the future, so the Oyente container runs on.

   So an evaluation ended by the timeout or by one detector's exception leaves `solc`, a test campaign or an Oyente container running.
6. **Fast-fail never cancels.** `skippable_feature.cancel()` is called after the gather has already completed with the exception, so it reaches no child.
7. **The empty seed specifier reaches the engine.** The original's fault specifier (`CR.py:346`) is used as computed. When no targeted detection of the original carries a fault element, it is `''`. The engine is then started with `--mutation-space=`, and the seeding requests carry `''` too. Only the per-parent path (`CR.py:473`) turns `''` into `None`, while the spec says `''` means no specifier. This happens whenever only ETC tests fail, or when every detection is outside `--targetVul`.

8. **A failed spawn orphans the children already spawned.** `__patchSource` sets `spaceInfo[space]['proc']` only when that space's spawn returns. If a later spawn raises, or the task is cancelled during it, the `finally` calls `killAllProcesses`. Its `allProcesses` (`SolidityM.py:290`) reads `info['proc']` for every space, so it raises `KeyError` before killing anything.

Also observed, without a run:

- **Fast-fail raises.** The handler (`IN.py:402`) returns a bare pair where the normal path has a list of pairs, so building the result dict raises `ValueError`. `FastFailYieldsSentinel` once stated this and TLC found it violated. That run was retired to stay within the run budget: `CR` never turns fast fail on, and `evaluator_fastfail_cancel` checks the same handler.

- The no-op exit (`CR.py:338`) tests that nothing at all was detected, where the spec asks that nothing targeted was detected.
- With assertions on, the first evaluation fails (`CR.py:62`): the soft-values assert sees two values against one weight. `Repair` keeps this path, and the `repair` run reaches it.
- A failed ETC test counts as targeted whatever `--targetVul` says. `FailedTestCase`'s `super()` resolves to `TestCaseExecutionResult.isTargeted`, which returns `detected`.
- Once `--targetLoc` is given, a Slither issue whose fault tuple has no code range (only function elements, or none) is never targeted.
- `targetVulDetected` (`IN.py:337`) ignores `--targetLoc`. The fast-fail check can therefore fire on a vulnerability the fitness does not count, though `CR` never turns fast fail on.
- `--repair_target` is parsed, but `repair` always passes `RepairTarget()`, that is `Remaining(0)` for every detector.
- `--targetLoc` accepts `"column": null`, and comparing that `None` with a column on the same line raises `TypeError` inside `isTargeted`.

Every property of a passing run has a mutant in `PROJECT.json`. A mutant is a plausible slip in the mapped code that TLC catches under the run's own configuration.

## Bounds, and why they are enough

**`MC_MutationClient`:**

- 2 spaces.
- 3 requests: the random request and two others.
- Up to 2 patches per child answer, 4 patch ids in all.
- At most 1 crash.

Two children are enough for one child to exhaust while the other still produces, and for answers to interleave with reaps. Two distinct requests make a wrong cache hit visible.

**`MC_Evaluator`:**

- 2 individuals with both detectors, each ranked by Oyente.

That is enough for a detection to queue on the lock behind another, for the second ranking to fail or time out after the first has returned, for a cancellation to hit the holder, the waiter, or a waiter the lock was just handed to, and for one individual's failure to orphan the other's tasks. The skippable set is either everything (as `CR` calls it) or Slither alone.

**`MC_Repair`:**

- 2 detectors, with 0 or 1 targeted vulnerability each. That gives 4 hard vectors, partially ordered by dominance.
- `maxSzPopulation = 2`, so selection really cuts a population of 3.
- `num_init_population` of 1, 2 or 3.
- `maxTrial` of 4 or `None`, chosen in `Init` (`None` is what the CLI passes).
- 6 individuals.
- Both operators.
- An engine that may fail.

With 4 hard vectors, a population of at most 3 non-plausible individuals can avoid the equal-hard crash, so the non-crashing paths are reached. Every action and every disjunct fires in the passing runs (checked with TLC's coverage).

**`MC_Targeting`:**

- 2 vulnerability names.
- Lines 1..2 and columns 0..1, so 4 locations and 10 ranges.

- Results with two Slither detections, under the default target only. The CLI never passes another target, and this keeps the run short.

That is enough for ranges that are disjoint, touching, nested and overlapping, within one line and across lines. With two detections, a fault element can be reported twice, and two ranges can be reported in either order, including nested ranges whose start order and end order differ. Two names make a name that is not targeted possible. Up to two ETC tests make two failed tests exceed `Remaining(1)`, and `Repaired(1, inf)` exercises the `math.inf` branch.

## Fairness

- `MutationClient` assumes weak fairness of the generator's own steps and of each reap. The event loop keeps running, and the child watcher eventually reaps an exited child.
- `Repair` assumes weak fairness of its steps. Every await returns, since the analyzers and the engine answer.
- The `repair` run also assumes strong fairness of choosing mutation (`LiveSpec`). The draw `rng.random() >= p_crossover` with `p_crossover < 1` succeeds, with probability 1, in infinitely many of infinitely many generations. With `p_crossover = 1`, nothing but the timeout ends a run whose crossovers all come back empty.
- `Evaluator` assumes weak fairness of every task step, of a compiler's exit and of an orphaned container's exit, but only while the evaluation has not ended (`WF_vars(~Ended /\ Step)`). The loop runs; Docker, Oyente, `solc` and the runner return; and the worker pools eventually take every call. Once the root task has raised or been cancelled, `CLI.main` stops running the loop, so the tasks that a failed gather left behind need not settle.
- `Targeting` assumes weak fairness of `Evaluate`, `Judge` and the two localizations, which have no await that could block.
- Crashes, the timeout, `Cancel` and `Aclose` are not fair: they may or may not happen.

## Not modelled, and the plan

- **Evaluator inside Repair.** `Repair` still sees a batch as the fitness it assigns. `Evaluator` checks one batch in detail, and the two are not composed.
- **Slither's and ETC's outputs** are abstracted to "a detection or not" in `Evaluator` and `Repair`. Their names and code ranges matter only for targeting, which `Targeting` models separately.
- **Orchestrator (partly modelled).** The timeout is `Evaluator`'s `Timeout`, and its effect on the mutation client generator is `MutationClient`'s `Cancel` and `Aclose`. The `--targetVul`/`--targetLoc` values are `Targeting`'s inputs. Three things are out: argument parsing, `StoreKeyValuePairAction`'s splitting of `key=value` strings, and the printing of results. These are string conversion and output, and they change no state a property reads.
- **Composition.** `Repair` sees the engine through what one `asend` returns, which is the reply of `PatchEngine`. `MutationClient` is shown to refine `PatchEngine`, but `Repair` does not instantiate either module.
- **Fault localization strings.** `Targeting` models the collection, deduplication and order of the specifier's tokens. The characters of each `LOC:`/`TYPE:` token and the `;` join are left out. The spec's round trip rebuilds a `FaultLocalization` from its string, and the code has no parser to model.
- **Packaging** (`setup.py`) is setuptools metadata. Also out: Slither's JSON parsing, Oyente's gas mean, and the soft and gas tiers of the fitness, because no comparison reaches them without raising. `SoftValuesRaise` in `Repair` models the one place the soft values are read: with asserts on, the first evaluation raises on them.
