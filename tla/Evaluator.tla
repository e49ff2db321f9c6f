------------------------------ MODULE Evaluator ------------------------------
(***************************************************************************)
(* One batch of CR.evaluatePopulation: IN.detectPatch on every individual  *)
(* of the batch, each running Slither.detect and ETC.detect as tasks of    *)
(* one asyncio event loop.  A task moves only at its awaits:               *)
(*   Slither: the container call handed to the worker pool;                *)
(*   ETC: the compiler child, the runner-wide lock, the test-runner child. *)
(* The global timeout of CLI.py cancels the root task; the cancellation    *)
(* reaches every task whose enclosing gathers are still pending.           *)
(* A verdict is "found" when the detector reports a detected (hence, with  *)
(* no targeted names given, targeted) vulnerability, "clean" otherwise.    *)
(* After the detection gather, calculateFitness is awaited for one         *)
(* individual after the other; its GR.rankGas runs the Oyente container in *)
(* a worker thread, which a cancelled await does not stop.  Fitness and    *)
(* vulnerabilities are written once every evaluation has returned.         *)
(***************************************************************************)
EXTENDS Naturals, Sequences, FiniteSets, SequencesExt

CONSTANTS
    Inds,              \* the individuals of the batch
    NoOne,             \* no holder of ctxManagerExecTC
    FastFailModes,     \* values of detectPatch's fastFail argument
    NotSkippableModes, \* values of detectPatch's not_skippable_detectors
    MayFail,           \* whether a detector may raise (exit status, output)
    MayTimeout         \* whether the global timeout may fire

Dets == {"slither", "etc"}
Terminal == {"done", "raised", "cancelled"}
Awaiting == {"idle", "container", "compiling", "waitLock", "testing"}

VARIABLES
    ds,           \* ds[i][d]: where detector d's task for individual i is
    verdict,      \* verdict[i][d]: what the finished detection reported
    sk,           \* the skippable gather as seen by skippableAsyncFn_helper
    compiler,     \* individuals whose solc child process is alive
    runner,       \* individuals whose test-runner child process is alive
    holder,       \* the task the asyncio.Lock belongs to (or is handed to)
    queue,        \* the lock's waiters, first woken first
    timedOut,     \* the global timeout has cancelled the root task
    cancelSet,    \* tasks with a cancellation delivered but not yet raised
    gas,          \* gas[i]: where calculateFitness's rankGas for i is
    oyente,       \* individuals whose Oyente container thread still runs
    assigned,     \* individuals whose fitness and vulnerability are written
    fastFail, notSkippable

vars == <<ds, verdict, sk, compiler, runner, holder, queue, timedOut,
          cancelSet, gas, oyente, assigned, fastFail, notSkippable>>

Skippable == Dets \ notSkippable

\* A task whose cancellation is pending raises CancelledError at its next step.
Live(i, d) == <<i, d>> \notin cancelSet

\* The non-skippable gather: the first exception, or all results.
NonSkippable(i) ==
    IF \E d \in notSkippable : ds[i][d] = "raised" THEN "error"
    ELSE IF \A d \in notSkippable : ds[i][d] = "done" THEN "ok" ELSE "pending"

\* detectPatch's outer gather, then ProblemDetectorResults(chain(...)).  On
\* fast-fail rsts[0] is the pair ('fastfail', (FastFail(),)), not a list of
\* pairs, so building the dict raises ValueError.
Outcome(i) ==
    CASE sk[i] = "error" \/ NonSkippable(i) = "error" -> "error"
      [] sk[i] = "pending" \/ NonSkippable(i) = "pending" -> "pending"
      [] sk[i] = "fastfail" -> "error"
      [] OTHER -> "ok"

\* evaluatePopulation's gather over the batch.
Batch ==
    CASE timedOut -> "cancelled"
      [] \E i \in Inds : Outcome(i) = "error" -> "error"
      [] \A i \in Inds : Outcome(i) = "ok" -> "ok"
      [] OTHER -> "pending"

\* The whole of evaluatePopulation: the detection gather, then one
\* calculateFitness after the other; an exception of either propagates.
Evaluation ==
    CASE timedOut -> "cancelled"
      [] Batch # "ok" -> Batch
      [] \E i \in Inds : gas[i] = "raised" -> "error"
      [] \A i \in Inds : gas[i] = "done" -> "ok"
      [] OTHER -> "pending"

\* The task still belongs to a pending gather, so cancelling the root
\* reaches it; a task whose gather has already finished is orphaned.
Reach(i, d) ==
    /\ Outcome(i) = "pending"
    /\ IF d \in Skippable THEN sk[i] = "pending" ELSE NonSkippable(i) = "pending"

\* targetVulDetected on one detector's result: with no targeted names every
\* detected vulnerability is targeted.
TargetVulDetected(v) == v = "found"

\* Detector d of i returns (st = "done") or raises: helper and
\* coroTargetVulDetect, then the skippable gather's bookkeeping.  A result
\* with a targeted vulnerability raises FastFailException when fastFail.
Finish(i, d, st, v) ==
    /\ ds' = [ds EXCEPT ![i][d] = st]
    /\ verdict' = [verdict EXCEPT ![i][d] = v]
    /\ sk' = IF d \in notSkippable \/ sk[i] # "pending" THEN sk
             ELSE [sk EXCEPT ![i] =
                     CASE st = "raised" -> "error"
                       [] fastFail /\ TargetVulDetected(v) -> "fastfail"
                       [] \A e \in Skippable : ds'[i][e] = "done" -> "ok"
                       [] OTHER -> "pending"]

\* Mutant: the lock is released without waking the first waiter.
ReleaseLockLostWakeup == holder' = NoOne /\ UNCHANGED queue

\* `async with ctxManagerExecTC` on exit: the first waiter is woken and the
\* lock is reserved for it (a newcomer may not barge past a live waiter).
ReleaseLock ==
    IF queue = <<>> THEN holder' = NoOne /\ UNCHANGED queue
    ELSE holder' = Head(queue) /\ queue' = Tail(queue)

SlitherOutcomes == IF MayFail THEN {"clean", "found", "raised"}
                                ELSE {"clean", "found"}
ExecTCsOutcomes == SlitherOutcomes

\* Mutant: a failed report is recorded with its outcome as the verdict.
ReportRaisedVerdict(i, d, o) ==
    IF o = "raised" THEN Finish(i, d, "raised", o) ELSE Finish(i, d, "done", o)

\* Finish with one of the outcomes of a parsed report.
Report(i, d, o) ==
    IF o = "raised" THEN Finish(i, d, "raised", "none") ELSE Finish(i, d, "done", o)

\* The gathers of evaluatePopulation and detectPatch create every helper
\* task at once, and each takes its first step (Slither hands its call to
\* the pool, ETC forks solc or raises) in the next loop iteration; a
\* completion (a thread's callback, a child's exit) is delivered later.
Started == \A i \in Inds, d \in Dets : ds[i][d] # "idle"

-----------------------------------------------------------------------------
SlitherStart(i) ==
    /\ ds[i]["slither"] = "idle" /\ Live(i, "slither")
    /\ ds' = [ds EXCEPT ![i]["slither"] = "container"]
    /\ UNCHANGED <<verdict, sk, compiler, runner, holder, queue, timedOut,
                   cancelSet, gas, oyente, assigned, fastFail, notSkippable>>

SlitherDone(i) ==
    /\ ds[i]["slither"] = "container" /\ Live(i, "slither") /\ Started
    /\ \E o \in SlitherOutcomes : Report(i, "slither", o)
    /\ UNCHANGED <<compiler, runner, holder, queue, timedOut, cancelSet,
                   gas, oyente, assigned, fastFail, notSkippable>>

\* os.environ R and C are set and the shell is forked with no suspension in
\* between, so the compiler reads this individual's source.  The spawn
\* itself may raise: the Pythons that check it reject the encoding= argument.
EtcCompile(i) ==
    /\ ds[i]["etc"] = "idle" /\ Live(i, "etc")
    /\ \/ /\ ds' = [ds EXCEPT ![i]["etc"] = "compiling"]
          /\ compiler' = compiler \cup {i}
          /\ UNCHANGED <<verdict, sk>>
       \/ MayFail /\ Finish(i, "etc", "raised", "none") /\ UNCHANGED compiler
    /\ UNCHANGED <<runner, holder, queue, timedOut, cancelSet, gas, oyente,
                   assigned, fastFail, notSkippable>>

\* communicate() returns; a bad exit status or empty bytecode raises,
\* otherwise the lock is taken at once if free, else the task queues.
EtcCompiled(i) ==
    /\ ds[i]["etc"] = "compiling" /\ Live(i, "etc") /\ Started
    /\ compiler' = compiler \ {i}
    /\ \/ MayFail /\ Finish(i, "etc", "raised", "none")
          /\ UNCHANGED <<runner, holder, queue>>
       \/ holder = NoOne /\ holder' = i /\ runner' = runner \cup {i}
          /\ ds' = [ds EXCEPT ![i]["etc"] = "testing"]
          /\ UNCHANGED <<verdict, sk, queue>>
       \/ holder # NoOne /\ queue' = Append(queue, i)
          /\ ds' = [ds EXCEPT ![i]["etc"] = "waitLock"]
          /\ UNCHANGED <<verdict, sk, runner, holder>>
    /\ UNCHANGED <<timedOut, cancelSet, gas, oyente, assigned,
                   fastFail, notSkippable>>

\* A woken waiter takes the lock and spawns the test runner.
Acquired(i) ==
    /\ ds[i]["etc"] = "waitLock" /\ holder = i /\ Live(i, "etc")
    /\ ds' = [ds EXCEPT ![i]["etc"] = "testing"]
    /\ runner' = runner \cup {i}
    /\ UNCHANGED <<verdict, sk, compiler, holder, queue, timedOut, cancelSet,
                   gas, oyente, assigned, fastFail, notSkippable>>

\* Mutant: the lock is released only when execTCs returns normally.
TestsDoneLeakOnRaise(i) ==
    /\ ds[i]["etc"] = "testing" /\ Live(i, "etc")
    /\ runner' = runner \ {i}
    /\ \E o \in ExecTCsOutcomes :
          /\ Report(i, "etc", o)
          /\ IF o = "raised" THEN UNCHANGED <<holder, queue>> ELSE ReleaseLock
    /\ UNCHANGED <<compiler, timedOut, cancelSet, gas, oyente, assigned,
                   fastFail, notSkippable>>

\* The runner exits; execTCs checks its status and output, the lock is
\* released on the way out either way, and the results are mapped.
TestsDone(i) ==
    /\ ds[i]["etc"] = "testing" /\ Live(i, "etc")
    /\ runner' = runner \ {i}
    /\ ReleaseLock
    /\ \E o \in ExecTCsOutcomes : Report(i, "etc", o)
    /\ UNCHANGED <<compiler, timedOut, cancelSet, gas, oyente, assigned,
                   fastFail, notSkippable>>

\* The timeout cancels the root task while the evaluation is still awaited.
\* An awaited rankGas is cancelled at once: its executor future cannot stop
\* the running thread, so the Oyente container runs on.
Timeout ==
    /\ MayTimeout /\ ~timedOut /\ Evaluation = "pending"
    /\ timedOut' = TRUE
    /\ cancelSet' = {p \in Inds \X Dets : ds[p[1]][p[2]] \in Awaiting /\ Reach(p[1], p[2])}
    /\ gas' = [i \in Inds |-> IF gas[i] = "running" THEN "cancelled" ELSE gas[i]]
    /\ UNCHANGED <<ds, verdict, sk, compiler, runner, holder, queue, oyente,
                   assigned, fastFail, notSkippable>>

\* Mutant: execTCs without its finally, so a cancelled runner is not killed.
CancelNoKill(i, d) ==
    /\ <<i, d>> \in cancelSet
    /\ ds' = [ds EXCEPT ![i][d] = "cancelled"]
    /\ cancelSet' = cancelSet \ {<<i, d>>}
    /\ IF ds[i][d] = "testing" \/ (ds[i][d] = "waitLock" /\ holder = i)
       THEN ReleaseLock
       ELSE holder' = holder /\ queue' = SelectSeq(queue, LAMBDA x : x # i)
    /\ UNCHANGED <<verdict, sk, compiler, runner, timedOut, gas, oyente, assigned,
                   fastFail, notSkippable>>

\* CancelledError at the task's await.  execTCs' finally kills the runner
\* and `async with` releases the lock; a cancelled lock waiter passes a lock
\* handed to it on; nothing kills the compiler child.
Cancel(i, d) ==
    /\ <<i, d>> \in cancelSet
    /\ ds' = [ds EXCEPT ![i][d] = "cancelled"]
    /\ cancelSet' = cancelSet \ {<<i, d>>}
    /\ runner' = runner \ {i}
    /\ IF ds[i][d] = "testing" \/ (ds[i][d] = "waitLock" /\ holder = i)
       THEN ReleaseLock
       ELSE holder' = holder /\ queue' = SelectSeq(queue, LAMBDA x : x # i)
    /\ UNCHANGED <<verdict, sk, compiler, timedOut, gas, oyente, assigned,
                   fastFail, notSkippable>>

\* calculateFitness for the next individual, once the detection gather has
\* returned and the previous evaluation with it: fitnessFn_ProblemDection
\* scores the given results without awaiting, rankGas hands runContainer
\* to GR.threadPool.
GasStart(i) ==
    /\ Batch = "ok" /\ Evaluation = "pending"
    /\ gas[i] = "idle" /\ \A j \in Inds : gas[j] # "running"
    /\ gas' = [gas EXCEPT ![i] = "running"]
    /\ oyente' = oyente \cup {i}
    /\ UNCHANGED <<ds, verdict, sk, compiler, runner, holder, queue, timedOut,
                   cancelSet, assigned, fastFail, notSkippable>>

GasOutcomes == IF MayFail THEN {"done", "raised"} ELSE {"done"}

\* Mutant: each individual's fitness is written as soon as it is evaluated.
AssignFitnessEach(i) ==
    assigned' = IF gas'[i] = "done" THEN assigned \cup {i} ELSE assigned

\* The loop over zip(population, [await evaluateFn ...], results) runs only
\* once the list comprehension has awaited every evaluation.
AssignFitness(i) ==
    assigned' = IF \A j \in Inds : gas'[j] = "done" THEN Inds ELSE assigned

\* The container exits and its output is parsed: unparsable JSON, a target
\* contract Oyente did not process, or no path_gas values raise.
GasDone(i) ==
    /\ gas[i] = "running"
    /\ oyente' = oyente \ {i}
    /\ \E st \in GasOutcomes : gas' = [gas EXCEPT ![i] = st]
    /\ AssignFitness(i)
    /\ UNCHANGED <<ds, verdict, sk, compiler, runner, holder, queue, timedOut,
                   cancelSet, fastFail, notSkippable>>

\* The container of a cancelled rankGas finishes in its thread.
OyenteExit(i) ==
    /\ i \in oyente /\ gas[i] # "running"
    /\ oyente' = oyente \ {i}
    /\ UNCHANGED <<ds, verdict, sk, compiler, runner, holder, queue, timedOut,
                   cancelSet, gas, assigned, fastFail, notSkippable>>

\* An orphaned compiler child finishes on its own.
CompilerExit(i) ==
    /\ i \in compiler /\ ds[i]["etc"] # "compiling"
    /\ compiler' = compiler \ {i}
    /\ UNCHANGED <<ds, verdict, sk, runner, holder, queue, timedOut, cancelSet,
                   gas, oyente, assigned, fastFail, notSkippable>>

\* The evaluation has ended: an exception reached evaluatePopulation, or the
\* timeout's cancellation has been delivered to every task it reaches.
Ended == Evaluation = "error" \/ (timedOut /\ cancelSet = {})

\* Every task and child is done, or the evaluation has ended and the CLI
\* closes the loop and exits, whatever still runs.
Terminated ==
    /\ \/ Evaluation = "ok" /\ compiler = {}
       \/ Ended
    /\ UNCHANGED vars

Init ==
    /\ ds = [i \in Inds |-> [d \in Dets |-> "idle"]]
    /\ verdict = [i \in Inds |-> [d \in Dets |-> "none"]]
    /\ sk = [i \in Inds |-> "pending"]
    /\ compiler = {} /\ runner = {}
    /\ holder = NoOne /\ queue = <<>>
    /\ timedOut = FALSE /\ cancelSet = {}
    /\ gas = [i \in Inds |-> "idle"] /\ oyente = {} /\ assigned = {}
    /\ fastFail \in FastFailModes
    /\ notSkippable \in NotSkippableModes

Step ==
    \/ \E i \in Inds : \/ SlitherStart(i) \/ SlitherDone(i)
                       \/ EtcCompile(i) \/ EtcCompiled(i) \/ Acquired(i)
                       \/ TestsDone(i) \/ CompilerExit(i)
                       \/ GasStart(i) \/ GasDone(i) \/ OyenteExit(i)
    \/ \E i \in Inds, d \in Dets : Cancel(i, d)

Next == Step \/ Timeout \/ Terminated

\* Every task step is fair while the evaluation has not ended (the loop
\* keeps running and children exit); once it has ended, CLI.main stops
\* running the loop, and tasks it left behind need not move again.  The
\* timeout is not fair: it may or may not fire.
Spec == Init /\ [][Next]_vars /\ WF_vars(~Ended /\ Step)
-----------------------------------------------------------------------------
TypeOK ==
    /\ ds \in [Inds -> [Dets -> Awaiting \cup Terminal]]
    /\ verdict \in [Inds -> [Dets -> {"none", "clean", "found"}]]
    /\ sk \in [Inds -> {"pending", "ok", "fastfail", "error"}]
    /\ compiler \subseteq Inds /\ runner \subseteq Inds
    /\ holder \in Inds \cup {NoOne} /\ queue \in Seq(Inds)
    /\ cancelSet \subseteq Inds \X Dets
    /\ gas \in [Inds -> {"idle", "running", "done", "raised", "cancelled"}]
    /\ oyente \subseteq Inds /\ assigned \subseteq Inds

\* At most one test campaign runs at a time (ctxManagerExecTC): a live
\* test-runner child belongs to the task the lock belongs to, also after a
\* timeout has cancelled a campaign and the lock has passed on.
RunnerOnlyUnderLock == runner \subseteq {holder}

\* The runner-wide lock is never leaked: its owner is a task still waiting
\* for it or testing under it, and every queued waiter is waiting, whatever
\* execTCs raised and whichever task the timeout cancelled.
LockNotLeaked ==
    /\ holder # NoOne => ds[holder]["etc"] \in {"waitLock", "testing"}
    /\ \A k \in 1..Len(queue) : ds[queue[k]]["etc"] = "waitLock" /\ queue[k] # holder

\* evaluatePopulation eventually returns (every detection and ranking has
\* finished) or ends by an exception or the timeout: no ETC task waits for
\* the lock forever while the others have finished.
EvaluationSettles == <>(Evaluation = "ok" \/ Ended)

\* Once the evaluation has ended, by a detector's exception reaching
\* evaluatePopulation or by the timeout's cancellation having been
\* delivered, no compiler, test-runner or Oyente child of the batch is alive
\* (the spec: fatal errors and cancellation tear down all children).
TeardownKillsChildren == Ended => compiler = {} /\ runner = {} /\ oyente = {}

\* After a skippable detector of an individual reported a targeted
\* vulnerability under fastFail, its other skippable detectors are only
\* cancelled (skippable_feature.cancel()), never run on.
FastFailCancelsSkippable ==
    [][\A i \in Inds, d \in Dets :
         (sk[i] = "fastfail" /\ d \in Skippable /\ ds[i][d] \in Awaiting)
            => ds'[i][d] \in {ds[i][d], "cancelled"}]_vars

\* Fitness and vulnerabilities are written for the whole batch or for none
\* of it, and only from finished detections: an Oyente failure or the
\* timeout while a later individual is ranked leaves the earlier ones,
\* already ranked, unassessed rather than half the batch assessed.
FitnessAllOrNone ==
    assigned # {} =>
        /\ assigned = Inds
        /\ \A i \in Inds : gas[i] = "done" /\ \A d \in Dets : ds[i][d] = "done"
=============================================================================
