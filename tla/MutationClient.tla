--------------------------- MODULE MutationClient ---------------------------
(***************************************************************************)
(* The mutation-engine client of src/CR/SolidityM.py: the async generator  *)
(* SolidityM.__patchSource (wrapped by SolidityM.patchSource) that owns one *)
(* long-lived child process per non-empty subset of mutation types, sends  *)
(* every request (one JSON line) to every running child, collects one      *)
(* answer line from each, caches the patches it does not hand out, and     *)
(* kills the children when it returns or raises.                           *)
(*                                                                         *)
(* A request is a model value standing for its JSON text; two requests are *)
(* the same JSON iff they are the same model value.  A patch is a fresh    *)
(* number.  The child processes are the environment: they answer, they    *)
(* may crash, a child that answers AllSpaceExhasuted exits with status 0,  *)
(* and asyncio's child watcher sets returncode (Reap) only while the       *)
(* generator is suspended at an await or a yield.                          *)
(***************************************************************************)
EXTENDS Naturals, Sequences, FiniteSets, SequencesExt

CONSTANTS
  Spaces,       \* the mutation-type subsets, one child process each
  Requests,     \* JSON payloads a caller may send
  RandomReq,    \* RequestObject_Random(num_patched): what a None request becomes
  NoReq,        \* no request yet
  MaxBatch,     \* most patches one child returns for one request
  MaxPatches,   \* bound on the patches generated in a behaviour
  MaxCrashes,   \* bound on the children that crash
  SpawnMayFail  \* whether create_subprocess_exec may raise

ASSUME
  /\ Spaces # {} /\ IsFiniteSet(Spaces)
  /\ RandomReq \in Requests /\ NoReq \notin Requests
  /\ MaxBatch \in Nat \ {0} /\ MaxPatches \in Nat /\ MaxCrashes \in Nat
  /\ SpawnMayFail \in BOOLEAN

VARIABLES
  pc,         \* where the generator is: see GenStates
  req,        \* the request (JSON) the generator is serving
  child,      \* OS state of each child process
  reaped,     \* children whose returncode asyncio has set (no longer "running")
  cache,      \* unconsumedPatches: a deque of [json, id]
  nextId,     \* the next fresh patch id
  out,        \* what the last yield handed out: <<>> or <<id>>
  origin,     \* history: the request that produced each patch id
  delivered   \* history: the patch ids handed out so far

vars == <<pc, req, child, reaped, cache, nextId, out, origin, delivered>>

GenStates == {"unstarted", "spawning", "suspended", "top", "reading", "closed",
              "failed", "cancelled"}
\* The generator has returned, raised, or been cancelled.
Finished == {"closed", "failed", "cancelled"}
ChildStates == {"idle", "live", "exited", "crashed", "killed"}
\* A child's answer line: its Result and the number of patches it carries.
Answers ==
  {[res |-> "AllSpaceExhasuted", n |-> 0], [res |-> "SpaceExhasutedForAST", n |-> 0]}
    \cup [res : {"Patches"}, n : 1..MaxBatch]
PatchIds == 1..MaxPatches

\* The order in which the code iterates self.spaceInfo.
SpaceSeq == SetToSeq(Spaces)

(***************************************************************************)
(* SolidityM.allRunningProcesses: the children whose returncode is None.    *)
(***************************************************************************)
Running == {s \in Spaces : child[s] # "idle" /\ s \notin reaped}

(***************************************************************************)
(* SolidityM.checkIfProcessesOkay fails iff an observed child exited with a *)
(* nonzero returncode.                                                     *)
(***************************************************************************)
ProcessesOkay == \A s \in reaped : child[s] = "exited"

(***************************************************************************)
(* SolidityM.killAllProcesses, run by the finally clause of __patchSource.  *)
(* allProcesses reads info['proc'] of every space, which only a finished   *)
(* spawn sets: while a space has no child it raises KeyError before any    *)
(* kill, and that exception replaces the one that entered the finally.    *)
(***************************************************************************)
KillAllProcesses ==
  child' = IF \E s \in Spaces : child[s] = "idle" THEN child
           ELSE [s \in Spaces |-> IF s \in Running /\ child[s] = "live"
                                  THEN "killed" ELSE child[s]]

\* Faulty variant: take the head of the deque whatever its JSON.
OkPatchesAnyJson(c, j) == IF c = <<>> THEN 0 ELSE 1

\* The entries of the deque produced by the request j.
OkPatches(c, j) == SelectInSeq(c, LAMBDA e : e.json = j)

\* Faulty variant: hand the entry out without removing it from the deque.
YieldCachedKeep(c) ==
  LET i == OkPatches(c, req) IN
  /\ cache' = c
  /\ out' = <<c[i].id>>
  /\ delivered' = delivered \cup {c[i].id}
  /\ pc' = "suspended"

(***************************************************************************)
(* Hand the first cached patch for req to the caller (the "Consume first"  *)
(* and the end-of-round yields); the yield suspends the generator.          *)
(***************************************************************************)
YieldCached(c) ==
  LET i == OkPatches(c, req) IN
  /\ cache' = RemoveAt(c, i)
  /\ out' = <<c[i].id>>
  /\ delivered' = delivered \cup {c[i].id}
  /\ pc' = "suspended"

-----------------------------------------------------------------------------
(***************************************************************************)
(* The first asend enters the spawn loop; the request None it serves       *)
(* becomes RequestObject_Random once every child is spawned.               *)
(***************************************************************************)
Start ==
  /\ pc = "unstarted"
  /\ req' = RandomReq
  /\ pc' = "spawning"
  /\ UNCHANGED <<child, reaped, cache, nextId, out, origin, delivered>>

(***************************************************************************)
(* One await of create_subprocess_exec, for the next space in the order of *)
(* self.spaceInfo.  The spawn may raise (the Pythons that check it reject  *)
(* its encoding= argument; fork may fail): the finally then runs with this *)
(* space still unspawned.  After the last spawn the loop is entered        *)
(* without an await.                                                       *)
(***************************************************************************)
Spawn ==
  /\ pc = "spawning"
  /\ LET s == SpaceSeq[SelectInSeq(SpaceSeq, LAMBDA t : child[t] = "idle")] IN
     \/ /\ child' = [child EXCEPT ![s] = "live"]
        /\ pc' = IF \A t \in Spaces \ {s} : child[t] # "idle"
                 THEN "top" ELSE "spawning"
     \/ /\ SpawnMayFail
        /\ pc' = "failed"
        /\ KillAllProcesses
  /\ UNCHANGED <<req, reaped, cache, nextId, out, origin, delivered>>

(***************************************************************************)
(* A later asend(request) resumes the generator at its yield.              *)
(***************************************************************************)
Asend(r) ==
  /\ pc = "suspended"
  /\ req' = r
  /\ pc' = "top"
  /\ UNCHANGED <<child, reaped, cache, nextId, out, origin, delivered>>

(***************************************************************************)
(* The top of the while loop, run without any await: serve from the cache, *)
(* else checkIfProcessesOkay, else return when no child is running, else  *)
(* write the line to every running child and await the drains.  A write to *)
(* a child that has died but is not yet reaped may make drain raise.       *)
(***************************************************************************)
CacheHit ==
  /\ pc = "top"
  /\ OkPatches(cache, req) # 0
  /\ YieldCached(cache)
  /\ UNCHANGED <<req, child, reaped, nextId, origin>>

CheckFails ==
  /\ pc = "top"
  /\ OkPatches(cache, req) = 0
  /\ ~ProcessesOkay
  /\ pc' = "failed"
  /\ KillAllProcesses
  /\ UNCHANGED <<req, reaped, cache, nextId, out, origin, delivered>>

NoneRunning ==
  /\ pc = "top"
  /\ OkPatches(cache, req) = 0
  /\ ProcessesOkay
  /\ Running = {}
  /\ pc' = "closed"
  /\ UNCHANGED <<req, child, reaped, cache, nextId, out, origin, delivered>>

WriteRequest ==
  /\ pc = "top"
  /\ OkPatches(cache, req) = 0
  /\ ProcessesOkay
  /\ Running # {}
  /\ \/ pc' = "reading" /\ UNCHANGED child
     \/ /\ \E s \in Running : child[s] # "live"
        /\ pc' = "failed"
        /\ KillAllProcesses
  /\ UNCHANGED <<req, reaped, cache, nextId, out, origin, delivered>>

(***************************************************************************)
(* After the drains: read one line from every child still running (the set *)
(* is recomputed after the await), wait for all of them, and process them  *)
(* in order.  An empty line (the child is gone) raises; AllSpaceExhasuted  *)
(* sets gotHax and the child exits; other answers append their patches to  *)
(* the deque tagged with the request.  Then yield the first patch for this *)
(* request, or () when there is none and no child was exhausted, or go     *)
(* round the loop again with the same request.  If every child was reaped  *)
(* during the drains, asyncio.wait gets no task and raises ValueError.     *)
(***************************************************************************)
\* Faulty variant: go round the loop instead of yielding () on an empty round.
EndOfRoundNoEmptyYield(c, gotHax) ==
  IF OkPatches(c, req) # 0
  THEN YieldCached(c)
  ELSE cache' = c /\ delivered' = delivered /\ pc' = "top" /\ out' = out

\* Faulty variant: an answer without exhaustion yields () before looking
\* for a patch of this request in the deque.
EndOfRoundEmptyFirst(c, gotHax) ==
  IF ~gotHax
  THEN cache' = c /\ delivered' = delivered /\ pc' = "suspended" /\ out' = <<>>
  ELSE IF OkPatches(c, req) # 0
       THEN YieldCached(c)
       ELSE cache' = c /\ delivered' = delivered /\ pc' = "top" /\ out' = out

EndOfRound(c, gotHax) ==
  IF OkPatches(c, req) # 0
  THEN YieldCached(c)
  ELSE /\ cache' = c
       /\ delivered' = delivered
       /\ IF gotHax
          THEN pc' = "top" /\ out' = out
          ELSE pc' = "suspended" /\ out' = <<>>

\* Faulty variant: number the batch from one before nextId.
NewEntriesOffByOne(ans, R) ==
  LET step(acc, s) ==
        IF s \in R
        THEN acc \o [k \in 1..ans[s].n |->
                       [json |-> req, id |-> nextId + Len(acc) + k - 2]]
        ELSE acc
  IN FoldLeft(step, <<>>, SpaceSeq)

NewEntries(ans, R) ==
  LET step(acc, s) ==
        IF s \in R
        THEN acc \o [k \in 1..ans[s].n |->
                       [json |-> req, id |-> nextId + Len(acc) + k - 1]]
        ELSE acc
  IN FoldLeft(step, <<>>, SpaceSeq)

ReadResponses ==
  /\ pc = "reading"
  /\ LET R == Running IN
     \/ /\ \/ R = {}
           \/ \E s \in R : child[s] # "live"
        /\ pc' = "failed"
        /\ KillAllProcesses
        /\ UNCHANGED <<req, reaped, cache, nextId, out, origin, delivered>>
     \/ /\ R # {}
        /\ \A s \in R : child[s] = "live"
        /\ \E ans \in [R -> Answers] :
             LET new    == NewEntries(ans, R)
                 c      == cache \o new
                 gotHax == \E s \in R : ans[s].res = "AllSpaceExhasuted"
             IN /\ nextId + Len(new) <= MaxPatches + 1
                /\ nextId' = nextId + Len(new)
                /\ origin' = [i \in PatchIds |->
                                IF i >= nextId /\ i < nextId' THEN req
                                ELSE origin[i]]
                /\ child' = [s \in Spaces |->
                               IF s \in R /\ ans[s].res = "AllSpaceExhasuted"
                               THEN "exited" ELSE child[s]]
                /\ EndOfRound(c, gotHax)
                \* an exhausted child exits right after its line and may be
                \* reaped while the round still awaits the other reads
                /\ \E E \in SUBSET {s \in R : ans[s].res = "AllSpaceExhasuted"} :
                     reaped' = reaped \cup E
        /\ UNCHANGED req

-----------------------------------------------------------------------------
(***************************************************************************)
(* The environment: a child crashes; asyncio's child watcher observes an  *)
(* exit (only while the generator is parked at an await or a yield).       *)
(***************************************************************************)
Crash(s) ==
  /\ child[s] = "live"
  /\ pc \notin Finished
  /\ Cardinality({t \in Spaces : child[t] = "crashed"}) < MaxCrashes
  /\ child' = [child EXCEPT ![s] = "crashed"]
  /\ UNCHANGED <<pc, req, reaped, cache, nextId, out, origin, delivered>>

Reap(s) ==
  /\ pc \in {"spawning", "suspended", "reading"}
  /\ child[s] \in {"exited", "crashed", "killed"}
  /\ s \notin reaped
  /\ reaped' = reaped \cup {s}
  /\ UNCHANGED <<pc, req, child, cache, nextId, out, origin, delivered>>

(***************************************************************************)
(* The end of the run (CLI.main's finally).  The timeout cancels the       *)
(* repair task: a generator parked at an await of its round gets           *)
(* CancelledError there.  Then loop.shutdown_asyncgens acloses every       *)
(* generator still open: one parked at a yield gets GeneratorExit there.   *)
(* Either way the finally of __patchSource runs killAllProcesses.  A      *)
(* cancelled spawn kills its own half-made child (the transport is closed) *)
(* and leaves its space without a proc.  An unstarted generator was never  *)
(* registered and has no children.                                         *)
(***************************************************************************)
Cancel ==
  /\ pc \in {"spawning", "reading"}
  /\ pc' = "cancelled"
  /\ KillAllProcesses
  /\ UNCHANGED <<req, reaped, cache, nextId, out, origin, delivered>>

Aclose ==
  /\ pc = "suspended"
  /\ pc' = "closed"
  /\ KillAllProcesses
  /\ UNCHANGED <<req, reaped, cache, nextId, out, origin, delivered>>

\* The generator has returned or raised; nothing more happens to it.
Terminated ==
  /\ pc \in Finished
  /\ UNCHANGED vars

Init ==
  /\ pc = "unstarted"
  /\ req = NoReq
  /\ child = [s \in Spaces |-> "idle"]
  /\ reaped = {}
  /\ cache = <<>>
  /\ nextId = 1
  /\ out = <<>>
  /\ origin = [i \in PatchIds |-> NoReq]
  /\ delivered = {}

Generator ==
  \/ Start \/ Spawn
  \/ CacheHit \/ CheckFails \/ NoneRunning \/ WriteRequest
  \/ ReadResponses

Next ==
  \/ Generator
  \/ \E r \in Requests : Asend(r)
  \/ \E s \in Spaces : Crash(s) \/ Reap(s)
  \/ Cancel \/ Aclose
  \/ Terminated

(***************************************************************************)
(* The generator runs whenever it is not parked (weak fairness on its own *)
(* steps), and the child watcher eventually reaps an exited child.  The   *)
(* caller is not assumed to send another request, nor the run to end;    *)
(* children need not crash.                                               *)
(***************************************************************************)
Fairness ==
  /\ WF_vars(Generator)
  /\ \A s \in Spaces : WF_vars(Reap(s))

Spec == Init /\ [][Next]_vars /\ Fairness

-----------------------------------------------------------------------------
TypeOK ==
  /\ pc \in GenStates
  /\ req \in Requests \cup {NoReq}
  /\ child \in [Spaces -> ChildStates]
  /\ reaped \subseteq Spaces
  /\ cache \in Seq([json : Requests, id : PatchIds])
  /\ nextId \in 1..MaxPatches + 1
  /\ out \in {<<>>} \cup {<<i>> : i \in PatchIds}
  /\ origin \in [PatchIds -> Requests \cup {NoReq}]
  /\ delivered \subseteq PatchIds

(***************************************************************************)
(* A patch handed to a caller was generated for the very request the      *)
(* caller sent: the deque holds patches of many requests (other children's *)
(* answers, leftovers of earlier rounds), and the generator must pick the *)
(* entry whose JSON equals the current one (OkPatches in __patchSource).   *)
(***************************************************************************)
ResponseMatchesRequest ==
  pc = "suspended" /\ out # <<>> => origin[out[1]] = req

(***************************************************************************)
(* Exactly-once delivery: while the generator lives, every patch a child  *)
(* generated is either still in unconsumedPatches or has been handed out,  *)
(* never both and never twice; none is lost when a round yields early.     *)
(***************************************************************************)
PatchConservation ==
  pc \notin Finished =>
    \A i \in 1..nextId - 1 :
      (IF i \in delivered THEN 1 ELSE 0)
        + Cardinality({k \in 1..Len(cache) : cache[k].id = i}) = 1

(***************************************************************************)
(* When the generator has returned, raised or been cancelled, no child     *)
(* process is left alive (the finally: killAllProcesses of __patchSource), *)
(* also when this happens while the children are still being spawned.     *)
(***************************************************************************)
NoOrphanChildren ==
  pc \in Finished => \A s \in Spaces : child[s] # "live"

(***************************************************************************)
(* Every request is eventually answered: once the loop is entered with a  *)
(* request, the generator yields, returns or raises; the AllSpaceExhasuted *)
(* "continue" cannot spin forever.                                         *)
(***************************************************************************)
RequestAnswered ==
  pc = "top" ~> pc \in {"suspended"} \cup Finished

(***************************************************************************)
(* The spec (section 4.5) says a fatal error comes from a child exiting    *)
(* with nonzero status or from malformed/empty output of a still-running  *)
(* child; so the generator should raise only when some child crashed.      *)
(***************************************************************************)
FailsOnlyOnCrash ==
  pc = "failed" => \E s \in Spaces : child[s] = "crashed"

-----------------------------------------------------------------------------
(***************************************************************************)
(* Refinement mapping onto the engine contract: the generator parked at a  *)
(* yield is idle; spawning, at the top of its loop or reading it is        *)
(* serving; the deque is the set of held patches and the ids below nextId  *)
(* were issued.                                                            *)
(***************************************************************************)
EngineState ==
  CASE pc = "unstarted" -> "fresh"
    [] pc = "suspended" -> "idle"
    [] pc \in {"spawning", "top", "reading"} -> "serving"
    [] pc = "closed" -> "returned"
    [] pc \in {"failed", "cancelled"} -> "raised"

Engine == INSTANCE PatchEngine
            WITH estate <- EngineState, ereq <- req, store <- ToSet(cache),
                 issued <- 1..nextId - 1, handed <- delivered, answer <- out

(***************************************************************************)
(* __patchSource implements the engine contract of section 4.5: every     *)
(* round only adds fresh patches bound to the current request, hands out a *)
(* held patch of that request and removes it, yields () only when it holds *)
(* none for the request, returns only then, and eventually replies.        *)
(***************************************************************************)
ImplementsEngine == Engine!Spec

=============================================================================
