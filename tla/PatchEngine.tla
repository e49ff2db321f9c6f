----------------------------- MODULE PatchEngine -----------------------------
(***************************************************************************)
(* What the mutation engine client promises its caller (spec section 4.5), *)
(* with the processes, rounds and the deque left out.  The engine holds    *)
(* the patches generated and not yet handed out, each bound to the request *)
(* it was generated for.  Serving a request generates any number of fresh  *)
(* patches for it, then hands out one bound to that request, or () when   *)
(* none is held, or keeps serving; it may instead end or fail.  An idle    *)
(* engine may be closed by its caller.                                     *)
(***************************************************************************)
EXTENDS Naturals, FiniteSets

CONSTANTS Requests, RandomReq, NoReq, PatchIds

VARIABLES
  estate,   \* "fresh", "idle" (at a yield), "serving", "returned", "raised"
  ereq,     \* the request being served
  store,    \* held patches: records [json, id]
  issued,   \* the ids generated so far
  handed,   \* the ids handed out so far
  answer    \* the last reply: <<>> or <<id>>

evars == <<estate, ereq, store, issued, handed, answer>>

Held(r) == {e \in store : e.json = r}

\* The first asend: the bootstrap None is served as the random request.
Open ==
  /\ estate = "fresh"
  /\ estate' = "serving" /\ ereq' = RandomReq
  /\ UNCHANGED <<store, issued, handed, answer>>

Request(r) ==
  /\ estate = "idle"
  /\ estate' = "serving" /\ ereq' = r
  /\ UNCHANGED <<store, issued, handed, answer>>

\* Generate fresh patches for the request, then reply or keep serving.
Round ==
  /\ estate = "serving"
  /\ \E new \in SUBSET (PatchIds \ issued) :
       LET S == store \cup {[json |-> ereq, id |-> i] : i \in new} IN
       /\ issued' = issued \cup new
       /\ \/ \E e \in S : /\ e.json = ereq
                          /\ store' = S \ {e} /\ handed' = handed \cup {e.id}
                          /\ answer' = <<e.id>> /\ estate' = "idle"
          \/ /\ {e \in S : e.json = ereq} = {}
             /\ store' = S /\ handed' = handed
             /\ \/ answer' = <<>> /\ estate' = "idle"
                \/ answer' = answer /\ estate' = "serving"
  /\ UNCHANGED ereq

\* The generator returns: nothing is held for the request being served.
Close ==
  /\ estate = "serving" /\ Held(ereq) = {}
  /\ estate' = "returned"
  /\ UNCHANGED <<ereq, store, issued, handed, answer>>

Fail ==
  /\ estate = "serving"
  /\ estate' = "raised"
  /\ UNCHANGED <<ereq, store, issued, handed, answer>>

\* The caller closes the generator parked at a yield (aclose); the patches
\* still held are dropped.
Abandon ==
  /\ estate = "idle"
  /\ estate' = "returned"
  /\ UNCHANGED <<ereq, store, issued, handed, answer>>

Init ==
  /\ estate = "fresh" /\ ereq = NoReq
  /\ store = {} /\ issued = {} /\ handed = {} /\ answer = <<>>

Next == Open \/ (\E r \in Requests : Request(r)) \/ Round \/ Close \/ Fail
        \/ Abandon

\* A request being served is eventually replied to, or the engine ends.
Reply ==
  \/ Close \/ Fail
  \/ Round /\ estate' # "serving"

Spec == Init /\ [][Next]_evars /\ WF_evars(Reply)
=============================================================================
