---------------------------- MODULE FetchService ----------------------------
(***************************************************************************)
(* What a source of project states promises to the ProjectCache that sends *)
(* it FetchProjectState messages (project_cache.rs): every message gets    *)
(* one answer, Ok(state) or Err(()), and an Ok for a message with no_cache *)
(* was computed by a query that told the upstream to skip its caches.      *)
(*                                                                         *)
(* UpstreamProjectSource implements this specification (with batching,     *)
(* timers, retries and deadlines); ProjectCache is composed with it.       *)
(***************************************************************************)
CONSTANT Requests      \* names of the FetchProjectState messages in use

VARIABLE reqs          \* Requests -> the caller's view of its message

Statuses == {"idle", "waiting", "ok", "failed"}

Idle == [status |-> "idle", no_cache |-> FALSE, fresh |-> FALSE]

FetchTypeOK ==
  reqs \in [Requests -> [status : Statuses, no_cache : BOOLEAN, fresh : BOOLEAN]]

Waiting == {r \in Requests : reqs[r].status = "waiting"}

FetchInit == reqs = [r \in Requests |-> Idle]

(* The caller sends FetchProjectState { no_cache }.                        *)
FetchProjectState(r, nc) ==
  /\ reqs[r].status = "idle"
  /\ reqs' = [reqs EXCEPT ![r] = [status   |-> "waiting",
                                  no_cache |-> nc,
                                  fresh    |-> FALSE]]

(* The caller's view after the requests of `ok' received a state, those of *)
(* `fresh' among them from a query with no_cache, and those of `failed'    *)
(* received an error.                                                      *)
Answered(ok, fresh, failed) ==
  [r \in Requests |->
     IF r \in ok THEN [reqs[r] EXCEPT !.status = "ok", !.fresh = (r \in fresh)]
     ELSE IF r \in failed THEN [reqs[r] EXCEPT !.status = "failed"]
     ELSE reqs[r]]

(* One step of the source answers any number of waiting requests.          *)
Answer ==
  \E ok, failed \in SUBSET Waiting :
    /\ ok \cup failed # {}
    /\ ok \cap failed = {}
    /\ \E fresh \in SUBSET ok :
         /\ {r \in ok : reqs[r].no_cache} \subseteq fresh
         /\ reqs' = Answered(ok, fresh, failed)

(* The caller's future is polled and takes the answer.                     *)
TakeAnswer(r) ==
  /\ reqs[r].status \in {"ok", "failed"}
  /\ reqs' = [reqs EXCEPT ![r] = Idle]

FetchNext ==
  \/ \E r \in Requests, nc \in BOOLEAN : FetchProjectState(r, nc)
  \/ Answer
  \/ \E r \in Requests : TakeAnswer(r)

FetchSafety == FetchInit /\ [][FetchNext]_reqs

(* The answer r waits for has arrived.                                     *)
EventuallyAnswered ==
  \A r \in Requests : (reqs[r].status = "waiting") ~> (reqs[r].status # "waiting")

FetchSpec == FetchSafety /\ EventuallyAnswered
=============================================================================
