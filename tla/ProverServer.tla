---------------------------- MODULE ProverServer ----------------------------
(***************************************************************************)
(* The prover's Poll (galoisd/grpc/server.go) and the relayer's messages   *)
(* that poll it (fetch_prove_request, relay-message/src/chain/union.rs).   *)
(*                                                                         *)
(* Every call of Poll is a goroutine.  Those that run at the same time     *)
(* share only the map results and the counter nbJobs, both of atomic       *)
(* operations, and are interleaved between any two of them.  The call that *)
(* starts a job answers and goes on as the job's goroutine.  Proofs are    *)
(* not modelled: a job succeeds or fails.                                  *)
(*                                                                         *)
(* The relayer polls again after a pending or a busy answer and panics on  *)
(* an error.  A relayer that ends and comes back polls anew, while its     *)
(* last call still runs; a prover that ends loses all it has in memory.    *)
(***************************************************************************)
EXTENDS Integers, FiniteSets

CONSTANTS
  Clients,    \* FetchProveRequest messages
  Keys,       \* the prove requests, by their hash
  request,    \* what each message asks for
  Calls,      \* goroutines: bounds how many there are at a time
  maxJobs,
  MaxFaults   \* bound: restarts of the relayer and of the prover

ASSUME ProverAssumption ==
  /\ request \in [Clients -> Keys]
  /\ IsFiniteSet(Calls)
  /\ maxJobs \in Nat \ {0} /\ MaxFaults \in Nat

VARIABLES
  results,  \* key -> what the map has for it
  nbJobs,
  call,     \* the goroutines: where each one is
  client,   \* the messages: where each one is, and the call it waits for
  faults

vars == <<results, nbJobs, call, client, faults>>

None == "none"
Idle == "idle"

(* Where the goroutine is: of the call, before it knows whether there is   *)
(* room for a job, and of the job, until it is no longer counted.          *)
Asking == {"new", "counted", "busy"}
Proving == {"proving", "stored", "leaving"}

callAt(at, key, seen) == [at |-> at, key |-> key, seen |-> seen]
NoCall == callAt(Idle, None, 0)

Init ==
  /\ results = [k \in Keys |-> None]
  /\ nbJobs = 0
  /\ call = [p \in Calls |-> NoCall]
  /\ client = [c \in Clients |-> [at |-> "ready", call |-> None]]
  /\ faults = 0

(* The answer to the call p, if its client still waits for it.             *)
receive(p, answer) ==
  client' = [c \in Clients |->
    IF client[c].call # p THEN client[c]
    ELSE [client[c] EXCEPT !.call = None,
           !.at = CASE answer \in {"pending", "busy_building"} -> "ready"
                    [] answer = "done" -> "done"
                    [] answer = "failed" -> "panicked"]]

-----------------------------------------------------------------------------
(* Poll *)

(* Mutant: a poll that finds the proof pending goes on to start it.        *)
loadOrStore_pending(p, c) ==
  LET k == request[c]
  IN IF results[k] \in {None, "pending"}
       THEN /\ results' = [results EXCEPT ![k] = "pending"]
            /\ call' = [call EXCEPT ![p] = callAt("new", k, 0)]
            /\ client' = [client EXCEPT ![c].at = "waiting", ![c].call = p]
       ELSE /\ client' = [client EXCEPT ![c].at =
                            CASE results[k] = "done" -> "done"
                              [] results[k] = "failed" -> "panicked"]
            /\ UNCHANGED <<results, call>>

(* results.LoadOrStore: what was there is the answer, and if there was     *)
(* nothing the call goes on.                                               *)
loadOrStore(p, c) ==
  LET k == request[c]
  IN IF results[k] = None
       THEN /\ results' = [results EXCEPT ![k] = "pending"]
            /\ call' = [call EXCEPT ![p] = callAt("new", k, 0)]
            /\ client' = [client EXCEPT ![c].at = "waiting", ![c].call = p]
       ELSE /\ client' = [client EXCEPT ![c].at =
                            CASE results[k] = "pending" -> "ready"
                              [] results[k] = "done" -> "done"
                              [] results[k] = "failed" -> "panicked"]
            /\ UNCHANGED <<results, call>>

(* A new goroutine; which one does not matter.                             *)
poll(c) ==
  /\ client[c].at = "ready" /\ \E p \in Calls : call[p].at = Idle
  /\ loadOrStore(CHOOSE p \in Calls : call[p].at = Idle, c)
  /\ UNCHANGED <<nbJobs, faults>>

loadCount(p) ==
  /\ call[p].at = "new"
  /\ call' = [call EXCEPT ![p] = IF nbJobs >= maxJobs
                                   THEN callAt("busy", call[p].key, 0)
                                   ELSE callAt("counted", call[p].key, nbJobs)]
  /\ UNCHANGED <<results, nbJobs, client, faults>>

(* Mutant: the entry of a request that is turned away stays.               *)
turnAway_kept(p) ==
  /\ call[p].at = "busy"
  /\ call' = [call EXCEPT ![p] = NoCall]
  /\ receive(p, "busy_building")
  /\ UNCHANGED <<results, nbJobs, faults>>

turnAway(p) ==
  /\ call[p].at = "busy"
  /\ results' = [results EXCEPT ![call[p].key] = None]
  /\ call' = [call EXCEPT ![p] = NoCall]
  /\ receive(p, "busy_building")
  /\ UNCHANGED <<nbJobs, faults>>

(* Mutant: the counter is stored instead of compared and swapped.          *)
startJob_store(p) ==
  /\ call[p].at = "counted"
  /\ nbJobs' = call[p].seen + 1
  /\ call' = [call EXCEPT ![p].at = "proving", ![p].seen = 0]
  /\ receive(p, "pending")
  /\ UNCHANGED <<results, faults>>

(* nbJobs.CompareAndSwap, and the job's goroutine if it was swapped.       *)
startJob(p) ==
  /\ call[p].at = "counted"
  /\ \/ /\ nbJobs = call[p].seen
        /\ nbJobs' = nbJobs + 1
        /\ call' = [call EXCEPT ![p].at = "proving", ![p].seen = 0]
        /\ receive(p, "pending")
     \/ /\ nbJobs # call[p].seen
        /\ call' = [call EXCEPT ![p].at = "new", ![p].seen = 0]
        /\ UNCHANGED <<nbJobs, client>>
  /\ UNCHANGED <<results, faults>>

-----------------------------------------------------------------------------
(* The job *)

storeResult(p) ==
  /\ call[p].at = "proving"
  /\ \E result \in {"done", "failed"} : results' = [results EXCEPT ![call[p].key] = result]
  /\ call' = [call EXCEPT ![p].at = "stored"]
  /\ UNCHANGED <<nbJobs, client, faults>>

loadValue(p) ==
  /\ call[p].at = "stored"
  /\ call' = [call EXCEPT ![p].at = "leaving", ![p].seen = nbJobs]
  /\ UNCHANGED <<results, nbJobs, client, faults>>

leave(p) ==
  /\ call[p].at = "leaving"
  /\ \/ /\ nbJobs = call[p].seen
        /\ nbJobs' = nbJobs - 1
        /\ call' = [call EXCEPT ![p] = NoCall]
     \/ /\ nbJobs # call[p].seen
        /\ call' = [call EXCEPT ![p].at = "stored", ![p].seen = 0]
        /\ UNCHANGED nbJobs
  /\ UNCHANGED <<results, client, faults>>

-----------------------------------------------------------------------------
(* Restarts (external) *)

(* The message is still in the relayer's queue, and is handled again.      *)
restartClient(c) ==
  /\ faults < MaxFaults /\ faults' = faults + 1
  /\ client[c].at \in {"waiting", "panicked"}
  /\ client' = [client EXCEPT ![c].at = "ready", ![c].call = None]
  /\ UNCHANGED <<results, nbJobs, call>>

(* Who waits for an answer gets an error that is not busy_building.        *)
restartServer ==
  /\ faults < MaxFaults /\ faults' = faults + 1
  /\ results' = [k \in Keys |-> None]
  /\ nbJobs' = 0
  /\ call' = [p \in Calls |-> NoCall]
  /\ client' = [c \in Clients |->
       IF client[c].at = "waiting" THEN [client[c] EXCEPT !.at = "panicked", !.call = None]
                                   ELSE client[c]]

-----------------------------------------------------------------------------
advance(p) ==
  loadCount(p) \/ turnAway(p) \/ startJob(p) \/ storeResult(p) \/ loadValue(p) \/ leave(p)

Next ==
  \/ \E p \in Calls : advance(p)
  \/ \E c \in Clients : poll(c) \/ restartClient(c)
  \/ restartServer

(* Every goroutine runs on, and a message that is not done is polled       *)
(* again (its seq of a defer and a fetch).                                 *)
Fairness ==
  /\ \A p \in Calls : WF_vars(advance(p))
  /\ \A c \in Clients : WF_vars(poll(c))

Spec == Init /\ [][Next]_vars /\ Fairness

-----------------------------------------------------------------------------
(* Properties *)

jobs == {p \in Calls : call[p].at \in Proving}

(* The counter is the number of jobs, so there are never more of them than *)
(* maxJobs and no place of the pool is ever lost, however the loads and    *)
(* the swaps of Poll and of the jobs that end interleave.                  *)
JobsAreCounted == nbJobs = Cardinality(jobs) /\ nbJobs <= maxJobs

(* A request the map says is pending has exactly one goroutine that will   *)
(* store its result or delete it again: no request is proved twice, and    *)
(* none waits for a proof that nobody makes.                               *)
PendingHasOneOwner ==
  \A k \in Keys :
    LET owners == {p \in Calls : call[p].key = k /\ call[p].at \in Asking \cup {"proving"}}
    IN Cardinality(owners) = IF results[k] = "pending" THEN 1 ELSE 0

(* What the prover has stored for a request stays until it restarts: the   *)
(* Delete of a call that is turned away never takes a result, and a        *)
(* request that failed is not tried again.                                 *)
ResultsAreFinal ==
  [][\A k \in Keys : results[k] \in {"done", "failed"} =>
       results'[k] = results[k] \/ restartServer]_vars

(* Every message that polls gets its proof or a failure in the end, though *)
(* it may be turned away, and its poll or the prover's memory be lost.     *)
ProofsArrive == \A c \in Clients : client[c].at = "ready" ~> client[c].at \in {"done", "panicked"}

=============================================================================
