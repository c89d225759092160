------------------------- MODULE ProverServerProofs -------------------------
(***************************************************************************)
(* Proofs about ProverServer, for any number of goroutines, requests and   *)
(* messages, any capacity and any number of restarts.                      *)
(***************************************************************************)
EXTENDS ProverServer, FiniteSetTheorems, TLAPS

Result == {None, "pending", "done", "failed"}
Place == {Idle} \cup Asking \cup Proving

TypeOK ==
  /\ results \in [Keys -> Result]
  /\ nbJobs \in Nat
  /\ call \in [Calls -> [at : Place, key : Keys \cup {None}, seen : Nat]]

(* Whoever has counted the jobs saw that there was room for one more.      *)
SeenIsBelow == \A p \in Calls : call[p].at = "counted" => call[p].seen < maxJobs

(* The goroutine p will store the result of request k, or delete its       *)
(* entry.                                                                  *)
Owns(p, k) == call[p].key = k /\ call[p].at \in Asking \cup {"proving"}

(* PendingHasOneOwner without the counting.                                *)
OwnedIffPending ==
  /\ \A p \in Calls : call[p].at # Idle => call[p].key \in Keys
  /\ \A k \in Keys : results[k] = "pending" <=> \E p \in Calls : Owns(p, k)
  /\ \A k \in Keys : \A p, q \in Calls : Owns(p, k) /\ Owns(q, k) => p = q

(* The inductive invariant.                                                *)
IInv ==
  /\ TypeOK
  /\ SeenIsBelow
  /\ JobsAreCounted
  /\ OwnedIffPending

-----------------------------------------------------------------------------
(* Lemmas about the number of jobs *)

(* The jobs are finitely many, as the goroutines are.                      *)
LEMMA JobsFinite == IsFiniteSet(jobs) /\ Cardinality(jobs) \in Nat
<1>1. jobs \in SUBSET Calls
  BY DEF jobs
<1>2. IsFiniteSet(jobs)
  BY <1>1, ProverAssumption, FS_Subset
<1> QED
  BY <1>2, FS_CardinalityType

(* A step that leaves the set of jobs alone leaves their number alone.     *)
LEMMA JobsSame ==
  ASSUME JobsAreCounted, UNCHANGED nbJobs,
         \A p \in Calls : call'[p].at \in Proving <=> call[p].at \in Proving
  PROVE  JobsAreCounted'
<1>1. jobs' = jobs
  BY DEF jobs
<1> QED
  BY <1>1 DEF JobsAreCounted

(* One more job.                                                           *)
LEMMA JobStarts ==
  ASSUME JobsAreCounted, NEW p \in Calls, nbJobs < maxJobs, nbJobs' = nbJobs + 1,
         call[p].at \notin Proving, call'[p].at \in Proving,
         \A q \in Calls \ {p} : call'[q] = call[q]
  PROVE  JobsAreCounted'
<1>1. jobs' = jobs \cup {p} /\ p \notin jobs
  BY DEF jobs
<1>2. Cardinality(jobs') = Cardinality(jobs) + 1
  BY <1>1, JobsFinite, FS_AddElement
<1> QED
  BY <1>2, JobsFinite, ProverAssumption DEF JobsAreCounted

(* One less.                                                               *)
LEMMA JobEnds ==
  ASSUME JobsAreCounted, NEW p \in Calls, nbJobs' = nbJobs - 1,
         call[p].at \in Proving, call'[p].at \notin Proving,
         \A q \in Calls \ {p} : call'[q] = call[q]
  PROVE  JobsAreCounted'
<1>1. jobs' = jobs \ {p} /\ p \in jobs
  BY DEF jobs
<1>2. Cardinality(jobs') = Cardinality(jobs) - 1
  BY <1>1, JobsFinite, FS_RemoveElement
<1> QED
  BY <1>2, JobsFinite, ProverAssumption DEF JobsAreCounted


-----------------------------------------------------------------------------
(* The invariant *)

(* Nothing runs at the start.                                              *)
LEMMA InitInv == Init => IInv
<1> SUFFICES ASSUME Init
             PROVE  IInv
  OBVIOUS
<1>1. TypeOK
  BY DEF Init, TypeOK, Result, Place, NoCall, callAt
<1>2. \A p \in Calls : call[p] = NoCall
  BY DEF Init
<1>3. SeenIsBelow
  BY <1>2 DEF SeenIsBelow, NoCall, callAt, Idle
<1>4. jobs = {}
  BY <1>2 DEF jobs, NoCall, callAt, Idle, Proving
<1>5. JobsAreCounted
  BY <1>4, FS_EmptySet, ProverAssumption DEF Init, JobsAreCounted
<1>6. OwnedIffPending
  BY <1>2 DEF Init, OwnedIffPending, Owns, NoCall, callAt, Idle, Asking, None
<1> QED
  BY <1>1, <1>3, <1>5, <1>6 DEF IInv

(* A poll makes at most one new owner, of an entry that was not there.     *)
LEMMA PollInv ==
  ASSUME IInv, NEW c \in Clients, poll(c)
  PROVE  IInv'
<1>1. PICK p \in Calls : call[p].at = Idle /\ p = CHOOSE q \in Calls : call[q].at = Idle
  BY DEF poll
<1>2. PICK k \in Keys : k = request[c]
  BY ProverAssumption
<1>3. loadOrStore(p, c) /\ UNCHANGED nbJobs
  BY <1>1 DEF poll
<1>4. CASE UNCHANGED <<results, call>>
  BY <1>3, <1>4 DEF IInv, TypeOK, SeenIsBelow, JobsAreCounted, jobs, OwnedIffPending, Owns
<1>5. CASE /\ results[k] = None
           /\ results' = [results EXCEPT ![k] = "pending"]
           /\ call' = [call EXCEPT ![p] = callAt("new", k, 0)]
  <2>1. TypeOK'
    BY <1>1, <1>2, <1>3, <1>5 DEF IInv, TypeOK, callAt, Result, Place, Asking
  <2>2. call'[p] = callAt("new", k, 0) /\ \A q \in Calls \ {p} : call'[q] = call[q]
    BY <1>1, <1>5 DEF IInv, TypeOK
  <2>3. SeenIsBelow'
    BY <2>2 DEF IInv, SeenIsBelow, callAt
  <2>4. JobsAreCounted'
    <3>1. \A q \in Calls : call'[q].at \in Proving <=> call[q].at \in Proving
      <4>1. call[p].at \notin Proving /\ call'[p].at \notin Proving
        BY <1>1, <2>2 DEF callAt, Proving, Idle
      <4> QED
        BY <2>2, <4>1
    <3> QED
      BY <1>3, <3>1, JobsSame DEF IInv
  <2>5. results'[k] = "pending" /\ \A j \in Keys \ {k} : results'[j] = results[j]
    BY <1>2, <1>5 DEF IInv, TypeOK
  <2>6. \A q \in Calls : ~Owns(q, k)
    BY <1>2, <1>5 DEF IInv, OwnedIffPending, None
  <2>7. /\ Owns(p, k)' /\ \A j \in Keys \ {k} : ~Owns(p, j) /\ ~Owns(p, j)'
        /\ \A q \in Calls \ {p}, j \in Keys : Owns(q, j)' <=> Owns(q, j)
    BY <1>1, <2>2 DEF Owns, callAt, Asking, Idle
  <2>8. OwnedIffPending'
    <3>1. \A q \in Calls : call'[q].at # Idle => call'[q].key \in Keys
      BY <1>2, <2>2 DEF IInv, OwnedIffPending, callAt
    <3>2. \A j \in Keys : results'[j] = "pending" <=> \E q \in Calls : Owns(q, j)'
      BY <1>1, <2>5, <2>7 DEF IInv, OwnedIffPending
    <3>3. \A j \in Keys : \A q, r \in Calls : Owns(q, j)' /\ Owns(r, j)' => q = r
      BY <1>1, <2>6, <2>7 DEF IInv, OwnedIffPending
    <3> QED
      BY <3>1, <3>2, <3>3 DEF OwnedIffPending
  <2> QED
    BY <2>1, <2>3, <2>4, <2>8 DEF IInv
<1> QED
  BY <1>2, <1>3, <1>4, <1>5 DEF loadOrStore

(* What every step of a goroutine does: it moves p and no other, and only  *)
(* the entry of p's key changes.                                           *)
LEMMA OthersStay ==
  ASSUME TypeOK, NEW p \in Calls, advance(p)
  PROVE  \A q \in Calls \ {p} : call'[q] = call[q]
BY DEF TypeOK, advance, loadCount, turnAway, startJob, storeResult, loadValue, leave

(* A step of goroutine p that keeps its key, and whether p owns it, and    *)
(* the results keeps the owners.                                           *)
LEMMA OwnersSame ==
  ASSUME OwnedIffPending, NEW p \in Calls, UNCHANGED results,
         \A q \in Calls \ {p} : call'[q] = call[q],
         call[p].at # Idle, call'[p].key = call[p].key,
         call'[p].at \in Asking \cup {"proving"} <=> call[p].at \in Asking \cup {"proving"}
  PROVE  OwnedIffPending'
<1>1. \A q \in Calls, k \in Keys : Owns(q, k)' <=> Owns(q, k)
  BY DEF Owns
<1> QED
  BY <1>1 DEF OwnedIffPending

(* An owner that settles its entry owns it no more, and nobody else does.  *)
LEMMA OwnerLeaves ==
  ASSUME OwnedIffPending, NEW p \in Calls, NEW result \in {None, "done", "failed"},
         results \in [Keys -> Result],
         call[p].at \in Asking \cup {"proving"},
         results' = [results EXCEPT ![call[p].key] = result],
         \A q \in Calls \ {p} : call'[q] = call[q],
         call'[p].at \notin Asking \cup {"proving"},
         call'[p].at # Idle => call'[p].key = call[p].key
  PROVE  OwnedIffPending'
<1>1. PICK k \in Keys : k = call[p].key
  BY DEF OwnedIffPending, Asking, Idle
<1>2. Owns(p, k)
  BY <1>1 DEF Owns
<1>3. results'[k] # "pending" /\ \A j \in Keys \ {k} : results'[j] = results[j]
  BY <1>1 DEF None
<1>4. \A q \in Calls : ~Owns(q, k)'
  BY <1>1, <1>2 DEF OwnedIffPending, Owns
<1>5. \A q \in Calls, j \in Keys \ {k} : Owns(q, j)' <=> Owns(q, j)
  BY <1>1 DEF Owns
<1>6. \A q \in Calls : call'[q].at # Idle => call'[q].key \in Keys
  BY <1>1 DEF OwnedIffPending
<1>7. \A j \in Keys : results'[j] = "pending" <=> \E q \in Calls : Owns(q, j)'
  BY <1>3, <1>4, <1>5 DEF OwnedIffPending
<1>8. \A j \in Keys : \A q, r \in Calls : Owns(q, j)' /\ Owns(r, j)' => q = r
  BY <1>4, <1>5 DEF OwnedIffPending
<1> QED
  BY <1>6, <1>7, <1>8 DEF OwnedIffPending

(* Every step of a goroutine preserves the invariant.                      *)
LEMMA AdvanceInv ==
  ASSUME IInv, NEW p \in Calls, advance(p)
  PROVE  IInv'
<1> USE DEF IInv
<1>1. \A q \in Calls \ {p} : call'[q] = call[q]
  BY OthersStay
<1>2. call[p] \in [at : Place, key : Keys \cup {None}, seen : Nat]
  BY DEF TypeOK
<1>3. CASE loadCount(p)
  <2>1. UNCHANGED <<results, nbJobs>>
    BY <1>3 DEF loadCount
  <2>2. CASE nbJobs >= maxJobs
    <3>1. call' = [call EXCEPT ![p] = callAt("busy", call[p].key, 0)]
      BY <1>3, <2>2 DEF loadCount
    <3>2. call[p].at = "new" /\ call'[p] = callAt("busy", call[p].key, 0)
      BY <1>3, <3>1 DEF loadCount, TypeOK
    <3>3. TypeOK'
      BY <1>2, <2>1, <3>1 DEF TypeOK, callAt, Place, Asking
    <3>4. SeenIsBelow'
      BY <1>1, <3>2 DEF SeenIsBelow, callAt
    <3>5. \A q \in Calls : call'[q].at \in Proving <=> call[q].at \in Proving
      BY <1>1, <3>2 DEF callAt, Proving
    <3>6. JobsAreCounted'
      BY <2>1, <3>5, JobsSame
    <3>7. OwnedIffPending'
      BY <1>1, <2>1, <3>2, OwnersSame DEF callAt, Idle, Asking
    <3> QED
      BY <3>3, <3>4, <3>6, <3>7
  <2>3. CASE ~(nbJobs >= maxJobs)
    <3>1. call' = [call EXCEPT ![p] = callAt("counted", call[p].key, nbJobs)]
      BY <1>3, <2>3 DEF loadCount
    <3>2. call[p].at = "new" /\ call'[p] = callAt("counted", call[p].key, nbJobs)
      BY <1>3, <3>1 DEF loadCount, TypeOK
    <3>3. TypeOK'
      BY <1>2, <2>1, <3>1 DEF TypeOK, callAt, Place, Asking
    <3>4. SeenIsBelow'
      BY <1>1, <2>3, <3>2, ProverAssumption DEF SeenIsBelow, callAt, TypeOK
    <3>5. \A q \in Calls : call'[q].at \in Proving <=> call[q].at \in Proving
      BY <1>1, <3>2 DEF callAt, Proving
    <3>6. JobsAreCounted'
      BY <2>1, <3>5, JobsSame
    <3>7. OwnedIffPending'
      BY <1>1, <2>1, <3>2, OwnersSame DEF callAt, Idle, Asking
    <3> QED
      BY <3>3, <3>4, <3>6, <3>7
  <2> QED
    BY <2>2, <2>3
<1>4. CASE turnAway(p)
  <2>1. /\ call[p].at = "busy" /\ call'[p] = NoCall
        /\ results' = [results EXCEPT ![call[p].key] = None]
        /\ call' = [call EXCEPT ![p] = NoCall] /\ UNCHANGED nbJobs
    BY <1>4 DEF turnAway, TypeOK
  <2>2. TypeOK'
    BY <1>2, <2>1 DEF TypeOK, NoCall, callAt, Place, Result
  <2>3. SeenIsBelow'
    BY <1>1, <2>1 DEF SeenIsBelow, NoCall, callAt, Idle
  <2>4. \A q \in Calls : call'[q].at \in Proving <=> call[q].at \in Proving
    BY <1>1, <2>1 DEF NoCall, callAt, Proving, Idle
  <2>5. JobsAreCounted'
    BY <2>1, <2>4, JobsSame
  <2>6. OwnedIffPending'
    BY <1>1, <2>1, OwnerLeaves DEF TypeOK, NoCall, callAt, Idle, Asking
  <2> QED
    BY <2>2, <2>3, <2>5, <2>6
<1>5. CASE startJob(p)
  <2>1. call[p].at = "counted" /\ UNCHANGED results
    BY <1>5 DEF startJob
  <2>2. CASE nbJobs = call[p].seen
    <3>1. /\ nbJobs' = nbJobs + 1
          /\ call' = [call EXCEPT ![p].at = "proving", ![p].seen = 0]
      BY <1>5, <2>2 DEF startJob
    <3>2. call'[p] = callAt("proving", call[p].key, 0)
      BY <1>2, <3>1 DEF TypeOK, callAt
    <3>3. TypeOK'
      <4>1. nbJobs' \in Nat
        BY <3>1 DEF TypeOK
      <4>2. call' \in [Calls -> [at : Place, key : Keys \cup {None}, seen : Nat]]
        BY <1>2, <3>1 DEF TypeOK, Place, Proving
      <4> QED
        BY <2>1, <4>1, <4>2 DEF TypeOK
    <3>4. SeenIsBelow'
      BY <1>1, <3>2 DEF SeenIsBelow, callAt
    <3>5. nbJobs < maxJobs
      BY <2>1, <2>2 DEF SeenIsBelow
    <3>6. call[p].at \notin Proving /\ call'[p].at \in Proving
      BY <2>1, <3>2 DEF callAt, Proving
    <3>7. JobsAreCounted'
      BY <1>1, <3>1, <3>5, <3>6, JobStarts
    <3>8. OwnedIffPending'
      BY <1>1, <2>1, <3>2, OwnersSame DEF callAt, Idle, Asking
    <3> QED
      BY <3>3, <3>4, <3>7, <3>8
  <2>3. CASE nbJobs # call[p].seen
    <3>1. UNCHANGED nbJobs /\ call' = [call EXCEPT ![p].at = "new", ![p].seen = 0]
      BY <1>5, <2>3 DEF startJob
    <3>2. call'[p] = callAt("new", call[p].key, 0)
      BY <1>2, <3>1 DEF TypeOK, callAt
    <3>3. TypeOK'
      BY <1>2, <2>1, <3>1 DEF TypeOK, Place, Asking
    <3>4. SeenIsBelow'
      BY <1>1, <3>2 DEF SeenIsBelow, callAt
    <3>5. \A q \in Calls : call'[q].at \in Proving <=> call[q].at \in Proving
      BY <1>1, <2>1, <3>2 DEF callAt, Proving
    <3>6. JobsAreCounted'
      BY <3>1, <3>5, JobsSame
    <3>7. OwnedIffPending'
      BY <1>1, <2>1, <3>2, OwnersSame DEF callAt, Idle, Asking
    <3> QED
      BY <3>3, <3>4, <3>6, <3>7
  <2> QED
    BY <2>2, <2>3
<1>6. CASE storeResult(p)
  <2>1. PICK result \in {"done", "failed"} : results' = [results EXCEPT ![call[p].key] = result]
    BY <1>6 DEF storeResult
  <2>2. /\ call[p].at = "proving" /\ UNCHANGED nbJobs
        /\ call' = [call EXCEPT ![p].at = "stored"]
    BY <1>6 DEF storeResult
  <2>3. call'[p].at = "stored" /\ call'[p].key = call[p].key
    BY <1>2, <2>2 DEF TypeOK
  <2>4. TypeOK'
    BY <1>2, <2>1, <2>2 DEF TypeOK, Place, Proving, Result
  <2>5. SeenIsBelow'
    BY <1>1, <2>3 DEF SeenIsBelow
  <2>6. \A q \in Calls : call'[q].at \in Proving <=> call[q].at \in Proving
    BY <1>1, <2>2, <2>3 DEF Proving
  <2>7. JobsAreCounted'
    BY <2>2, <2>6, JobsSame
  <2>8. OwnedIffPending'
    BY <1>1, <2>1, <2>2, <2>3, OwnerLeaves DEF TypeOK, Asking
  <2> QED
    BY <2>4, <2>5, <2>7, <2>8
<1>7. CASE loadValue(p)
  <2>1. /\ call[p].at = "stored" /\ UNCHANGED <<results, nbJobs>>
        /\ call' = [call EXCEPT ![p].at = "leaving", ![p].seen = nbJobs]
    BY <1>7 DEF loadValue
  <2>2. call'[p].at = "leaving" /\ call'[p].key = call[p].key
    BY <1>2, <2>1 DEF TypeOK
  <2>3. TypeOK'
    BY <1>2, <2>1 DEF TypeOK, Place, Proving
  <2>4. SeenIsBelow'
    BY <1>1, <2>2 DEF SeenIsBelow
  <2>5. \A q \in Calls : call'[q].at \in Proving <=> call[q].at \in Proving
    BY <1>1, <2>1, <2>2 DEF Proving
  <2>6. JobsAreCounted'
    BY <2>1, <2>5, JobsSame
  <2>7. OwnedIffPending'
    BY <1>1, <2>1, <2>2, OwnersSame DEF Idle, Asking
  <2> QED
    BY <2>3, <2>4, <2>6, <2>7
<1>8. CASE leave(p)
  <2>1. call[p].at = "leaving" /\ UNCHANGED results
    BY <1>8 DEF leave
  <2>2. CASE nbJobs = call[p].seen
    <3>1. nbJobs' = nbJobs - 1 /\ call' = [call EXCEPT ![p] = NoCall]
      BY <1>8, <2>2 DEF leave
    <3>2. call'[p] = NoCall
      BY <3>1 DEF TypeOK
    <3>3. call[p].at \in Proving /\ call'[p].at \notin Proving
      BY <2>1, <3>2 DEF Proving, NoCall, callAt, Idle
    <3>4. p \in jobs
      BY <3>3 DEF jobs
    <3>5. nbJobs # 0
      BY <3>4, JobsFinite, FS_EmptySet DEF JobsAreCounted
    <3>6. TypeOK'
      BY <1>2, <2>1, <3>1, <3>5 DEF TypeOK, NoCall, callAt, Place
    <3>7. SeenIsBelow'
      BY <1>1, <3>2 DEF SeenIsBelow, NoCall, callAt, Idle
    <3>8. JobsAreCounted'
      BY <1>1, <3>1, <3>3, JobEnds
    <3>9. \A q \in Calls, k \in Keys : Owns(q, k)' <=> Owns(q, k)
      BY <1>1, <2>1, <3>2 DEF Owns, NoCall, callAt, Idle, Asking
    <3>10. OwnedIffPending'
      BY <1>1, <2>1, <3>2, <3>9 DEF OwnedIffPending, NoCall, callAt
    <3> QED
      BY <3>6, <3>7, <3>8, <3>10
  <2>3. CASE nbJobs # call[p].seen
    <3>1. UNCHANGED nbJobs /\ call' = [call EXCEPT ![p].at = "stored", ![p].seen = 0]
      BY <1>8, <2>3 DEF leave
    <3>2. call'[p] = callAt("stored", call[p].key, 0)
      BY <1>2, <3>1 DEF TypeOK, callAt
    <3>3. TypeOK'
      BY <1>2, <2>1, <3>1 DEF TypeOK, Place, Proving
    <3>4. SeenIsBelow'
      BY <1>1, <3>2 DEF SeenIsBelow, callAt
    <3>5. \A q \in Calls : call'[q].at \in Proving <=> call[q].at \in Proving
      BY <1>1, <2>1, <3>2 DEF callAt, Proving
    <3>6. JobsAreCounted'
      BY <3>1, <3>5, JobsSame
    <3>7. OwnedIffPending'
      BY <1>1, <2>1, <3>2, OwnersSame DEF callAt, Idle, Asking
    <3> QED
      BY <3>3, <3>4, <3>6, <3>7
  <2> QED
    BY <2>2, <2>3
<1> QED
  BY <1>3, <1>4, <1>5, <1>6, <1>7, <1>8 DEF advance

(* Restarts of the relayer do not touch the prover, and a prover that      *)
(* restarts is as at the start.                                            *)
LEMMA NextInv ==
  ASSUME IInv, [Next]_vars
  PROVE  IInv'
<1>1. ASSUME NEW p \in Calls, advance(p) PROVE IInv'
  BY <1>1, AdvanceInv
<1>2. ASSUME NEW c \in Clients, poll(c) PROVE IInv'
  BY <1>2, PollInv
<1>3. ASSUME NEW c \in Clients, restartClient(c) PROVE IInv'
  BY <1>3 DEF restartClient, IInv, TypeOK, SeenIsBelow, JobsAreCounted, jobs,
              OwnedIffPending, Owns
<1>4. CASE restartServer
  <2>1. /\ results' = [k \in Keys |-> None] /\ nbJobs' = 0
        /\ call' = [p \in Calls |-> NoCall]
    BY <1>4 DEF restartServer
  <2>2. TypeOK'
    BY <2>1 DEF TypeOK, Result, Place, NoCall, callAt
  <2>3. SeenIsBelow'
    BY <2>1 DEF SeenIsBelow, NoCall, callAt, Idle
  <2>4. jobs' = {}
    BY <2>1 DEF jobs, NoCall, callAt, Idle, Proving
  <2>5. JobsAreCounted'
    BY <2>1, <2>4, FS_EmptySet, ProverAssumption DEF JobsAreCounted
  <2>6. OwnedIffPending'
    BY <2>1 DEF OwnedIffPending, Owns, NoCall, callAt, Idle, Asking, None
  <2> QED
    BY <2>2, <2>3, <2>5, <2>6 DEF IInv
<1>5. CASE UNCHANGED vars
  BY <1>5 DEF vars, IInv, TypeOK, SeenIsBelow, JobsAreCounted, jobs, OwnedIffPending, Owns
<1> QED
  BY <1>1, <1>2, <1>3, <1>4, <1>5 DEF Next

(* The inductive invariant holds in every state of the prover.             *)
THEOREM InvariantHolds == Spec => []IInv
BY InitInv, NextInv, PTL DEF Spec

(* The counter of Poll is the number of jobs in every state, and never     *)
(* exceeds the capacity, whatever swaps of the counter interleave.         *)
THEOREM JobsCounted == Spec => []JobsAreCounted
<1>1. IInv => JobsAreCounted
  BY DEF IInv
<1> QED
  BY <1>1, InvariantHolds, PTL

(* A pending entry of the map has exactly one goroutine that will settle   *)
(* it.                                                                     *)
THEOREM PendingOwned == Spec => []PendingHasOneOwner
<1>1. IInv => PendingHasOneOwner
  <2> SUFFICES ASSUME IInv, NEW k \in Keys
               PROVE  LET owners == {p \in Calls : Owns(p, k)}
                      IN Cardinality(owners) = IF results[k] = "pending" THEN 1 ELSE 0
    BY DEF PendingHasOneOwner, Owns
  <2> DEFINE owners == {p \in Calls : Owns(p, k)}
  <2>1. CASE results[k] = "pending"
    <3>1. PICK p \in Calls : Owns(p, k)
      BY <2>1 DEF IInv, OwnedIffPending
    <3>2. owners = {p}
      BY <3>1 DEF IInv, OwnedIffPending
    <3> QED
      BY <2>1, <3>2, FS_Singleton
  <2>2. CASE results[k] # "pending"
    <3>1. owners = {}
      BY <2>2 DEF IInv, OwnedIffPending
    <3> QED
      BY <2>2, <3>1, FS_EmptySet
  <2> QED
    BY <2>1, <2>2
<1> QED
  BY <1>1, InvariantHolds, PTL

(* A result, a proof or a failure, stays until the prover restarts: who    *)
(* deletes an entry owns it, and so finds it pending.                      *)
THEOREM ResultsFinal == Spec => ResultsAreFinal
<1>1. ASSUME IInv, [Next]_vars
      PROVE  [\A k \in Keys : results[k] \in {"done", "failed"} =>
                results'[k] = results[k] \/ restartServer]_vars
  <2> SUFFICES ASSUME NEW k \in Keys, results[k] \in {"done", "failed"}, Next, ~restartServer
               PROVE  results'[k] = results[k]
    BY <1>1
  <2> USE <1>1 DEF IInv
  <2>1. results[k] # "pending" /\ \A p \in Calls : ~Owns(p, k)
    BY DEF OwnedIffPending
  <2>2. ASSUME NEW p \in Calls, advance(p) PROVE results'[k] = results[k]
    <3>1. CASE call[p].at \in {"busy", "proving"}
      <4>1. call[p].key # k
        BY <2>1, <3>1 DEF Owns, Asking
      <4> QED
        BY <2>2, <4>1 DEF TypeOK, advance, loadCount, turnAway, startJob, storeResult,
                          loadValue, leave
    <3>2. CASE call[p].at \notin {"busy", "proving"}
      BY <2>2, <3>2 DEF advance, loadCount, turnAway, startJob, storeResult, loadValue, leave
    <3> QED
      BY <3>1, <3>2
  <2>3. ASSUME NEW c \in Clients, poll(c) PROVE results'[k] = results[k]
    BY <2>3, ProverAssumption DEF TypeOK, poll, loadOrStore, None
  <2>4. ASSUME NEW c \in Clients, restartClient(c) PROVE results'[k] = results[k]
    BY <2>4 DEF restartClient
  <2> QED
    BY <2>2, <2>3, <2>4 DEF Next
<1> QED
  BY <1>1, InvariantHolds, PTL DEF Spec, ResultsAreFinal

=============================================================================
