-------------------------- MODULE WorkerLoopProofs --------------------------
(***************************************************************************)
(* run_worker's loop for every number of workers, jobs and faults: its     *)
(* types, that claims are kept, and that nothing is claimed for a call     *)
(* that is over.                                                           *)
(***************************************************************************)
EXTENDS WorkerLoop, ClaimLoopProofs

\* Dispatching a job keeps the invariant of the loop.
LEMMA DispatchKeeps ==
  ASSUME LoopInv, NEW w \in Workers, Dispatch(w) \/ DispatchRaises(w)
  PROVE  LoopInv'
<1>a. phase[w] = "running" /\ hand[w] # NoRef /\ hand[w] \in JobId
  BY DEF Dispatch, Handled, Drained, Failure, Refused, DispatchRaises, InHand,
         LoopInv, LoopTypeOK
<1>b. /\ job \in [JobId -> JobRow] /\ hand \in [Workers -> JobId \cup {NoRef}]
      /\ phase \in [Workers -> Phase] /\ faults \in Nat
  BY DEF LoopInv, LoopTypeOK
<1>c. [hand EXCEPT ![w] = NoRef] # hand /\ [phase EXCEPT ![w] = "running"] = phase
  BY <1>a, <1>b
<1>1. CASE Handled(w)
  <2>1. Retired(job[hand[w]], "acked") \in JobRow /\ Retired(job[hand[w]], "acked").state = "acked"
    BY <1>a, <1>b, RetiredRow DEF GoneState
  <2>2. /\ job' \in [JobId -> JobRow] /\ job'[hand[w]].state # "claimed"
        /\ \A i \in JobId \ {hand[w]} : job'[i] = job[i]
    BY <1>1, <1>a, <1>b, <2>1 DEF Handled, Acked
  <2>3. QED
    BY <1>1, <1>a, <1>b, <1>c, <2>2, LoopSettles DEF Handled, DoneWith
<1>2. CASE Drained(w)
  BY <1>2, <1>a, <1>b, <1>c, LoopSettles DEF Drained, DoneWith
<1>3. CASE Failure(w)
  <2>1. /\ Retired(job[hand[w]], "dead") \in JobRow /\ Retired(job[hand[w]], "dead").state = "dead"
        /\ Released(job[hand[w]]) \in JobRow /\ Released(job[hand[w]]).state = "pending"
    BY <1>a, <1>b, RetiredRow, ReleasedRow DEF GoneState
  <2>2. /\ job' \in [JobId -> JobRow] /\ job'[hand[w]].state # "claimed"
        /\ \A i \in JobId \ {hand[w]} : job'[i] = job[i]
    BY <1>3, <1>a, <1>b, <2>1 DEF Failure, Failed, Retried
  <2>3. QED
    BY <1>3, <1>a, <1>b, <1>c, <2>2, LoopSettles DEF Failure, DoneWith
<1>4. CASE Refused(w)
  BY <1>4, <1>a, <1>b, LoopSettles DEF Refused
<1>5. CASE DispatchRaises(w)
  <2>1. faults' \in Nat
    BY <1>5, <1>b DEF DispatchRaises, Fault
  <2>2. /\ phase' = [phase EXCEPT ![w] = "reporting"]
        /\ UNCHANGED <<job, task, hand, buffer, stop>>
    BY <1>5 DEF DispatchRaises
  <2>3. QED
    BY <1>a, <1>b, <2>1, <2>2, LoopSettles
<1>6. QED
  BY <1>1, <1>2, <1>3, <1>4, <1>5 DEF Dispatch

\* Every step of worker and loop keeps it.
LEMMA LoopStep ==
  ASSUME LoopInv, [Next]_vars
  PROVE  LoopInv'
<1>1. ASSUME NEW w \in Workers, CallStep(w)
      PROVE  LoopInv'
  BY <1>1, LoopCall
<1>2. ASSUME NEW w \in Workers, TaskStep(w)
      PROVE  LoopInv'
  BY <1>2, LoopTask
<1>3. ASSUME NEW w \in Workers, Dispatch(w) \/ DispatchRaises(w)
      PROVE  LoopInv'
  BY <1>3, DispatchKeeps
<1>4. ASSUME NEW w \in Workers, Crash(w)
      PROVE  LoopInv'
  BY <1>4, LoopCrash
<1>5. CASE Disturb
  BY <1>5, LoopDisturbed
<1>6. CASE Arrive
  <2>1. PICK j \in JobId : job' = Enqueued(job, j, NoRef, NoRef)
    BY <1>6 DEF Arrive
  <2>2. QED
    BY <1>6, <2>1, LoopEnqueues DEF Arrive
<1>7. CASE UNCHANGED vars
  BY <1>7, LoopUnchanged DEF vars
<1>8. QED
  BY <1>1, <1>2, <1>3, <1>4, <1>5, <1>6, <1>7 DEF Next

\* It holds throughout.
LEMMA LoopInvariant == Spec => []LoopInv
<1>1. Init => LoopInv
  BY LoopStart DEF Init
<1>2. LoopInv /\ [Next]_vars => LoopInv'
  BY LoopStep
<1>3. QED
  BY <1>1, <1>2, PTL DEF Spec

-----------------------------------------------------------------------------
\* run_worker: types, and a claim task exactly while the call waits for one.
THEOREM LoopTypes == Spec => []LoopTypeOK
<1>1. LoopInv => LoopTypeOK
  BY DEF LoopInv
<1>2. QED
  BY <1>1, LoopInvariant, PTL

\* A claim under a running lease is kept by the loop it was made for until that loop has
\* dealt with it; a stop loses none.
THEOREM ClaimsAreKept == Spec => []ClaimsKept
<1>1. LoopInv => ClaimsKept
  BY DEF LoopInv
<1>2. QED
  BY <1>1, LoopInvariant, PTL

-----------------------------------------------------------------------------
(* Who gets a claim.  Only ClaimSome makes a claim, or renews a lease.     *)

ClaimsGoToCallers ==
  \A j \in JobId : job[j] # job'[j] /\ job'[j].state = "claimed" /\ ~job'[j].expired =>
    phase[job'[j].worker] \notin {"returned", "failed", "dead"}

\* A job that is under a fresh lease went to a call that can work on it.
LEMMA OnlyClaimSomeClaims ==
  ASSUME LoopInv, Next
  PROVE  ClaimsGoToCallers
<1>a. job \in [JobId -> JobRow] /\ hand \in [Workers -> JobId \cup {NoRef}]
  BY DEF LoopInv, LoopTypeOK
<1>b. UNCHANGED job => ClaimsGoToCallers
  BY DEF ClaimsGoToCallers
<1>1. ASSUME NEW w \in Workers, CallStep(w) \/ Crash(w)
      PROVE  ClaimsGoToCallers
  <2>1. UNCHANGED job
    BY <1>1 DEF CallStep, Crash, Return, TakeBuffered, StartWaiting, TakeClaim, ClaimFailed,
                HonourStop, ClaimCancelled, Report
  <2>2. QED
    BY <1>b, <2>1
<1>2. ASSUME NEW w \in Workers, TaskStep(w)
      PROVE  ClaimsGoToCallers
  <2>1. CASE ClaimSome(w)
    <3>1. PICK S \in SUBSET {j \in JobId : Claimable(j)} :
            job' = [j \in JobId |-> IF j \in S THEN Claimed(job[j], w) ELSE job[j]]
      BY <2>1 DEF ClaimSome
    <3>2. \A j \in S : job'[j].worker = w
      BY <1>a, <3>1, ClaimedRow
    <3>3. phase[w] \notin {"returned", "failed", "dead"}
      BY <2>1 DEF ClaimSome, LoopInv, LoopTypeOK
    <3>4. \A j \in JobId \ S : job'[j] = job[j]
      BY <3>1
    <3>5. QED
      BY <3>2, <3>3, <3>4 DEF ClaimsGoToCallers
  <2>2. CASE ClaimNone(w) \/ Wake(w)
    BY <2>2, <1>b DEF ClaimNone, Wake
  <2>3. QED
    BY <1>2, <2>1, <2>2 DEF TaskStep
<1>3. ASSUME NEW w \in Workers, Dispatch(w) \/ DispatchRaises(w)
      PROVE  ClaimsGoToCallers
  <2>1. CASE UNCHANGED job
    BY <1>b, <2>1
  <2>2. CASE Handled(w) \/ Failure(w)
    <3>1. hand[w] \in JobId
      BY <1>a, <2>2 DEF Handled, Failure, InHand
    <3>2. /\ Retired(job[hand[w]], "acked").state = "acked"
          /\ Retired(job[hand[w]], "dead").state = "dead"
          /\ Released(job[hand[w]]).state = "pending"
      BY <1>a, <3>1, RetiredRow, ReleasedRow DEF GoneState
    <3>3. /\ job'[hand[w]].state # "claimed"
          /\ \A i \in JobId \ {hand[w]} : job'[i] = job[i]
      BY <1>a, <2>2, <3>1, <3>2 DEF Handled, Failure, Acked, Failed, Retried
    <3>4. QED
      BY <3>3 DEF ClaimsGoToCallers
  <2>3. QED
    BY <1>3, <2>1, <2>2 DEF Dispatch, Drained, Refused, DispatchRaises
<1>4. CASE Disturb
  <2>1. CASE UNCHANGED job
    BY <1>b, <2>1
  <2>2. ASSUME NEW j \in JobId, LeaseExpires(j)
        PROVE  ClaimsGoToCallers
    <3>1. job'[j].expired /\ \A i \in JobId \ {j} : job'[i] = job[i]
      BY <1>a, <2>2 DEF LeaseExpires, JobRow
    <3>2. QED
      BY <3>1 DEF ClaimsGoToCallers
  <2>3. QED
    BY <1>4, <2>1, <2>2 DEF Disturb, SetStop, ClaimRaises, Cancel
<1>5. CASE Arrive
  <2>1. PICK j \in JobId : job' = Enqueued(job, j, NoRef, NoRef)
    BY <1>5 DEF Arrive
  <2>2. job'[j].state = "pending" /\ \A i \in JobId \ {j} : job'[i] = job[i]
    BY <1>a, <2>1, EnqueuedRow
  <2>3. QED
    BY <2>2 DEF ClaimsGoToCallers
<1>6. QED
  BY <1>1, <1>2, <1>3, <1>4, <1>5 DEF Next

\* Nothing is claimed for a call that has returned, failed or died.
THEOREM NothingClaimedLate == Spec => NoClaimAfterEnd
<1>1. LoopInv /\ [Next]_vars => [ClaimsGoToCallers]_vars
  BY OnlyClaimSomeClaims
<1>2. QED
  BY <1>1, LoopInvariant, PTL DEF Spec, NoClaimAfterEnd, ClaimsGoToCallers
=============================================================================
