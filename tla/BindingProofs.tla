--------------------------- MODULE BindingProofs ---------------------------
(***************************************************************************)
(* The workers of the other bindings and the inbox they serve, for every   *)
(* value of the constants.                                                 *)
(*                                                                         *)
(* Every step of theirs is one of two kinds.  Either no event, delivery,   *)
(* attempt or audit row changes, and no job enters or leaves the queue     *)
(* (OnlyQueue); or a run ends and its outcome is written, with the ack,    *)
(* the retry or the failure only if the claim still stands (Records).  The *)
(* proofs look at steps through this.                                      *)
(*                                                                         *)
(* Four invariants, of four specifications.  Types and links hold          *)
(* whatever happens, calls torn by crashes included.  While every replay   *)
(* is one transaction, a received event is in the queue.  With calls       *)
(* statement by statement it still is, if no call dies or meets another    *)
(* enqueue.  And queue and inbox agree while claims stand until they are   *)
(* used.                                                                   *)
(***************************************************************************)
EXTENDS BindingReplay, InboxLemmas

\* Inside the handler's transaction a worker is alone, and its event is there.
OneHandling ==
  \A w \in Workers : pc[w] = "handling" =>
    /\ Exists(EventOf(cur[w]))
    /\ \A v \in Workers \ {w} : pc[v] # "handling"

AnyInv == BindingTypeOK /\ OneHandling /\ LinkInv

-----------------------------------------------------------------------------
(* The two kinds of steps.                                                 *)

\* A claim, a lease that runs out, or no step of the inbox at all.
OnlyQueue ==
  /\ UNCHANGED <<endpoint, event, delivery, attempts, audit>>
  /\ KeepsJobs /\ PayloadsStay /\ NoJobPruned /\ JobsAge
  /\ QueueTypeOK'

\* Worker w writes how its run ended.
RecordsHandled(w) ==
  LET c == cur[w] IN
  /\ w \in ChecksAck => HoldsLease(w, c.job)
  /\ event' = [event EXCEPT ![EventOf(c)] = MarkHandled(MarkProcessing(@, c.attempts))]
  /\ attempts' = WithAttempt(EventOf(c), "handled")
  /\ job' = IF HoldsLease(w, c.job) THEN Acked(job, c.job) ELSE job

RecordsFailed(w, t) ==
  LET c == cur[w] IN
  /\ event' = [event EXCEPT ![EventOf(c)] = MarkFailed(@, c.attempts, t)]
  /\ attempts' = WithAttempt(EventOf(c), FailedOutcome(t))
  /\ job' = IF ~HoldsLease(w, c.job) THEN job
            ELSE IF t THEN Failed(job, c.job) ELSE Retried(job, c.job)

Records(w) ==
  /\ cur[w] \in Claim /\ Exists(EventOf(cur[w]))
  /\ RecordsHandled(w) \/ \E t \in BOOLEAN : RecordsFailed(w, t)
  /\ UNCHANGED <<endpoint, delivery, audit>>

\* A worker that is not idle has a claim.
LEMMA BusyHasClaim ==
  ASSUME BindingTypeOK, NEW w \in Workers, pc[w] # "idle"
  PROVE  cur[w] \in Claim
BY DEF BindingTypeOK

\* A step that leaves the tables alone.
LEMMA QueueIfUnchanged ==
  ASSUME QueueTypeOK, UNCHANGED inboxVars
  PROVE  OnlyQueue
BY AgeIfSame
   DEF inboxVars, OnlyQueue, KeepsJobs, SameEvents, PayloadsStay, NoJobPruned, Live, QueueTypeOK

\* honker_claim_batch for one job.
LEMMA QueueIfClaimed ==
  ASSUME QueueTypeOK, NEW w \in Workers, NEW j \in JobId, Claimable(j),
         job' = [job EXCEPT ![j] = Claimed(@, w)],
         UNCHANGED <<endpoint, event, delivery, attempts, audit>>
  PROVE  OnlyQueue
<1>1. job' = [i \in JobId |-> IF i \in {j} THEN Claimed(job[i], w) ELSE job[i]]
  BY DEF QueueTypeOK
<1>2. KeepsJobs /\ PayloadsStay /\ NoJobPruned /\ JobsAge
  BY <1>1, ClaimEffect, PayloadsIfClaimed, AgeIfClaimed
<1>3. \A row \in JobRow : Claimed(row, w) \in JobRow
  BY JobRowTypes DEF GoneState
<1>4. QueueTypeOK'
  BY <1>3 DEF QueueTypeOK
<1>5. QED
  BY <1>2, <1>4 DEF OnlyQueue

\* A lease that runs out, abandoned or not.
LEMMA QueueIfExpired ==
  ASSUME QueueTypeOK, NEW j \in JobId, Expire(j)
  PROVE  OnlyQueue
<1>1. KeepsJobs /\ JobsAge
  BY AgeIfExpired DEF Expire
<1>2. PayloadsStay /\ NoJobPruned /\ QueueTypeOK'
  BY DEF Expire, PayloadsStay, NoJobPruned, QueueTypeOK, JobRow, Live
<1>3. QED
  BY <1>1, <1>2 DEF Expire, OnlyQueue

\* The three ways a run ends with an outcome.
LEMMA EndsRecords ==
  ASSUME BindingTypeOK, OneHandling, NEW w \in Workers,
         DeadLetter(w) \/ Commit(w) \/ RecordFailure(w)
  PROVE  Records(w)
<1>a. pc[w] # "idle" => cur[w] \in Claim
  BY BusyHasClaim
<1>1. CASE DeadLetter(w)
  <2>1. RecordsFailed(w, TRUE)
    BY <1>1 DEF DeadLetter, RecordsFailed, FailedOutcome
  <2>2. QED
    BY <1>1, <1>a, <2>1 DEF DeadLetter, Records, Readable
<1>2. CASE Commit(w)
  BY <1>2, <1>a DEF Commit, Records, RecordsHandled, OneHandling
<1>3. CASE RecordFailure(w)
  <2>1. RecordsFailed(w, Terminal(cur[w])) /\ Terminal(cur[w]) \in BOOLEAN
    BY <1>3 DEF RecordFailure, RecordsFailed, Terminal
  <2>2. QED
    BY <1>3, <1>a, <2>1 DEF RecordFailure, Records
<1>4. QED
  BY <1>1, <1>2, <1>3

\* Every step of a worker is of one of the two kinds.
LEMMA StepKinds ==
  ASSUME AnyInv, NEW w \in Workers, Step(w) \/ Crash(w)
  PROVE  OnlyQueue \/ Records(w)
<1>a. BindingTypeOK /\ QueueTypeOK /\ OneHandling
  BY DEF AnyInv, BindingTypeOK
<1>b. pc[w] # "idle" => cur[w] \in Claim
  BY <1>a, BusyHasClaim
<1>1. CASE ClaimOne(w)
  BY <1>1, <1>a, QueueIfClaimed DEF ClaimOne
<1>2. CASE Unreadable(w) \/ BeginHandling(w) \/ RollBack(w) \/ RecordRefused(w) \/ Crash(w)
  BY <1>2, <1>a, QueueIfUnchanged DEF Unreadable, BeginHandling, RollBack, RecordRefused, Crash
<1>3. CASE DeadLetter(w) \/ Commit(w) \/ RecordFailure(w)
  BY <1>3, <1>a, EndsRecords
<1>4. QED
  BY <1>1, <1>2, <1>3 DEF Step

\* What a recorded outcome does to the tables.
LEMMA RecordsEffect ==
  ASSUME AnyInv, NEW w \in Workers, Records(w), NEW j, j = cur[w].job, NEW e, e = job[j].event
  PROVE  /\ TablesOK' /\ JobsAge /\ PayloadsStay /\ NoJobPruned
         /\ j \in JobId /\ e \in EventId /\ OnlyChanges(e)
         /\ event'[e].status \in {"handled", "failed", "dead"}
         /\ \/ KeepsJobs
            \/ SettlesJob(j) /\ event'[e].status \in {"handled", "dead"}
<1>a. TablesOK /\ QueueTypeOK /\ event \in [EventId -> EventRow]
  BY DEF AnyInv, LinkInv, TablesOK, InboxTypeOK
<1>b. /\ j \in JobId /\ cur[w].attempts \in Nat
      /\ e \in EventId /\ event[e] \in EventRow /\ e = EventOf(cur[w])
  BY <1>a DEF Records, Claim, EventOf, Exists
<1>c. HoldsLease(w, j) => Live(j)
  BY HeldIsLive
<1>d. UNCHANGED job => JobsAge /\ PayloadsStay /\ NoJobPruned /\ KeepsJobs
  BY <1>a, AgeIfSame DEF PayloadsStay, NoJobPruned, KeepsJobs, SameEvents, Live
<1>1. CASE RecordsHandled(w)
  <2> DEFINE row == MarkHandled(MarkProcessing(event[e], cur[w].attempts))
  <2>1. /\ event' = [event EXCEPT ![e] = row]
        /\ attempts' = WithAttempt(e, "handled")
        /\ job' = IF HoldsLease(w, j) THEN Acked(job, j) ELSE job
    BY <1>1, <1>b DEF RecordsHandled
  <2>2. row.status = "handled"
    BY <1>b, OutcomeStatus
  <2>3. TablesOK'
    BY <1>a, <1>b, <2>1, OutcomeTypes DEF Records, TablesOK, QueueTypeOK, InboxTypeOK, Outcome
  <2> HIDE DEF row
  <2>4. event'[e].status = "handled" /\ OnlyChanges(e)
    BY <1>a, <1>b, <2>1, <2>2 DEF OnlyChanges
  <2>5. CASE HoldsLease(w, j)
    <3>1. job' = Acked(job, j)
      BY <2>1, <2>5
    <3>2. JobsAge /\ PayloadsStay /\ NoJobPruned /\ SettlesJob(j)
      BY <1>a, <1>b, <1>c, <2>5, <3>1, AgeIfSettled, PayloadsIfSettled, SettleEffect
    <3>3. QED
      BY <1>b, <2>3, <2>4, <3>2
  <2>6. CASE ~HoldsLease(w, j)
    BY <1>b, <1>d, <2>1, <2>3, <2>4, <2>6
  <2>7. QED
    BY <2>5, <2>6
<1>2. ASSUME NEW t \in BOOLEAN, RecordsFailed(w, t)
      PROVE  /\ TablesOK' /\ JobsAge /\ PayloadsStay /\ NoJobPruned
             /\ OnlyChanges(e)
             /\ event'[e].status \in {"handled", "failed", "dead"}
             /\ \/ KeepsJobs
                \/ SettlesJob(j) /\ event'[e].status \in {"handled", "dead"}
  <2> DEFINE row == MarkFailed(event[e], cur[w].attempts, t)
  <2>1. /\ event' = [event EXCEPT ![e] = row]
        /\ attempts' = WithAttempt(e, FailedOutcome(t))
        /\ job' = IF ~HoldsLease(w, j) THEN job
                  ELSE IF t THEN Failed(job, j) ELSE Retried(job, j)
    BY <1>2, <1>b DEF RecordsFailed
  <2>2. row.status = FailedOutcome(t)
    BY <1>b, OutcomeStatus
  <2>3. TablesOK'
    <3>1. FailedOutcome(t) \in Outcome
      BY DEF FailedOutcome, Outcome
    <3>2. attempts' \in [EventId -> [Outcome -> Nat]] /\ event' \in [EventId -> EventRow]
      BY <1>a, <1>b, <2>1, <3>1, OutcomeTypes
    <3>3. QueueTypeOK'
      BY <1>a, <1>b, <2>1, OutcomeTypes DEF QueueTypeOK
    <3>4. QED
      BY <1>a, <3>2, <3>3 DEF Records, TablesOK, InboxTypeOK
  <2> HIDE DEF row
  <2>4. event'[e].status = FailedOutcome(t) /\ OnlyChanges(e)
    BY <1>a, <1>b, <2>1, <2>2 DEF OnlyChanges
  <2>5. CASE HoldsLease(w, j)
    <3>1. job' = IF t THEN Failed(job, j) ELSE Retried(job, j)
      BY <2>1, <2>5
    <3>2. JobsAge /\ PayloadsStay /\ NoJobPruned
      BY <1>a, <1>b, <1>c, <2>5, <3>1, AgeIfSettled, PayloadsIfSettled
    <3>3. IF t THEN SettlesJob(j) ELSE KeepsJobs
      BY <1>a, <1>b, <1>c, <2>5, <3>1, SettleEffect, RetryEffect
    <3>4. QED
      BY <2>3, <2>4, <3>2, <3>3 DEF FailedOutcome
  <2>6. CASE ~HoldsLease(w, j)
    BY <1>d, <2>1, <2>3, <2>4, <2>6 DEF FailedOutcome
  <2>7. QED
    BY <2>5, <2>6
<1>3. QED
  BY <1>b, <1>1, <1>2 DEF Records

-----------------------------------------------------------------------------
(* Types and links, whatever happens.                                      *)

\* The part of BindingTypeOK that is about the workers.
HandsOK ==
  /\ pc \in [Workers -> WorkerPc]
  /\ cur \in [Workers -> Claim \cup {NoClaim}]
  /\ faults \in Nat
  /\ \A w \in Workers : cur[w] = NoClaim <=> pc[w] = "idle"

\* A worker that is done has given its claim back; one that begins has one.
LEMMA HandsStep ==
  ASSUME BindingTypeOK, NEW w \in Workers, Step(w) \/ Crash(w)
  PROVE  HandsOK'
<1>a. HandsOK /\ QueueTypeOK
  BY DEF BindingTypeOK, HandsOK
<1>b. faults' \in Nat
  <2>1. CASE Crash(w)
    BY <1>a, <2>1 DEF HandsOK, Crash
  <2>2. CASE Step(w)
    <3>1. UNCHANGED faults
      BY <2>2 DEF Step, ClaimOne, Unreadable, DeadLetter, BeginHandling, Commit, RollBack,
                  RecordFailure, RecordRefused
    <3>2. QED
      BY <1>a, <3>1 DEF HandsOK
  <2>3. QED
    BY <2>1, <2>2
<1>1. CASE ClaimOne(w)
  <2>1. PICK j \in JobId :
          cur' = [cur EXCEPT ![w] = [job |-> j, attempts |-> job[j].attempts + 1]]
    BY <1>1 DEF ClaimOne
  <2>2. [job |-> j, attempts |-> job[j].attempts + 1] \in Claim
    BY <1>a DEF Claim, QueueTypeOK, JobRow
  <2>3. NoClaim \notin Claim
    BY DEF Claim, NoClaim, NoRef, JobId
  <2>4. pc' = [pc EXCEPT ![w] = "claimed"]
    BY <1>1 DEF ClaimOne
  <2>5. QED
    BY <1>a, <1>b, <2>1, <2>2, <2>3, <2>4 DEF HandsOK, WorkerPc
<1>2. CASE Ends(w)
  BY <1>2, <1>a, <1>b DEF Ends, HandsOK, WorkerPc
<1>3. CASE BeginHandling(w) \/ RollBack(w)
  BY <1>3, <1>a, <1>b DEF BeginHandling, RollBack, HandsOK, WorkerPc
<1>4. QED
  BY <1>1, <1>2, <1>3
     DEF Step, Crash, Unreadable, DeadLetter, Commit, RecordFailure, RecordRefused

\* What happens in the queue alone touches no link.
LEMMA LinksIfOnlyQueue ==
  ASSUME LinkInv, OnlyQueue
  PROVE  LinkInv'
<1>1. Kept
  BY StayingFit, KeptIfRowsStay DEF OnlyQueue, RowsStay, IdentitiesStay, AttemptsOfPrunedStay
<1>2. TablesOK'
  BY DEF LinkInv, TablesOK, OnlyQueue, InboxTypeOK
<1>3. LiveNamed'
  BY NamesIfGrown DEF LinkInv, OnlyQueue, PayloadsStay
<1>4. QED
  BY <1>1, <1>2, <1>3 DEF LinkInv, Kept

\* An outcome leaves events what they are and deliveries where they are.
LEMMA LinksIfRecords ==
  ASSUME AnyInv, NEW w \in Workers, Records(w)
  PROVE  LinkInv'
<1> DEFINE c == cur[w]
           e == EventOf(c)
<1>1. /\ TablesOK' /\ PayloadsStay /\ NoJobPruned /\ OnlyChanges(e)
      /\ event'[e].status \in {"handled", "failed", "dead"}
  BY RecordsEffect DEF EventOf
<1>2. Exists(e) /\ e \in EventId /\ c.attempts \in Nat
  BY DEF Records, Exists, Claim
<1>3. PICK t \in BOOLEAN :
        \/ event' = [event EXCEPT ![e] = MarkHandled(MarkProcessing(@, c.attempts))]
        \/ event' = [event EXCEPT ![e] = MarkFailed(@, c.attempts, t)]
  BY DEF Records, RecordsHandled, RecordsFailed
<1>a. PICK o \in Outcome : attempts' = WithAttempt(e, o)
  BY DEF Records, RecordsHandled, RecordsFailed, FailedOutcome, Outcome
<1>4. UNCHANGED <<delivery, audit>> /\ LinkInv
  BY DEF Records, AnyInv
<1> HIDE DEF c, e
<1>5. Kept
  BY <1>1, <1>2, <1>3, <1>a, <1>4, StayingFit, KeptIfOutcome
<1>6. LiveNamed'
  BY <1>1, <1>4, NamesIfGrown DEF LinkInv, OnlyChanges, PayloadsStay
<1>7. QED
  BY <1>1, <1>5, <1>6 DEF LinkInv, Kept

\* An operator's call keeps the links.
LEMMA OperatorLinks ==
  ASSUME LinkInv, InboxNext
  PROVE  LinkInv'
BY OperatorTypes, OperatorNames, OperatorKeeps DEF LinkInv, Kept

\* The transaction of a handler ends before another begins; nobody else writes meanwhile.
LEMMA HandlingStep ==
  ASSUME BindingTypeOK, OneHandling, NEW w \in Workers, Step(w) \/ Crash(w)
  PROVE  OneHandling'
<1>a. pc \in [Workers -> WorkerPc] /\ cur \in [Workers -> Claim \cup {NoClaim}]
  BY DEF BindingTypeOK
<1>1. CASE BeginHandling(w)
  BY <1>1, <1>a DEF BeginHandling, Readable, WriterFree, OneHandling, inboxVars, EventOf, Exists
<1>2. CASE ClaimOne(w) \/ DeadLetter(w) \/ RecordFailure(w) \/ RecordRefused(w)
  <2>1. \A v \in Workers : pc'[v] # "handling"
    BY <1>2, <1>a DEF ClaimOne, DeadLetter, RecordFailure, RecordRefused, Ends, WriterFree
  <2>2. QED
    BY <2>1 DEF OneHandling
<1>3. CASE Commit(w)
  <2>1. \A v \in Workers : pc'[v] # "handling"
    BY <1>3, <1>a DEF Commit, Ends, OneHandling
  <2>2. QED
    BY <2>1 DEF OneHandling
<1>4. CASE Unreadable(w) \/ RollBack(w) \/ Crash(w)
  <2>1. /\ \A v \in Workers : pc'[v] = "handling" => pc[v] = "handling" /\ cur'[v] = cur[v]
        /\ UNCHANGED inboxVars
    BY <1>4, <1>a DEF Unreadable, RollBack, Crash, Ends
  <2>2. QED
    BY <2>1 DEF OneHandling, inboxVars, EventOf, Exists
<1>5. QED
  BY <1>1, <1>2, <1>3, <1>4 DEF Step

\* Nobody is inside a transaction when the writer is free.
LEMMA HandlingIfFree ==
  ASSUME WriterFree, UNCHANGED pc
  PROVE  OneHandling'
BY DEF WriterFree, OneHandling

\* A worker's step, one of the environment, an operator's.
LEMMA AnyStep ==
  ASSUME AnyInv, NEW w \in Workers, Step(w) \/ Crash(w)
  PROVE  AnyInv'
<1>1. LinkInv'
  BY StepKinds, LinksIfOnlyQueue, LinksIfRecords DEF AnyInv
<1>2. HandsOK' /\ OneHandling'
  BY HandsStep, HandlingStep DEF AnyInv
<1>3. QED
  BY <1>1, <1>2 DEF AnyInv, BindingTypeOK, HandsOK, LinkInv, TablesOK

\* A lease runs out, behind or under its worker.
LEMMA AnyIfExpired ==
  ASSUME AnyInv, NEW j \in JobId, LeaseExpires(j) \/ LeaseLapses(j)
  PROVE  AnyInv' /\ OnlyQueue
<1>1. OnlyQueue
  BY QueueIfExpired DEF AnyInv, BindingTypeOK, LeaseExpires, LeaseLapses
<1>2. LinkInv'
  BY <1>1, LinksIfOnlyQueue DEF AnyInv
<1>3. HandsOK'
  BY DEF AnyInv, BindingTypeOK, HandsOK, LeaseExpires, LeaseLapses, Expire
<1>4. OneHandling'
  <2>1. UNCHANGED <<event, pc, cur>>
    BY DEF LeaseExpires, LeaseLapses, Expire
  <2>2. \A i \in JobId : job'[i].event = job[i].event
    BY <1>1 DEF OnlyQueue, PayloadsStay
  <2>3. \A w \in Workers : pc[w] = "handling" => cur[w].job \in JobId
    BY DEF AnyInv, BindingTypeOK, Claim
  <2>4. QED
    BY <2>1, <2>2, <2>3 DEF AnyInv, OneHandling, Exists, EventOf
<1>5. QED
  BY <1>1, <1>2, <1>3, <1>4 DEF AnyInv, BindingTypeOK, HandsOK, LinkInv, TablesOK

\* A writer that is no worker.
LEMMA AnyIfHandsStay ==
  ASSUME AnyInv, LinkInv', WriterFree, UNCHANGED <<pc, cur>>, faults' \in Nat
  PROVE  AnyInv'
BY HandlingIfFree DEF AnyInv, BindingTypeOK, LinkInv, TablesOK

\* Nothing is written.
LEMMA AnyIfUnchanged ==
  ASSUME AnyInv, UNCHANGED <<inboxVars, pc, cur>>, faults' \in Nat
  PROVE  AnyInv'
<1>1. LinkInv'
  BY QueueIfUnchanged, LinksIfOnlyQueue DEF AnyInv, BindingTypeOK
<1>2. OneHandling'
  BY DEF AnyInv, OneHandling, EventOf, Exists, inboxVars
<1>3. QED
  BY <1>1, <1>2 DEF AnyInv, BindingTypeOK, LinkInv, TablesOK

\* An operator is that writer.
LEMMA AnyIfOperator ==
  ASSUME AnyInv, Operator
  PROVE  AnyInv'
<1>1. LinkInv'
  BY OperatorLinks DEF AnyInv, Operator
<1>2. QED
  BY <1>1, AnyIfHandsStay DEF Operator, workerVars, AnyInv, BindingTypeOK

\* Every step with replays in one transaction keeps types and links.
LEMMA AnyNext ==
  ASSUME AnyInv, [Next]_vars
  PROVE  AnyInv'
<1>1. CASE UNCHANGED vars
  BY <1>1, AnyIfUnchanged DEF vars, inboxVars, AnyInv, BindingTypeOK
<1>2. QED
  BY <1>1, AnyStep, AnyIfExpired, AnyIfOperator DEF Next

\* They hold of the empty inbox.
LEMMA AnyInit == Init => AnyInv
<1>1. SUFFICES ASSUME Init PROVE AnyInv
  OBVIOUS
<1>2. HandsOK /\ OneHandling
  BY <1>1 DEF Init, WorkerInit, HandsOK, OneHandling, WorkerPc
<1>3. LinkInv
  BY <1>1, TablesInit, LinksInit DEF Init, LinkInv
<1>4. QED
  BY <1>2, <1>3 DEF AnyInv, BindingTypeOK, HandsOK, LinkInv, TablesOK

-----------------------------------------------------------------------------
(* Calls statement by statement.                                           *)

CallsOK ==
  /\ call \in [Callers -> {NoCall} \cup [at : CallAt, event : EventId]]
  /\ \A o \in Callers : call[o] # NoCall => event[call[o].event].status # "absent"

ReplayInv == AnyInv /\ CallsOK

\* How an operator's call moves the status of an event: nothing becomes an event that was
\* never inserted, a pruned one stays so, and only a fresh job makes one received.
LEMMA OperatorMoves ==
  ASSUME TablesOK, InboxNext, NEW e \in EventId
  PROVE  /\ event'[e].status = "absent" => event[e].status = "absent"
         /\ event[e].status = "pruned" => event'[e].status = "pruned"
         /\ event'[e].status = "received" => event[e].status = "received" \/ FreshJobFor(e)
<1> DEFINE Moves == /\ event'[e].status = "absent" => event[e].status = "absent"
                    /\ event[e].status = "pruned" => event'[e].status = "pruned"
                    /\ event'[e].status = "received" =>
                         event[e].status = "received" \/ FreshJobFor(e)
<1>a. QueueTypeOK /\ event \in [EventId -> EventRow]
  BY DEF TablesOK, InboxTypeOK
<1>b. ASSUME NEW f \in EventId, NEW d \in Nat, Reactivate(f, d), event[f].status # "pruned"
      PROVE  Moves
  <2>1. RenewsJob(f)
    BY <1>a, <1>b, RenewEffect DEF Reactivate
  <2>2. FreshJobFor(f)
    BY <2>1 DEF RenewsJob, FreshJobFor
  <2>3. /\ event' = [event EXCEPT ![f] = ResetEvent(event[f])]
        /\ ResetEvent(event[f]).status = "received"
    BY <1>a, <1>b DEF Reactivate, ResetEvent, EventRow
  <2>4. QED
    BY <1>a, <1>b, <2>2, <2>3
<1>1. CASE UNCHANGED event
  BY <1>1
<1>2. ASSUME NEW n, NEW k, NEW t, IngestNew(n, k, t)
      PROVE  Moves
  <2>1. PICK f \in EventId, j \in JobId :
          /\ NextEventId(f) /\ NextJobId(j)
          /\ event' = [event EXCEPT ![f] = [Empty("received") EXCEPT !.endpoint = n,
                                                                     !.key = k, !.kind = t]]
          /\ job' = Enqueued(job, j, f, NoRef)
    BY <1>2 DEF IngestNew
  <2>2. FreshJobFor(f)
    BY <1>a, <2>1 DEF NextJobId, Enqueued, UnusedJob, QueueTypeOK, FreshJobFor, Live, LiveState
  <2>3. event'[f].status = "received" /\ \A g \in EventId \ {f} : event'[g] = event[g]
    BY <1>a, <2>1 DEF Empty
  <2>4. QED
    BY <2>1, <2>2, <2>3 DEF NextEventId
<1>3. ASSUME NEW f \in EventId, Ignore(f)
      PROVE  Moves
  BY <1>3, <1>a DEF Ignore, MarkIgnored, EventRow
<1>4. ASSUME NEW f \in EventId, Replay(f) \/ Requeue(f)
      PROVE  Moves
  BY <1>4, <1>b DEF Replay, Requeue, NoRef
<1>5. ASSUME NEW d \in DeliveryId, ReplayDelivery(d)
      PROVE  Moves
  BY <1>5, <1>b DEF ReplayDelivery, Exists, DeliveryId
<1>6. ASSUME NEW S \in PruneStatuses, NEW c, NEW n, PruneEvents(S, c, n)
      PROVE  Moves
  <2>1. PICK E : event' = [f \in EventId |-> IF f \in E THEN Empty("pruned") ELSE event[f]]
    BY <1>6 DEF PruneEvents
  <2>2. Empty("pruned").status = "pruned"
    BY DEF Empty
  <2>3. QED
    BY <2>1, <2>2
<1>7. QED
  BY <1>1, <1>2, <1>3, <1>4, <1>5, <1>6
     DEF InboxNext, EndpointUpsert, Ingest, IngestInvalid, IngestDuplicate, PruneOrphanDeliveries

\* No step of the workers' module makes an event one that was never inserted.
LEMMA NeverUninserted ==
  ASSUME AnyInv, [Next]_vars, NEW e \in EventId, event'[e].status = "absent"
  PROVE  event[e].status = "absent"
<1>a. TablesOK
  BY DEF AnyInv, LinkInv
<1>1. CASE Operator
  BY <1>1, <1>a, OperatorMoves DEF Operator
<1>2. ASSUME NEW w \in Workers, Step(w) \/ Crash(w)
      PROVE  event[e].status = "absent"
  <2>1. CASE OnlyQueue
    BY <2>1 DEF OnlyQueue
  <2>2. CASE Records(w)
    <3>1. /\ OnlyChanges(job[cur[w].job].event)
          /\ event'[job[cur[w].job].event].status \in {"handled", "failed", "dead"}
      BY <2>2, RecordsEffect
    <3>2. QED
      BY <3>1 DEF OnlyChanges
  <2>3. QED
    BY <1>2, <2>1, <2>2, StepKinds
<1>3. CASE UNCHANGED event
  BY <1>3
<1>4. QED
  BY <1>1, <1>2, <1>3 DEF Next, vars, LeaseExpires, LeaseLapses, Expire

\* delete_live_jobs_for_event, and whatever else takes jobs out and leaves the rows alone.
LEMMA LinksIfDropped ==
  ASSUME LinkInv, NEW E, job' = WithoutLiveJobs(E, "deleted"),
         UNCHANGED <<endpoint, event, delivery, attempts, audit>>
  PROVE  LinkInv'
<1>a. "deleted" \in GoneState
  BY DEF GoneState
<1>1. PayloadsStay /\ NoJobPruned /\ QueueTypeOK'
  BY <1>a, PayloadsIfDropped, DeletionTypes DEF LinkInv, TablesOK, QueueTypeOK
<1>2. Kept
  BY <1>1, StayingFit, KeptIfRowsStay DEF RowsStay, IdentitiesStay, AttemptsOfPrunedStay
<1>3. LiveNamed'
  BY <1>1, NamesIfGrown DEF LinkInv, PayloadsStay
<1>4. TablesOK'
  BY <1>1 DEF LinkInv, TablesOK, InboxTypeOK
<1>5. QED
  BY <1>2, <1>3, <1>4 DEF LinkInv, Kept

\* reset_event alone.
LEMMA LinksIfReset ==
  ASSUME LinkInv, NEW e \in EventId, Exists(e), event' = [event EXCEPT ![e] = ResetEvent(@)],
         UNCHANGED <<endpoint, delivery, attempts, audit, job>>
  PROVE  LinkInv' /\ OnlyChanges(e) /\ event'[e].status = "received"
<1>a. event \in [EventId -> EventRow] /\ event[e] \in EventRow
  BY DEF LinkInv, TablesOK, InboxTypeOK
<1>1. ResetEvent(event[e]) \in EventRow /\ ResetEvent(event[e]).status = "received"
  BY <1>a DEF ResetEvent, EventRow, Status
<1>2. OnlyChanges(e) /\ event'[e].status = "received"
  BY <1>a, <1>1 DEF OnlyChanges
<1>3. IdentitiesStay
  BY <1>a, TransitionsKeepIdentity, IdentityIfWritten
<1>4. TargetsFit /\ NoJobPruned
  BY StayingFit DEF PayloadsStay, NoJobPruned, Live
<1>5. Kept
  BY <1>3, <1>4, KeptIfRowsStay DEF RowsStay, AttemptsOfPrunedStay
<1>6. LiveNamed'
  BY <1>2, NamesIfGrown DEF LinkInv, OnlyChanges, Live
<1>7. TablesOK'
  BY <1>a, <1>1 DEF LinkInv, TablesOK, InboxTypeOK, QueueTypeOK
<1>8. QED
  BY <1>2, <1>5, <1>6, <1>7 DEF LinkInv, Kept

\* enqueue_event alone.
LEMMA LinksIfEnqueued ==
  ASSUME LinkInv, NEW e \in EventId, event[e].status # "absent",
         NEW j \in JobId, NextJobId(j), job' = Enqueued(job, j, e, NoRef),
         UNCHANGED <<endpoint, event, delivery, attempts, audit>>
  PROVE  LinkInv'
<1>a. QueueTypeOK /\ e \in Nat /\ NoRef \in Nat
  BY DEF LinkInv, TablesOK, EventId, NoRef
<1>1. QueueTypeOK'
  BY <1>a, QueueTypes DEF QueueTypeOK
<1>2. /\ job'[j].event = e /\ job'[j].delivery = NoRef
      /\ \A i \in JobId \ {j} : job'[i] = job[i]
  BY <1>a DEF Enqueued, UnusedJob, QueueTypeOK
<1>3. TargetsFit /\ NoJobPruned
  <2>1. job[j].state # "pruned" /\ job'[j].state # "pruned"
    BY <1>a DEF NextJobId, Enqueued, UnusedJob, QueueTypeOK
  <2>2. QED
    BY <1>2, <2>1 DEF TargetsFit, NoJobPruned, Live
<1>4. Kept
  BY <1>3, KeptIfRowsStay DEF RowsStay, IdentitiesStay, AttemptsOfPrunedStay
<1>5. LiveNamed'
  BY <1>2, NamesIfGrown DEF LinkInv, Live
<1>6. TablesOK'
  BY <1>1 DEF LinkInv, TablesOK, InboxTypeOK
<1>7. QED
  BY <1>4, <1>5, <1>6 DEF LinkInv, Kept

\* A caller that has begun names an event.
LEMMA CallNames ==
  ASSUME CallsOK, NEW o \in Callers, call[o].at \in CallAt
  PROVE  /\ call[o] # NoCall /\ call[o].event \in EventId
         /\ event[call[o].event].status # "absent"
BY DEF CallsOK, NoCall, CallAt

\* A statement of a call, or the end of one, keeps types and links.
LEMMA CallKeeps ==
  ASSUME ReplayInv, NEW o \in Callers, CallStep(o) \/ CallDies(o)
  PROVE  ReplayInv'
<1>a. /\ AnyInv /\ CallsOK /\ LinkInv /\ faults \in Nat
      /\ call \in [Callers -> {NoCall} \cup [at : CallAt, event : EventId]]
      /\ event \in [EventId -> EventRow]
  BY DEF ReplayInv, AnyInv, BindingTypeOK, CallsOK, InboxTypeOK
<1>b. UNCHANGED vars => AnyInv'
  BY <1>a, AnyNext
<1>c. \A at \in CallAt : call[o].at = at =>
        call[o].event \in EventId /\ event[call[o].event].status # "absent"
  BY <1>a, CallNames
<1>d. ASSUME NEW e \in EventId, UNCHANGED event \/ (OnlyChanges(e) /\ event'[e].status = "received")
      PROVE  \A f \in EventId : event'[f].status = "absent" => event[f].status = "absent"
  BY <1>d DEF OnlyChanges
<1>1. ASSUME NEW e \in EventId, Accept(o, e)
      PROVE  ReplayInv'
  <2>1. CallsOK'
    BY <1>1, <1>a DEF Accept, CallsOK, CallAt, vars
  <2>2. QED
    BY <1>1, <1>b, <2>1 DEF Accept, ReplayInv
<1>2. CASE ClearStale(o)
  <2>1. AnyInv'
    BY <1>2, <1>a, LinksIfDropped, AnyIfHandsStay DEF ClearStale, workerVars
  <2>2. CallsOK'
    BY <1>2, <1>a, <1>c DEF ClearStale, Reaches, CallsOK, CallAt, NoCall
  <2>3. QED
    BY <2>1, <2>2 DEF ReplayInv
<1>3. CASE Reset(o)
  <2>1. /\ LinkInv' /\ OnlyChanges(call[o].event) /\ event'[call[o].event].status = "received"
        /\ call[o].event \in EventId
    BY <1>3, <1>a, LinksIfReset DEF Reset, Exists
  <2>2. AnyInv'
    BY <1>3, <1>a, <2>1, AnyIfHandsStay DEF Reset, workerVars
  <2>3. \A f \in EventId : event'[f].status = "absent" => event[f].status = "absent"
    BY <1>d, <2>1
  <2>4. CallsOK'
    BY <1>3, <1>a, <2>1, <2>3 DEF Reset, Reaches, CallsOK, CallAt, NoCall
  <2>5. QED
    BY <2>2, <2>4 DEF ReplayInv
<1>4. CASE ResetRefused(o)
  <2>1. CallsOK'
    BY <1>4, <1>a DEF ResetRefused, Returns, CallsOK, vars
  <2>2. QED
    BY <1>4, <1>b, <2>1 DEF ResetRefused, ReplayInv
<1>5. CASE Enqueue(o)
  <2>1. PICK j \in JobId : NextJobId(j) /\ job' = Enqueued(job, j, call[o].event, NoRef)
    BY <1>5 DEF Enqueue
  <2>2. LinkInv'
    BY <1>5, <1>a, <1>c, <2>1, LinksIfEnqueued DEF Enqueue, CallAt
  <2>3. AnyInv'
    BY <1>5, <1>a, <2>2, AnyIfHandsStay DEF Enqueue, workerVars
  <2>4. CallsOK'
    BY <1>5, <1>a DEF Enqueue, Returns, CallsOK
  <2>5. QED
    BY <2>3, <2>4 DEF ReplayInv
<1>6. CASE CallDies(o)
  <2>1. AnyInv'
    BY <1>6, <1>a, AnyIfUnchanged DEF CallDies
  <2>2. CallsOK'
    BY <1>6, <1>a DEF CallDies, Returns, CallsOK, inboxVars
  <2>3. QED
    BY <2>1, <2>2 DEF ReplayInv
<1>7. QED
  BY <1>1, <1>2, <1>3, <1>4, <1>5, <1>6 DEF CallStep

\* Every step with replays statement by statement keeps types and links.
LEMMA ReplayStep ==
  ASSUME ReplayInv, [ReplayNext]_<<vars, call>>
  PROVE  ReplayInv'
<1>1. CASE Next /\ UNCHANGED call
  BY <1>1, AnyNext, NeverUninserted DEF ReplayInv, CallsOK
<1>2. CASE \E o \in Callers : CallStep(o) \/ CallDies(o)
  BY <1>2, CallKeeps
<1>3. CASE UNCHANGED <<vars, call>>
  BY <1>3, AnyNext DEF ReplayInv, CallsOK, vars
<1>4. QED
  BY <1>1, <1>2, <1>3 DEF ReplayNext

\* At first no call is under way.
LEMMA CallsInit == ReplayInit => ReplayInv
BY AnyInit DEF ReplayInit, ReplayInv, CallsOK

\* Types and links hold throughout, with replays statement by statement...
LEMMA ReplayInvariant == ReplaySpec => []ReplayInv
<1>1. ReplayInv /\ [ReplayNext]_<<vars, call>> => ReplayInv'
  BY ReplayStep
<1>2. QED
  BY <1>1, CallsInit, PTL DEF ReplaySpec

\* ...and with replays in one transaction.
LEMMA AnyInvariant == Spec => []AnyInv
<1>1. AnyInv /\ [Next]_vars => AnyInv'
  BY AnyNext
<1>2. QED
  BY <1>1, AnyInit, PTL DEF Spec

\* Every variable keeps its type, and a worker has a claim exactly while run_worker_once
\* is under way, through crashes of workers and callers.
THEOREM BindingTypes == ReplaySpec => []BindingTypeOK
<1>1. ReplayInv => BindingTypeOK
  BY DEF ReplayInv, AnyInv
<1>2. QED
  BY <1>1, ReplayInvariant, PTL

\* What Python's users can rely on of deliveries, keys and prunes, the users of the other
\* bindings can too, although their workers check less and their replays may be torn.
THEOREM BindingLinks ==
  ReplaySpec => [](/\ DeliveryLinkage /\ DedupeConverges /\ EventsKeepDeliveries
                   /\ ReplayTargetStored /\ AuditAccounts)
<1>1. ReplayInv => /\ DeliveryLinkage /\ DedupeConverges /\ EventsKeepDeliveries
                   /\ ReplayTargetStored /\ AuditAccounts
  BY LinksConverge DEF ReplayInv, AnyInv, LinkInv, LinksOK
<1>2. QED
  BY <1>1, ReplayInvariant, PTL

-----------------------------------------------------------------------------
(* Received events are in the queue.                                       *)

\* But for the events of C, a received event has a live job.
Waits(C) == \A e \in EventId \ C : event[e].status = "received" =>
  \E j \in JobId : Live(j) /\ job[j].event = e

NoneReceived == \A e \in EventId : event'[e].status = "received" => event[e].status = "received"

\* The live jobs stay, and no event becomes received.
LEMMA QueuedIfKept ==
  ASSUME OneLiveJob, NEW C, Waits(C), KeepsJobs, NoneReceived
  PROVE  OneLiveJob' /\ Waits(C)'
BY DEF OneLiveJob, Waits, KeepsJobs, SameEvents, NoneReceived

\* A job leaves the queue with the event it is for settled.
LEMMA QueuedIfSettled ==
  ASSUME OneLiveJob, NEW C, Waits(C), NEW j \in JobId, SettlesJob(j), NoneReceived,
         job[j].event \in EventId => event'[job[j].event].status # "received"
  PROVE  OneLiveJob' /\ Waits(C)'
<1>1. OneLiveJob'
  BY DEF OneLiveJob, SettlesJob, SameEvents
<1>2. ASSUME NEW e \in EventId \ C, event'[e].status = "received"
      PROVE  \E i \in JobId : Live(i)' /\ job'[i].event = e
  <2>1. PICK i \in JobId : Live(i) /\ job[i].event = e
    BY <1>2 DEF Waits, NoneReceived
  <2>2. i # j
    BY <1>2, <2>1
  <2>3. QED
    BY <2>1, <2>2 DEF SettlesJob, SameEvents
<1>3. QED
  BY <1>1, <1>2 DEF Waits

\* Dropping jobs, of events that are not received afterwards or excepted.
LEMMA QueuedIfDropped ==
  ASSUME OneLiveJob, NEW C, Waits(C), NEW E, DropsJobs(E), NoneReceived,
         \A e \in (E \cap EventId) \ C : event'[e].status # "received"
  PROVE  OneLiveJob' /\ Waits(C)'
<1>1. OneLiveJob'
  BY DEF OneLiveJob, DropsJobs, SameEvents
<1>2. ASSUME NEW e \in EventId \ C, event'[e].status = "received"
      PROVE  \E i \in JobId : Live(i)' /\ job'[i].event = e
  <2>1. PICK i \in JobId : Live(i) /\ job[i].event = e
    BY <1>2 DEF Waits, NoneReceived
  <2>2. e \notin E
    BY <1>2
  <2>3. QED
    BY <2>1, <2>2 DEF DropsJobs, SameEvents
<1>3. QED
  BY <1>1, <1>2 DEF Waits

\* One event gets its one fresh job: afterwards it need not be excepted.
LEMMA QueuedIfRenewed ==
  ASSUME OneLiveJob, NEW C, Waits(C), NEW e \in EventId, RenewsJob(e),
         \A f \in EventId \ {e} : event'[f].status = "received" => event[f].status = "received"
  PROVE  OneLiveJob' /\ Waits(C \ {e})'
<1>1. PICK j \in JobId :
        /\ ~Live(j) /\ Live(j)' /\ job'[j].event = e
        /\ SameEvents(JobId \ {j})
        /\ \A i \in JobId \ {j} : Live(i)' <=> Live(i) /\ job[i].event # e
  BY DEF RenewsJob
<1>2. OneLiveJob'
  BY <1>1 DEF OneLiveJob, SameEvents
<1>3. ASSUME NEW f \in EventId \ (C \ {e}), event'[f].status = "received"
      PROVE  \E i \in JobId : Live(i)' /\ job'[i].event = f
  <2>1. CASE f = e
    BY <1>1, <2>1
  <2>2. CASE f # e
    <3>1. PICK i \in JobId : Live(i) /\ job[i].event = f
      BY <1>3, <2>2 DEF Waits
    <3>2. QED
      BY <1>1, <2>2, <3>1 DEF SameEvents
  <2>3. QED
    BY <2>1, <2>2
<1>4. QED
  BY <1>2, <1>3 DEF Waits

\* A reactivated event gets its job in the same transaction.
LEMMA ReactivateQueued ==
  ASSUME TablesOK, OneLiveJob, NEW C, Waits(C), NEW e \in EventId, NEW d \in Nat, Reactivate(e, d)
  PROVE  OneLiveJob' /\ Waits(C)'
<1>1. RenewsJob(e)
  BY RenewEffect DEF TablesOK, Reactivate
<1>2. \A f \in EventId \ {e} : event'[f] = event[f]
  BY DEF Reactivate, TablesOK, InboxTypeOK
<1>3. QED
  BY <1>1, <1>2, QueuedIfRenewed DEF Waits

\* An operator's call keeps received events in the queue, and jobs single.
LEMMA OperatorQueued ==
  ASSUME LinkInv, OneLiveJob, NEW C, Waits(C), InboxNext
  PROVE  OneLiveJob' /\ Waits(C)'
<1>a. TablesOK /\ QueueTypeOK /\ event \in [EventId -> EventRow]
  BY DEF LinkInv, TablesOK, InboxTypeOK
<1>b. UNCHANGED job /\ NoneReceived => OneLiveJob' /\ Waits(C)'
  BY QueuedIfKept DEF KeepsJobs, SameEvents, Live
<1>c. UNCHANGED event => NoneReceived
  BY DEF NoneReceived
<1>1. CASE \E n \in Endpoints, enabled \in BOOLEAN : EndpointUpsert(n, enabled)
  BY <1>1, <1>b, <1>c DEF EndpointUpsert
<1>2. ASSUME NEW n, NEW k, NEW t, Ingest(n, k, t)
      PROVE  OneLiveJob' /\ Waits(C)'
  <2>1. CASE IngestInvalid(n, k, t) \/ IngestDuplicate(n, k, t)
    BY <2>1, <1>b, <1>c DEF IngestInvalid, IngestDuplicate
  <2>2. CASE IngestNew(n, k, t)
    <3>1. PICK e \in EventId, j \in JobId :
            /\ NextEventId(e) /\ NextJobId(j)
            /\ event' = [event EXCEPT ![e] = [Empty("received") EXCEPT !.endpoint = n,
                                                                       !.key = k, !.kind = t]]
            /\ job' = Enqueued(job, j, e, NoRef)
      BY <2>2 DEF IngestNew
    <3>2. \A i \in JobId : Live(i) => job[i].event # e
      BY <3>1 DEF NextEventId, LinkInv, LiveNamed
    <3>3. RenewsJob(e)
      BY <1>a, <3>1, <3>2, EnqueueEffect
    <3>4. \A f \in EventId \ {e} : event'[f] = event[f]
      BY <1>a, <3>1
    <3>5. QED
      BY <3>3, <3>4, QueuedIfRenewed DEF Waits
  <2>3. QED
    BY <1>2, <2>1, <2>2 DEF Ingest
<1>3. ASSUME NEW e \in EventId, Ignore(e)
      PROVE  OneLiveJob' /\ Waits(C)'
  <2>1. NoneReceived
    BY <1>3, <1>a DEF Ignore, MarkIgnored, EventRow, NoneReceived
  <2>2. QED
    BY <1>3, <1>b, <2>1 DEF Ignore
<1>4. ASSUME NEW e \in EventId, Replay(e) \/ Requeue(e)
      PROVE  OneLiveJob' /\ Waits(C)'
  BY <1>4, <1>a, ReactivateQueued DEF Replay, Requeue, NoRef
<1>5. ASSUME NEW d \in DeliveryId, ReplayDelivery(d)
      PROVE  OneLiveJob' /\ Waits(C)'
  BY <1>5, <1>a, ReactivateQueued DEF ReplayDelivery, Exists, DeliveryId
<1>6. ASSUME NEW S \in PruneStatuses, NEW c, NEW n, PruneEvents(S, c, n)
      PROVE  OneLiveJob' /\ Waits(C)'
  <2>1. PICK E :
          /\ job' = WithoutLiveJobs(E, "pruned")
          /\ event' = [e \in EventId |-> IF e \in E THEN Empty("pruned") ELSE event[e]]
    BY <1>6 DEF PruneEvents
  <2>2. DropsJobs(E)
    BY <1>a, <2>1, DropEffect DEF GoneState
  <2>3. NoneReceived /\ \A e \in E \cap EventId : event'[e].status # "received"
    BY <2>1 DEF Empty, NoneReceived
  <2>4. QED
    BY <2>2, <2>3, QueuedIfDropped
<1>7. ASSUME NEW c, NEW n, PruneOrphanDeliveries(c, n)
      PROVE  OneLiveJob' /\ Waits(C)'
  BY <1>7, <1>b, <1>c DEF PruneOrphanDeliveries
<1>8. QED
  BY <1>1, <1>2, <1>3, <1>4, <1>5, <1>6, <1>7 DEF InboxNext

\* A worker's step makes no event received.
LEMMA StepQueued ==
  ASSUME AnyInv, OneLiveJob, NEW C, Waits(C), NEW w \in Workers, OnlyQueue \/ Records(w)
  PROVE  OneLiveJob' /\ Waits(C)' /\ NoneReceived
<1>1. CASE OnlyQueue
  BY <1>1, QueuedIfKept DEF OnlyQueue, NoneReceived
<1>2. CASE Records(w)
  <2> DEFINE j == cur[w].job
             e == job[j].event
  <2>1. /\ j \in JobId /\ e \in EventId /\ OnlyChanges(e)
        /\ event'[e].status \in {"handled", "failed", "dead"}
        /\ KeepsJobs \/ SettlesJob(j)
    BY <1>2, RecordsEffect
  <2>2. NoneReceived /\ event'[e].status # "received"
    BY <2>1 DEF NoneReceived, OnlyChanges
  <2> HIDE DEF j
  <2>3. QED
    BY <2>1, <2>2, QueuedIfKept, QueuedIfSettled
<1>3. QED
  BY <1>1, <1>2

QueuedInv == AnyInv /\ OneLiveJob /\ Waits({})

\* Every step with replays in one transaction keeps received events in the queue.
LEMMA QueuedStep ==
  ASSUME QueuedInv, [Next]_vars
  PROVE  QueuedInv'
<1>a. AnyInv /\ AnyInv' /\ OneLiveJob /\ Waits({}) /\ LinkInv /\ QueueTypeOK
  BY AnyNext DEF QueuedInv, AnyInv, BindingTypeOK
<1>1. CASE Operator
  BY <1>a, <1>1, OperatorQueued DEF Operator, QueuedInv
<1>2. ASSUME NEW w \in Workers, Step(w) \/ Crash(w)
      PROVE  QueuedInv'
  BY <1>a, <1>2, StepKinds, StepQueued DEF QueuedInv
<1>3. CASE \E j \in JobId : LeaseExpires(j) \/ LeaseLapses(j)
  <2>1. OnlyQueue
    BY <1>a, <1>3, QueueIfExpired DEF LeaseExpires, LeaseLapses
  <2>2. QED
    BY <1>a, <2>1, QueuedIfKept DEF OnlyQueue, NoneReceived, QueuedInv
<1>4. CASE UNCHANGED vars
  BY <1>a, <1>4, QueuedIfKept DEF vars, KeepsJobs, SameEvents, Live, NoneReceived, QueuedInv
<1>5. QED
  BY <1>1, <1>2, <1>3, <1>4 DEF Next

\* There is no event at first, and no job.
LEMMA QueuedInit == InboxInit => OneLiveJob /\ Waits({})
BY DEF InboxInit, QueueInit, OneLiveJob, Waits, Live, LiveState, UnusedJob, Empty

\* Whatever results a worker does not look at, and whatever lapses while it handles, an
\* event that has not been tried yet is in the queue, and is there once.
THEOREM UntriedIsQueued == Spec => [](ReceivedIsQueued /\ OneLiveJob)
<1>1. Init => QueuedInv
  BY AnyInit, QueuedInit DEF Init, QueuedInv
<1>2. QueuedInv /\ [Next]_vars => QueuedInv'
  BY QueuedStep
<1>3. QueuedInv => ReceivedIsQueued /\ OneLiveJob
  BY DEF QueuedInv, Waits, ReceivedIsQueued
<1>4. QED
  BY <1>1, <1>2, <1>3, PTL DEF Spec

-----------------------------------------------------------------------------
(* Calls that are alone.                                                   *)

OneCaller == \A o, p \in Callers : call[o] # NoCall /\ call[p] # NoCall => o = p

\* What a call that is under way has found out, and done, about its event still holds:
\* it is not received until the reset, and has no live job after the deletes.
CallFits(o) ==
  /\ call[o].at \in {"accepted", "cleared"} => event[call[o].event].status # "received"
  /\ call[o].at \in {"cleared", "reset"} =>
       \A j \in JobId : Live(j) => job[j].event # call[o].event

\* The events between reset and enqueue.
Resets == {call[o].event : o \in {p \in Callers : call[p].at = "reset"}}

SoloInv ==
  /\ ReplayInv /\ OneLiveJob /\ OneCaller
  /\ \A o \in Callers : CallFits(o)
  /\ Waits(Resets)

\* Nothing is asked of an operator without a call.
LEMMA CallFitsIfOver ==
  ASSUME NEW o \in Callers, call'[o] = NoCall
  PROVE  CallFits(o)'
BY DEF CallFits, NoCall

\* Nothing but an enqueue gets in the way of a call.
LEMMA CallFitsKept ==
  ASSUME CallsOK, NEW o \in Callers, CallFits(o), UNCHANGED call, LiveNamed,
         \A j \in JobId : Live(j)' => Live(j) /\ job'[j].event = job[j].event,
         \A e \in EventId : event'[e].status = "received" => event[e].status = "received"
  PROVE  CallFits(o)'
<1>1. call[o].at \in CallAt => call[o].event \in EventId
  BY CallNames
<1>2. QED
  BY <1>1 DEF CallFits, CallAt

\* Steps that leave the calls alone.
LEMMA SoloOperator ==
  ASSUME SoloInv, Operator, NobodyCalls \/ EnqueuesNothing, UNCHANGED call
  PROVE  SoloInv'
<1>a. /\ ReplayInv /\ AnyInv /\ LinkInv /\ OneLiveJob /\ TablesOK /\ QueueTypeOK
      /\ OneCaller /\ CallsOK /\ Waits(Resets) /\ InboxNext
  BY DEF SoloInv, ReplayInv, AnyInv, LinkInv, TablesOK, Operator
<1>1. ReplayInv'
  BY <1>a, ReplayStep DEF ReplayNext, Next
<1>2. PICK C : C = Resets
  OBVIOUS
<1>3. Resets' = C
  BY <1>2 DEF Resets
<1>4. OneLiveJob' /\ Waits(C)'
  BY <1>a, <1>2, OperatorQueued
<1>5. ASSUME NEW o \in Callers
      PROVE  CallFits(o)'
  <2>1. CASE NobodyCalls
    BY <2>1, CallFitsIfOver DEF NobodyCalls
  <2>2. CASE EnqueuesNothing
    <3>1. \A e \in EventId : event'[e].status = "received" => event[e].status = "received"
      BY <1>a, <2>2, OperatorMoves DEF EnqueuesNothing
    <3>2. LiveNamed /\ LiveNamed'
      BY <1>a, OperatorNames DEF LinkInv
    <3>3. ASSUME NEW j \in JobId, Live(j)'
          PROVE  Live(j) /\ job'[j].event = job[j].event
      <4>1. job'[j].event \in EventId
        BY <3>2, <3>3 DEF LiveNamed
      <4>2. Live(j)
        BY <2>2, <3>3, <4>1 DEF EnqueuesNothing, FreshJobFor
      <4>3. job[j].state # "unused"
        BY <4>2 DEF Live, LiveState
      <4>4. QED
        BY <1>a, <4>2, <4>3, OperatorAges DEF JobsAge
    <3>4. QED
      BY <1>a, <3>1, <3>2, <3>3, CallFitsKept DEF SoloInv
  <2>3. QED
    BY <2>1, <2>2
<1>6. QED
  BY <1>a, <1>1, <1>3, <1>4, <1>5 DEF SoloInv, OneCaller

\* A step of the queue, between the statements of a call or not.
LEMMA SoloIfQueue ==
  ASSUME SoloInv, ReplayInv', UNCHANGED call, NoneReceived, PayloadsStay, NEW C, C = Resets,
         OneLiveJob' /\ Waits(C)'
  PROVE  SoloInv'
<1>1. Resets' = C
  BY DEF Resets
<1>2. \A o \in Callers : CallFits(o)'
  BY CallFitsKept DEF SoloInv, ReplayInv, AnyInv, LinkInv, NoneReceived, PayloadsStay
<1>3. QED
  BY <1>1, <1>2 DEF SoloInv, OneCaller

\* A worker's step between the statements of a call.
LEMMA SoloWorker ==
  ASSUME SoloInv, NEW w \in Workers, Step(w) \/ Crash(w), UNCHANGED call
  PROVE  SoloInv'
<1>a. ReplayInv /\ AnyInv /\ OneLiveJob /\ Waits(Resets)
  BY DEF SoloInv, ReplayInv
<1>1. ReplayInv'
  BY <1>a, ReplayStep DEF ReplayNext, Next
<1>2. PICK C : C = Resets
  OBVIOUS
<1>3. OnlyQueue \/ Records(w)
  BY <1>a, StepKinds
<1>4. OneLiveJob' /\ Waits(C)' /\ NoneReceived
  BY <1>a, <1>2, <1>3, StepQueued
<1>5. PayloadsStay
  BY <1>a, <1>3, RecordsEffect DEF OnlyQueue
<1>6. QED
  BY <1>1, <1>2, <1>4, <1>5, SoloIfQueue

\* A lease that runs out between the statements of a call.
LEMMA SoloLease ==
  ASSUME SoloInv, NEW j \in JobId, LeaseExpires(j) \/ LeaseLapses(j), UNCHANGED call
  PROVE  SoloInv'
<1>a. ReplayInv /\ AnyInv /\ OneLiveJob /\ Waits(Resets)
  BY DEF SoloInv, ReplayInv
<1>1. ReplayInv'
  BY <1>a, ReplayStep DEF ReplayNext, Next
<1>2. PICK C : C = Resets
  OBVIOUS
<1>3. OnlyQueue
  BY <1>a, AnyIfExpired
<1>4. NoneReceived /\ PayloadsStay
  BY <1>3 DEF OnlyQueue, NoneReceived
<1>5. OneLiveJob' /\ Waits(C)'
  BY <1>a, <1>2, <1>3, <1>4, QueuedIfKept DEF OnlyQueue
<1>6. QED
  BY <1>1, <1>2, <1>4, <1>5, SoloIfQueue

\* A statement of the only call there is.
LEMMA SoloCall ==
  ASSUME SoloInv, NEW o \in Callers, \A p \in Callers \ {o} : call[p] = NoCall, CallStep(o)
  PROVE  SoloInv'
<1>a. /\ ReplayInv /\ AnyInv /\ LinkInv /\ OneLiveJob /\ QueueTypeOK /\ CallsOK
      /\ CallFits(o) /\ Waits(Resets)
      /\ call \in [Callers -> {NoCall} \cup [at : CallAt, event : EventId]]
      /\ event \in [EventId -> EventRow]
  BY DEF SoloInv, ReplayInv, AnyInv, LinkInv, TablesOK, CallsOK, InboxTypeOK
<1>1. ReplayInv'
  BY <1>a, CallKeeps
<1>2. \A p \in Callers \ {o} : call'[p] = NoCall /\ CallFits(p)'
  <2>1. \A p \in Callers \ {o} : call'[p] = NoCall
    BY <1>a DEF CallStep, Accept, ClearStale, Reset, ResetRefused, Enqueue, Reaches, Returns
  <2>2. QED
    BY <2>1, CallFitsIfOver
<1>3. OneCaller'
  BY <1>2 DEF OneCaller
<1>4. /\ Resets = IF call[o].at = "reset" THEN {call[o].event} ELSE {}
      /\ Resets' = IF call'[o].at = "reset" THEN {call'[o].event} ELSE {}
  BY <1>2 DEF Resets, NoCall
<1>5. SUFFICES OneLiveJob' /\ CallFits(o)' /\ Waits(Resets)'
  BY <1>1, <1>2, <1>3 DEF SoloInv
<1>b. call[o].at \in CallAt => call[o].event \in EventId
  BY <1>a, CallNames
<1>6. CASE (\E e \in EventId : Accept(o, e)) \/ ResetRefused(o)
  <2>1. UNCHANGED vars
    BY <1>6 DEF Accept, ResetRefused
  <2>2. OneLiveJob' /\ Waits({})'
    <3>1. Waits({})
      BY <1>6, <1>a, <1>4 DEF Accept, ResetRefused, NoCall
    <3>2. QED
      BY <1>a, <2>1, <3>1, QueuedIfKept DEF vars, KeepsJobs, SameEvents, Live, NoneReceived
  <2>3. CallFits(o)' /\ call'[o].at # "reset"
    BY <1>6, <1>a, <2>1 DEF Accept, ResetRefused, Returns, CallFits, NoCall, vars
  <2>4. QED
    BY <1>4, <2>2, <2>3
<1>7. CASE ClearStale(o)
  <2>1. PICK e \in EventId : e = call[o].event
    BY <1>7, <1>b DEF ClearStale, CallAt
  <2>2. /\ call'[o].at = "cleared" /\ call'[o].event = e
        /\ job' = WithoutLiveJobs({e}, "deleted") /\ UNCHANGED event
        /\ event[e].status # "received"
    BY <1>7, <1>a, <2>1 DEF ClearStale, Reaches, CallFits, CallsOK, NoCall
  <2>3. DropsJobs({e})
    BY <1>a, <2>2, DropEffect DEF GoneState
  <2>4. Waits({})
    BY <1>7, <1>a, <1>4 DEF ClearStale
  <2>5. OneLiveJob' /\ Waits({})'
    BY <1>a, <2>2, <2>3, <2>4, QueuedIfDropped DEF NoneReceived
  <2>6. CallFits(o)'
    BY <2>2, <2>3 DEF CallFits, DropsJobs, SameEvents
  <2>7. QED
    BY <1>4, <2>2, <2>5, <2>6
<1>8. CASE Reset(o)
  <2>1. PICK e \in EventId : e = call[o].event
    BY <1>8, <1>b DEF Reset, CallAt
  <2>2. /\ call'[o].at = "reset" /\ call'[o].event = e /\ UNCHANGED job
        /\ \A f \in EventId \ {e} : event'[f] = event[f]
        /\ \A j \in JobId : Live(j) => job[j].event # e
    BY <1>8, <1>a, <2>1 DEF Reset, Reaches, CallFits, NoCall
  <2>3. OneLiveJob' /\ CallFits(o)'
    BY <1>a, <2>2 DEF OneLiveJob, CallFits, Live
  <2>4. Waits({})
    BY <1>8, <1>a, <1>4 DEF Reset
  <2>5. Waits({e})'
    BY <2>2, <2>4 DEF Waits, Live
  <2>6. QED
    BY <1>4, <2>2, <2>3, <2>5
<1>9. CASE Enqueue(o)
  <2>1. PICK e \in EventId : e = call[o].event
    BY <1>9, <1>b DEF Enqueue, CallAt
  <2>2. PICK j \in JobId : NextJobId(j) /\ job' = Enqueued(job, j, e, NoRef)
    BY <1>9, <2>1 DEF Enqueue
  <2>3. call'[o] = NoCall /\ UNCHANGED event /\ Waits({e})
        /\ \A i \in JobId : Live(i) => job[i].event # e
    BY <1>9, <1>a, <1>4, <2>1 DEF Enqueue, Returns, CallFits
  <2>4. RenewsJob(e)
    BY <1>a, <2>2, <2>3, EnqueueEffect
  <2>5. OneLiveJob' /\ Waits({e} \ {e})'
    BY <1>a, <2>3, <2>4, QueuedIfRenewed
  <2>6. {e} \ {e} = {} /\ Resets' = {}
    BY <1>4, <2>3 DEF NoCall
  <2>7. QED
    BY <2>3, <2>5, <2>6, CallFitsIfOver
<1>10. QED
  BY <1>6, <1>7, <1>8, <1>9 DEF CallStep

\* Every step of the specification keeps the call fit to go on.
LEMMA SoloStep ==
  ASSUME SoloInv, [SoloNext]_<<vars, call>>
  PROVE  SoloInv'
<1>1. CASE UNCHANGED <<vars, call>>
  <2>1. ReplayInv'
    BY <1>1, ReplayStep DEF SoloInv
  <2>2. QED
    BY <1>1, <2>1 DEF SoloInv, vars, OneLiveJob, OneCaller, CallFits, Waits, Resets, Live
<1>2. QED
  BY <1>1, SoloOperator, SoloWorker, SoloLease, SoloCall DEF SoloNext

\* The lone call is fit to go on throughout.
LEMMA SoloInvariant == SoloSpec => []SoloInv
<1>1. ReplayInit => SoloInv
  <2>1. ReplayInit => ReplayInv /\ OneLiveJob /\ Waits({})
    BY CallsInit, QueuedInit DEF ReplayInit, Init
  <2>2. ReplayInit => OneCaller /\ Resets = {} /\ \A o \in Callers : CallFits(o)
    BY DEF ReplayInit, OneCaller, CallFits, Resets, NoCall
  <2>3. QED
    BY <2>1, <2>2 DEF SoloInv
<1>2. SoloInv /\ [SoloNext]_<<vars, call>> => SoloInv'
  BY SoloStep
<1>3. QED
  BY <1>1, <1>2, PTL DEF SoloSpec

\* A replay call of four autocommitted statements leaves one live job, never two, if
\* nobody else enqueues between them.
THEOREM SoloOneLiveJob == SoloSpec => []OneLiveJob
<1>1. SoloInv => OneLiveJob
  BY DEF SoloInv
<1>2. QED
  BY <1>1, SoloInvariant, PTL

\* Under the same conditions, and if no call dies between its statements, a received event
\* has a job whenever no call is under way (the runbook's "waiting for a worker").
THEOREM SoloReceivedWaits == SoloSpec => []ReceivedWaits
<1>1. SoloInv => ReceivedWaits
  <2>1. NobodyCalls => Resets = {}
    BY DEF NobodyCalls, Resets, NoCall
  <2>2. QED
    BY <2>1 DEF SoloInv, ReceivedWaits, ReceivedIsQueued, Waits
<1>2. QED
  BY <1>1, SoloInvariant, PTL

-----------------------------------------------------------------------------
(* Commits.                                                                *)

\* A commit by a worker whose claim stands is paid for with the job it acks.
LEMMA RecordsPay ==
  ASSUME AnyInv, CommitsArePaidFor, NEW w \in Workers, Records(w),
         RecordsHandled(w) => HoldsLease(w, cur[w].job)
  PROVE  CommitsArePaidFor'
<1> DEFINE j == cur[w].job
<1>a. TablesOK /\ JobsAge /\ j \in JobId
  BY RecordsEffect DEF AnyInv, LinkInv
<1>1. CASE RecordsHandled(w)
  <2>1. /\ Live(j) /\ job' = Acked(job, j)
        /\ attempts' = WithAttempt(job[j].event, "handled")
    BY <1>1, HeldIsLive DEF RecordsHandled, EventOf
  <2> HIDE DEF j
  <2>2. QED
    BY <1>a, <2>1, PaidIfAcked
<1>2. ASSUME NEW t \in BOOLEAN, RecordsFailed(w, t)
      PROVE  CommitsArePaidFor'
  <2>1. attempts' = WithAttempt(EventOf(cur[w]), FailedOutcome(t))
    BY <1>2 DEF RecordsFailed
  <2>2. NoCommit
    BY <1>a, <2>1 DEF NoCommit, WithAttempt, FailedOutcome, TablesOK, InboxTypeOK, Outcome
  <2>3. QED
    BY <1>a, <2>2, PaidIfNoCommit
<1>3. QED
  BY <1>1, <1>2 DEF Records

\* No commit, no debt.
LEMMA QueuePays ==
  ASSUME TablesOK, CommitsArePaidFor, JobsAge, UNCHANGED attempts
  PROVE  CommitsArePaidFor'
BY PaidIfNoCommit DEF NoCommit

\* A call acks nothing and records no attempt.
LEMMA CallAges ==
  ASSUME ReplayInv, NEW o \in Callers, CallStep(o) \/ CallDies(o)
  PROVE  JobsAge /\ UNCHANGED attempts
<1>a. QueueTypeOK
  BY DEF ReplayInv, AnyInv, BindingTypeOK
<1>1. CASE ClearStale(o)
  BY <1>1, <1>a, AgeIfDropped DEF ClearStale, GoneState
<1>2. CASE Enqueue(o)
  BY <1>2, <1>a, AgeIfRenewed DEF Enqueue
<1>3. CASE UNCHANGED <<job, attempts>>
  BY <1>3, <1>a, AgeIfSame
<1>4. QED
  BY <1>1, <1>2, <1>3 DEF CallStep, CallDies, Accept, Reset, ResetRefused, vars, inboxVars

\* Every step pays for the commit it makes, if all workers look at the ack.
LEMMA ReplayPays ==
  ASSUME ChecksAck = Workers, ReplayInv, CommitsArePaidFor, [ReplayNext]_<<vars, call>>
  PROVE  CommitsArePaidFor'
<1>a. AnyInv /\ LinkInv /\ TablesOK /\ QueueTypeOK
  BY DEF ReplayInv, AnyInv, LinkInv, TablesOK
<1>1. CASE Operator
  BY <1>1, <1>a, OperatorAges, OperatorPays DEF Operator
<1>2. ASSUME NEW w \in Workers, Step(w) \/ Crash(w)
      PROVE  CommitsArePaidFor'
  <2>1. CASE OnlyQueue
    BY <1>a, <2>1, QueuePays DEF OnlyQueue
  <2>2. CASE Records(w)
    BY <1>a, <2>2, RecordsPay DEF RecordsHandled
  <2>3. QED
    BY <1>2, <1>a, <2>1, <2>2, StepKinds
<1>3. CASE \E j \in JobId : LeaseExpires(j) \/ LeaseLapses(j)
  BY <1>3, <1>a, QueueIfExpired, QueuePays DEF LeaseExpires, LeaseLapses, OnlyQueue
<1>4. CASE \E o \in Callers : CallStep(o) \/ CallDies(o)
  BY <1>4, <1>a, CallAges, QueuePays
<1>5. CASE UNCHANGED vars
  BY <1>5, <1>a, AgeIfSame, QueuePays DEF vars
<1>6. QED
  BY <1>1, <1>2, <1>3, <1>4, <1>5 DEF ReplayNext, Next

\* If every worker looks at the result of honker_ack (Node), a handler's writes commit
\* once per enqueue: whatever leases lapse, processes die and replays are torn.
THEOREM CheckedCommitsPaid ==
  ASSUME ChecksAck = Workers
  PROVE  ReplaySpec => []CommitsArePaidFor
<1>1. ReplayInit => CommitsArePaidFor
  BY PaidInit DEF ReplayInit, Init
<1>2. ReplayInv /\ CommitsArePaidFor /\ [ReplayNext]_<<vars, call>> => CommitsArePaidFor'
  BY ReplayPays
<1>3. QED
  BY <1>1, <1>2, ReplayInvariant, PTL DEF ReplaySpec

\* A call that is alone is a call.
LEMMA SoloIsReplay == SoloSpec => ReplaySpec
<1>1. [SoloNext]_<<vars, call>> => [ReplayNext]_<<vars, call>>
  BY DEF SoloNext, ReplayNext, Next
<1>2. QED
  BY <1>1, PTL DEF SoloSpec, ReplaySpec

\* So too while no call dies and nobody enqueues between its statements: the replayed event
\* is committed once more for the replay, not twice, with its stale jobs deleted early.
THEOREM SoloCommitsPaid ==
  ASSUME ChecksAck = Workers
  PROVE  SoloSpec => []CommitsArePaidFor
BY CheckedCommitsPaid, SoloIsReplay, PTL

-----------------------------------------------------------------------------
(* Undisturbed workers, of every binding.                                  *)

\* A claim stands, or the prune that took its event took its job as well.
ClaimsStand ==
  \A w \in Workers : pc[w] # "idle" =>
    \/ HoldsLease(w, cur[w].job)
    \/ /\ job[cur[w].job].state # "unused"
       /\ EventOf(cur[w]) \in EventId /\ event[EventOf(cur[w])].status = "pruned"

UndisturbedInv == AnyInv /\ QueueAgrees /\ ClaimsStand /\ CommitsArePaidFor

\* What UndisturbedNext allows, Next does.
LEMMA UndisturbedAny ==
  ASSUME AnyInv, [UndisturbedNext]_vars
  PROVE  AnyInv'
BY AnyNext DEF UndisturbedNext, Next

\* A worker that records an outcome holds its claim: the job of a pruned event is gone,
\* and its event is not there to be written to.
LEMMA RecorderHolds ==
  ASSUME UndisturbedInv, NEW w \in Workers, Records(w)
  PROVE  HoldsLease(w, cur[w].job)
<1>1. pc[w] # "idle"
  BY DEF Records, UndisturbedInv, AnyInv, BindingTypeOK, Claim, NoClaim, NoRef, JobId
<1>2. QED
  BY <1>1 DEF Records, UndisturbedInv, ClaimsStand, Exists, NoRow

\* An outcome written under a standing claim settles event and job together.
LEMMA RecordsAgree ==
  ASSUME UndisturbedInv, NEW w \in Workers, Records(w)
  PROVE  QueueAgrees' /\ OperatorsReopen
<1> DEFINE j == cur[w].job
           e == job[j].event
           n == cur[w].attempts
<1>a. TablesAgree /\ QueueAgrees /\ event \in [EventId -> EventRow]
  BY DEF UndisturbedInv, AnyInv, LinkInv, TablesOK, TablesAgree, InboxTypeOK
<1>b. HoldsLease(w, j) /\ Live(j) /\ j \in JobId /\ n \in Nat
  BY RecorderHolds, HeldIsLive DEF Records, Claim
<1>c. e \in EventId /\ event[e] \in EventRow /\ event[e].status \notin {"handled", "dead"}
  BY <1>a, <1>b DEF QueueAgrees, FinishedIsNotQueued
<1>1. CASE RecordsHandled(w)
  <2> DEFINE row == MarkHandled(MarkProcessing(event[e], n))
  <2>1. event' = [event EXCEPT ![e] = row] /\ job' = Acked(job, j)
    BY <1>1, <1>b DEF RecordsHandled, EventOf
  <2>2. row.status = "handled"
    BY <1>b, <1>c, OutcomeStatus
  <2> HIDE DEF row, j, n
  <2>3. QueueAgrees'
    BY <1>a, <1>b, <2>1, <2>2, SettleAgrees
  <2>4. OperatorsReopen
    BY <1>a, <1>c, <2>1, ReopenOne
  <2>5. QED
    BY <2>3, <2>4
<1>2. ASSUME NEW t \in BOOLEAN, RecordsFailed(w, t)
      PROVE  QueueAgrees' /\ OperatorsReopen
  <2> DEFINE row == MarkFailed(event[e], n, t)
  <2>1. /\ event' = [event EXCEPT ![e] = row]
        /\ job' = IF t THEN Failed(job, j) ELSE Retried(job, j)
    BY <1>2, <1>b DEF RecordsFailed, EventOf
  <2>2. row.status = IF t THEN "dead" ELSE "failed"
    BY <1>b, <1>c, OutcomeStatus DEF FailedOutcome
  <2> HIDE DEF row, j, n
  <2>3. OperatorsReopen
    BY <1>a, <1>c, <2>1, ReopenOne
  <2>4. CASE t
    BY <1>a, <1>b, <2>1, <2>2, <2>3, <2>4, SettleAgrees
  <2>5. CASE ~t
    BY <1>a, <1>b, <2>1, <2>2, <2>3, <2>5, RetryAgrees
  <2>6. QED
    BY <2>4, <2>5
<1>3. QED
  BY <1>1, <1>2 DEF Records

\* The claims stand if every lease a worker goes on holding is kept, and who begins gets one.
LEMMA StandsIfHeld ==
  ASSUME BindingTypeOK, ClaimsStand, JobsAge,
         \A e \in EventId : event[e].status = "pruned" => event'[e].status = "pruned",
         \A v \in Workers : pc'[v] # "idle" =>
           \/ HoldsLease(v, cur[v].job)'
           \/ /\ pc[v] # "idle" /\ cur'[v] = cur[v]
              /\ ~HoldsLease(v, cur[v].job)
  PROVE  ClaimsStand'
<1>1. ASSUME NEW v \in Workers, pc'[v] # "idle"
      PROVE  \/ HoldsLease(v, cur[v].job)'
             \/ /\ job'[cur'[v].job].state # "unused"
                /\ EventOf(cur[v])' \in EventId /\ event'[EventOf(cur[v])'].status = "pruned"
  <2>1. CASE pc[v] # "idle" /\ cur'[v] = cur[v] /\ ~HoldsLease(v, cur[v].job)
    <3>1. /\ job[cur[v].job].state # "unused"
          /\ EventOf(cur[v]) \in EventId /\ event[EventOf(cur[v])].status = "pruned"
      BY <2>1 DEF ClaimsStand
    <3>2. cur[v].job \in JobId
      BY <2>1, BusyHasClaim DEF Claim
    <3>3. job'[cur[v].job].state # "unused" /\ job'[cur[v].job].event = job[cur[v].job].event
      BY <3>1, <3>2 DEF JobsAge
    <3>4. QED
      BY <2>1, <3>1, <3>3 DEF EventOf
  <2>2. QED
    BY <1>1, <2>1
<1>2. QED
  BY <1>1 DEF ClaimsStand

\* A claim goes to one worker, and its outcome takes it from that worker.
LEMMA StepStands ==
  ASSUME UndisturbedInv, NEW w \in Workers, Step(w) \/ Crash(w)
  PROVE  ClaimsStand'
<1>a. /\ AnyInv /\ BindingTypeOK /\ ClaimsStand /\ QueueTypeOK /\ pc \in [Workers -> WorkerPc]
      /\ cur \in [Workers -> Claim \cup {NoClaim}]
      /\ \A v \in Workers : pc[v] # "idle" => cur[v].job \in JobId
  BY BusyHasClaim DEF UndisturbedInv, AnyInv, BindingTypeOK, Claim
<1>b. OnlyQueue \/ Records(w)
  BY <1>a, StepKinds
<1>c. /\ JobsAge
      /\ \A e \in EventId : event[e].status = "pruned" => event'[e].status = "pruned"
  <2>1. CASE OnlyQueue
    BY <2>1 DEF OnlyQueue
  <2>2. CASE Records(w)
    BY <2>2, <1>a, RecordsEffect DEF Records, OnlyChanges, Exists, NoRow, EventOf
  <2>3. QED
    BY <1>b, <2>1, <2>2
<1>1. CASE ClaimOne(w)
  <2>1. PICK j \in JobId :
          /\ Claimable(j) /\ job' = [job EXCEPT ![j] = Claimed(@, w)]
          /\ cur' = [cur EXCEPT ![w] = [job |-> j, attempts |-> job[j].attempts + 1]]
    BY <1>1 DEF ClaimOne
  <2>2. pc' = [pc EXCEPT ![w] = "claimed"]
    BY <1>1 DEF ClaimOne
  <2>3. HoldsLease(w, cur[w].job)'
    BY <1>a, <2>1 DEF HoldsLease, Claimed, QueueTypeOK, JobRow
  <2>4. ASSUME NEW v \in Workers \ {w}, pc'[v] # "idle", HoldsLease(v, cur[v].job)
        PROVE  HoldsLease(v, cur[v].job)'
    <3>1. pc[v] # "idle" /\ cur'[v] = cur[v] /\ cur[v].job # j
      BY <1>a, <2>1, <2>2, <2>4 DEF HoldsLease, Claimable
    <3>2. job'[cur[v].job] = job[cur[v].job]
      BY <1>a, <2>1, <3>1 DEF QueueTypeOK
    <3>3. QED
      BY <2>4, <3>1, <3>2 DEF HoldsLease
  <2>5. \A v \in Workers \ {w} : pc'[v] = pc[v] /\ cur'[v] = cur[v]
    BY <1>a, <2>1, <2>2
  <2>6. QED
    BY <1>a, <1>c, <2>3, <2>4, <2>5, StandsIfHeld
<1>2. CASE Records(w) /\ Ends(w)
  <2> DEFINE j == cur[w].job
  <2>1. HoldsLease(w, j)
    BY <1>2, RecorderHolds
  <2>2. \A i \in JobId \ {j} : job'[i] = job[i]
    BY <1>2, <1>a DEF Records, RecordsHandled, RecordsFailed, Acked, Failed, Retried, QueueTypeOK
  <2>3. /\ pc'[w] = "idle"
        /\ \A v \in Workers \ {w} : pc'[v] = pc[v] /\ cur'[v] = cur[v]
    BY <1>2, <1>a DEF Ends
  <2>4. ASSUME NEW v \in Workers \ {w}, pc'[v] # "idle", HoldsLease(v, cur[v].job)
        PROVE  HoldsLease(v, cur[v].job)'
    <3>1. cur[v].job \in JobId \ {j}
      BY <1>a, <2>1, <2>3, <2>4 DEF HoldsLease
    <3>2. QED
      BY <2>2, <2>3, <2>4, <3>1 DEF HoldsLease
  <2>5. QED
    BY <1>a, <1>c, <2>3, <2>4, StandsIfHeld
<1>3. CASE /\ UNCHANGED job
           /\ \A v \in Workers : pc'[v] # "idle" => pc[v] # "idle" /\ cur'[v] = cur[v]
  <2>1. \A v \in Workers :
          pc'[v] # "idle" /\ HoldsLease(v, cur[v].job) => HoldsLease(v, cur[v].job)'
    BY <1>3 DEF HoldsLease
  <2>2. QED
    BY <1>3, <1>a, <1>c, <2>1, StandsIfHeld
<1>4. CASE Unreadable(w) \/ BeginHandling(w) \/ RollBack(w) \/ RecordRefused(w) \/ Crash(w)
  BY <1>4, <1>3, <1>a
     DEF Unreadable, BeginHandling, RollBack, RecordRefused, Crash, Ends, inboxVars
<1>5. CASE DeadLetter(w) \/ Commit(w) \/ RecordFailure(w)
  <2>1. Ends(w)
    BY <1>5 DEF DeadLetter, Commit, RecordFailure
  <2>2. Records(w)
    BY <1>5, <1>a, EndsRecords DEF AnyInv
  <2>3. QED
    BY <1>2, <2>1, <2>2
<1>6. QED
  BY <1>1, <1>4, <1>5 DEF Step

\* What operators do elsewhere, and what expires behind a worker that gave up.
LEMMA OperatorStands ==
  ASSUME UndisturbedInv, Operator, ElsewhereOnly
  PROVE  ClaimsStand'
<1>a. /\ AnyInv /\ BindingTypeOK /\ ClaimsStand /\ QueueAgrees /\ TablesOK /\ QueueTypeOK
      /\ InboxNext /\ UNCHANGED <<pc, cur>>
  BY DEF UndisturbedInv, AnyInv, LinkInv, TablesOK, Operator, workerVars
<1>b. JobsAge
  BY <1>a, OperatorAges
<1>c. \A e \in EventId : event[e].status = "pruned" => event'[e].status = "pruned"
  BY <1>a, OperatorMoves
<1>1. SUFFICES ASSUME NEW v \in Workers, pc[v] # "idle"
               PROVE  \/ HoldsLease(v, cur[v].job)'
                      \/ /\ job'[cur[v].job].state # "unused"
                         /\ EventOf(cur[v])' \in EventId
                         /\ event'[EventOf(cur[v])'].status = "pruned"
  BY <1>a DEF ClaimsStand
<1>2. cur[v].job \in JobId /\ cur[v] # NoClaim
  BY <1>1, <1>a, BusyHasClaim DEF Claim, BindingTypeOK
<1>3. job[cur[v].job].state # "unused"
  BY <1>1, <1>a DEF ClaimsStand, HoldsLease
<1>4. job'[cur[v].job].state # "unused" /\ EventOf(cur[v])' = EventOf(cur[v])
  BY <1>a, <1>b, <1>2, <1>3 DEF JobsAge, EventOf
<1>5. EventOf(cur[v]) \in EventId
  BY <1>1, <1>2, <1>a, HeldIsLive DEF ClaimsStand, QueueAgrees, FinishedIsNotQueued, EventOf
<1>6. CASE HoldsLease(v, cur[v].job) /\ LeavesAlone(cur[v])
  BY <1>6, <1>a DEF LeavesAlone, HoldsLease
<1>7. CASE Prunes(cur[v])
  BY <1>4, <1>5, <1>7 DEF Prunes
<1>8. CASE event[EventOf(cur[v])].status = "pruned"
  BY <1>4, <1>5, <1>8, <1>c
<1>9. QED
  BY <1>1, <1>2, <1>6, <1>7, <1>8, <1>a DEF ClaimsStand, ElsewhereOnly

\* Only leases of claims that were given up run out.
LEMMA ExpiryStands ==
  ASSUME UndisturbedInv, NEW j \in JobId, LeaseExpires(j)
  PROVE  ClaimsStand'
<1>a. BindingTypeOK /\ ClaimsStand /\ QueueTypeOK /\ UNCHANGED <<event, pc, cur>>
  BY DEF UndisturbedInv, AnyInv, BindingTypeOK, LeaseExpires, Expire
<1>b. JobsAge /\ job' = [job EXCEPT ![j].expired = TRUE]
  BY <1>a, QueueIfExpired DEF OnlyQueue, LeaseExpires, Expire
<1>1. ASSUME NEW v \in Workers, pc'[v] # "idle"
      PROVE  \/ HoldsLease(v, cur[v].job)'
             \/ pc[v] # "idle" /\ cur'[v] = cur[v] /\ ~HoldsLease(v, cur[v].job)
  <2>1. cur[v].job \in JobId
    BY <1>1, <1>a, BusyHasClaim DEF Claim
  <2>2. CASE HoldsLease(v, cur[v].job)
    <3>1. cur[v].job # j
      BY <2>2 DEF HoldsLease, LeaseExpires, Abandoned
    <3>2. job'[cur[v].job] = job[cur[v].job]
      BY <1>a, <1>b, <2>1, <3>1 DEF QueueTypeOK
    <3>3. QED
      BY <1>a, <2>2, <3>2 DEF HoldsLease
  <2>3. QED
    BY <1>1, <1>a, <2>2
<1>2. QED
  BY <1>1, <1>a, <1>b, StandsIfHeld

\* Every step the conditions allow keeps queue and inbox together, and none but an
\* operator's reopens what is settled.
LEMMA UndisturbedStep ==
  ASSUME UndisturbedInv, [UndisturbedNext]_vars
  PROVE  UndisturbedInv' /\ OperatorsReopen
<1>a. /\ AnyInv /\ BindingTypeOK /\ QueueAgrees /\ CommitsArePaidFor /\ ClaimsStand
      /\ TablesOK /\ QueueTypeOK /\ TablesAgree
  BY DEF UndisturbedInv, AnyInv, LinkInv, TablesOK, TablesAgree
<1>b. AnyInv'
  BY <1>a, UndisturbedAny
<1>c. OnlyQueue => QueueAgrees' /\ CommitsArePaidFor' /\ OperatorsReopen
  BY <1>a, AgreesIfKept, QueuePays DEF OnlyQueue, OperatorsReopen
<1>1. CASE UNCHANGED vars
  <2>1. OnlyQueue
    BY <1>1, <1>a, QueueIfUnchanged DEF vars, inboxVars
  <2>2. ClaimsStand'
    BY <1>1, <1>a DEF vars, inboxVars, workerVars, ClaimsStand, HoldsLease, EventOf
  <2>3. QED
    BY <1>b, <1>c, <2>1, <2>2 DEF UndisturbedInv
<1>2. CASE Operator /\ ElsewhereOnly
  <2>1. QueueAgrees' /\ OperatorsReopen
    BY <1>2, <1>a, OperatorAgrees, OperatorReopens DEF Operator
  <2>2. CommitsArePaidFor'
    BY <1>2, <1>a, OperatorAges, OperatorPays DEF Operator
  <2>3. QED
    BY <1>2, <1>b, <2>1, <2>2, OperatorStands DEF UndisturbedInv
<1>3. ASSUME NEW w \in Workers, Step(w) \/ Crash(w)
      PROVE  UndisturbedInv' /\ OperatorsReopen
  <2>1. CASE Records(w)
    <3>1. CommitsArePaidFor'
      BY <1>a, <2>1, RecorderHolds, RecordsPay
    <3>2. QED
      BY <1>3, <1>b, <2>1, <3>1, RecordsAgree, StepStands DEF UndisturbedInv
  <2>2. CASE OnlyQueue
    BY <1>3, <1>b, <1>c, <2>2, StepStands DEF UndisturbedInv
  <2>3. QED
    BY <1>3, <1>a, <2>1, <2>2, StepKinds
<1>4. ASSUME NEW j \in JobId, LeaseExpires(j)
      PROVE  UndisturbedInv' /\ OperatorsReopen
  <2>1. OnlyQueue
    BY <1>4, <1>a, QueueIfExpired DEF LeaseExpires
  <2>2. QED
    BY <1>4, <1>b, <1>c, <2>1, ExpiryStands DEF UndisturbedInv
<1>5. QED
  BY <1>1, <1>2, <1>3, <1>4 DEF UndisturbedNext

\* Queue and inbox agree throughout.
LEMMA UndisturbedInvariant == UndisturbedSpec => []UndisturbedInv
<1>1. Init => UndisturbedInv
  BY AnyInit, AgreesInit, PaidInit DEF Init, WorkerInit, UndisturbedInv, ClaimsStand
<1>2. UndisturbedInv /\ [UndisturbedNext]_vars => UndisturbedInv'
  BY UndisturbedStep
<1>3. QED
  BY <1>1, <1>2, PTL DEF UndisturbedSpec

\* While leases outlive handlers and operators keep off events at work, an event received
\* or failed is in the queue: the outcomes the other bindings do not check strand nothing.
THEOREM UndisturbedQueued == UndisturbedSpec => []UnfinishedIsQueued
<1>1. UndisturbedInv => UnfinishedIsQueued
  BY DEF UndisturbedInv, QueueAgrees
<1>2. QED
  BY <1>1, UndisturbedInvariant, PTL

\* Under the same conditions nothing finished or pruned is left in the queue to run again.
THEOREM UndisturbedCleared == UndisturbedSpec => []FinishedIsNotQueued
<1>1. UndisturbedInv => FinishedIsNotQueued
  BY DEF UndisturbedInv, QueueAgrees
<1>2. QED
  BY <1>1, UndisturbedInvariant, PTL

\* Under the same conditions no binding commits a handler's writes twice for one enqueue,
\* whether it looks at the result of honker_ack or not.
THEOREM UndisturbedPaid == UndisturbedSpec => []CommitsArePaidFor
<1>1. UndisturbedInv => CommitsArePaidFor
  BY DEF UndisturbedInv
<1>2. QED
  BY <1>1, UndisturbedInvariant, PTL

\* Under the same conditions only an operator's call leaves handled or dead.
THEOREM UndisturbedSettles == UndisturbedSpec => UndisturbedSettled
<1>1. UndisturbedInv /\ [UndisturbedNext]_vars => [OperatorsReopen]_vars
  BY UndisturbedStep
<1>2. QED
  BY <1>1, UndisturbedInvariant, PTL DEF UndisturbedSpec, UndisturbedSettled

\* What the lifecycle allows is allowed without the look at ignored.
LEMMA LifeIsHeedless == LifeStep => HeedlessStep
BY DEF LifeStep, HeedlessStep, Lifecycle!HeedlessNext

\* An outcome recorded under a standing claim is a commit, a failure or the last one.
LEMMA RecordsFollow ==
  ASSUME UndisturbedInv, NEW w \in Workers, Records(w)
  PROVE  HeedlessStep
<1> DEFINE j == cur[w].job
           e == job[j].event
           n == cur[w].attempts
<1>a. TablesAgree /\ QueueAgrees /\ event \in [EventId -> EventRow]
  BY DEF UndisturbedInv, AnyInv, LinkInv, TablesOK, TablesAgree, InboxTypeOK
<1>b. HoldsLease(w, j) /\ Live(j) /\ j \in JobId /\ n \in Nat
  BY RecorderHolds, HeldIsLive DEF Records, Claim
<1>c. event[e] \in EventRow
  BY <1>a, <1>b, LiveIsStored
<1>1. CASE RecordsHandled(w)
  <2> DEFINE row == MarkHandled(MarkProcessing(event[e], n))
  <2>1. /\ event' = [event EXCEPT ![e] = row] /\ job' = Acked(job, j)
        /\ attempts' = WithAttempt(e, "handled")
    BY <1>1, <1>b DEF RecordsHandled, EventOf
  <2>2. row.status = "handled"
    BY <1>b, <1>c, OutcomeStatus
  <2> HIDE DEF row, j, n
  <2>3. QED
    BY <1>a, <1>b, <2>1, <2>2, LifeCommit
<1>2. ASSUME NEW t \in BOOLEAN, RecordsFailed(w, t)
      PROVE  HeedlessStep
  <2> DEFINE row == MarkFailed(event[e], n, t)
  <2>1. /\ event' = [event EXCEPT ![e] = row]
        /\ job' = IF t THEN Failed(job, j) ELSE Retried(job, j)
        /\ attempts' = WithAttempt(e, FailedOutcome(t))
    BY <1>2, <1>b DEF RecordsFailed, EventOf
  <2>2. row.status = FailedOutcome(t)
    BY <1>b, <1>c, OutcomeStatus
  <2> HIDE DEF row, j, n
  <2>3. LifeStep
    BY <1>a, <1>b, <2>1, <2>2, LifeFailure
  <2>4. QED
    BY <2>3, LifeIsHeedless
<1>3. QED
  BY <1>1, <1>2 DEF Records

\* Every step the conditions allow is one of the lifecycle without the look at ignored.
LEMMA UndisturbedFollowsStep ==
  ASSUME UndisturbedInv, [UndisturbedNext]_vars
  PROVE  HeedlessStep
<1>a. AnyInv /\ QueueTypeOK /\ TablesAgree
  BY DEF UndisturbedInv, AnyInv, LinkInv, TablesOK, TablesAgree
<1>b. OnlyQueue => HeedlessStep
  BY LifeStutter, LifeIsHeedless DEF OnlyQueue
<1>1. CASE UNCHANGED vars
  BY <1>1, <1>a, <1>b, QueueIfUnchanged DEF vars, inboxVars
<1>2. CASE Operator
  BY <1>2, <1>a, LifeOperator, LifeIsHeedless DEF Operator
<1>3. ASSUME NEW w \in Workers, Step(w) \/ Crash(w)
      PROVE  HeedlessStep
  BY <1>3, <1>a, <1>b, StepKinds, RecordsFollow
<1>4. ASSUME NEW j \in JobId, LeaseExpires(j)
      PROVE  HeedlessStep
  BY <1>4, <1>a, <1>b, QueueIfExpired DEF LeaseExpires
<1>5. QED
  BY <1>1, <1>2, <1>3, <1>4 DEF UndisturbedNext

\* Under the same conditions the workers of every binding implement the event lifecycle with
\* one exception: they do not look at the status (run_worker_once of Node and the others), so
\* the run owed to an event that was ignored before the claim may be committed.
THEOREM UndisturbedFollows == UndisturbedSpec => UndisturbedLifecycle
<1>1. Init => Lifecycle!LifeInit
  BY LifeStart DEF Init
<1>2. UndisturbedInv /\ [UndisturbedNext]_vars
        => [Lifecycle!HeedlessNext]_(Lifecycle!lifeVars)
  BY UndisturbedFollowsStep DEF HeedlessStep
<1>3. QED
  BY <1>1, <1>2, UndisturbedInvariant, PTL
     DEF UndisturbedSpec, UndisturbedLifecycle, Lifecycle!HeedlessSpec
=============================================================================
