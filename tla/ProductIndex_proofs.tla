------------------------- MODULE ProductIndex_proofs -------------------------
(* Machine-checked facts about ProductIndex, for any number of processes,      *)
(* builds, revisions, attempts and faults.                                     *)
EXTENDS ProductIndex, TLAPS

Job == [state : JobState, doc : Document, owner : Processes \cup {Nobody}, lapsed : BOOLEAN,
        attempts : 0..MaxAttempts, review : BOOLEAN]
Vector == [rev : 0..MaxRevision, model : Models, doc : Document]
Poller == [pc : PC, rev : Revisions, pending : BOOLEAN]
Keys == Revisions \X Models

-----------------------------------------------------------------------------
(* The inductive invariant.                                                    *)

\* The vector is of no revision to come; at the product's own, it is of what the product is.
VectorCurrent ==
    /\ vector.rev <= product.rev
    /\ vector.rev = product.rev =>
         \E b \in Builds : b.model = vector.model /\ vector.doc = DocumentOf(product, preset, b)

\* An embedding under way is paid for, and is the only one of its job.
CallsPaid ==
    /\ \A p \in Processes : At(p, "calling") => usage[Key(p)] = "held"
    /\ \A p, q \in Processes : At(p, "calling") /\ At(q, "calling") /\ Key(p) = Key(q) => p = q

IInv == TypeOK /\ VectorCurrent /\ CallsPaid

-----------------------------------------------------------------------------
(* What follows from it, beside the properties of ProductIndex.                *)

\* What an embedding was paid for stays paid: it is replayed, never bought again.
PaymentsStand == [][\A k \in Keys : usage[k] = "settled" => usage'[k] = "settled"]_vars

\* What the search serves was embedded from what the product is now, as some build of
\* that model writes its document.
ServedIsOfABuild ==
  \A p \in Processes :
    Served(build[p].model) =>
      \E b \in Builds : b.model = build[p].model /\ vector.doc = DocumentOf(product, preset, b)

-----------------------------------------------------------------------------
(* Types.                                                                      *)

LEMMA BuildTypes ==
  ASSUME NEW b \in Builds
  PROVE  b.model \in Models /\ b.labels \in Labels
BY DEF Models, Labels

LEMMA DocumentTypes ==
  ASSUME NEW prod, prod.content \in Contents, NEW pre \in Presets, NEW b \in Builds
  PROVE  DocumentOf(prod, pre, b) \in Document
BY BuildTypes DEF DocumentOf, Document

LEMMA NewJobTypes ==
  /\ \A d \in Document : NewJob(d) \in Job
  /\ NoJob \in Job /\ NoJob.owner = Nobody /\ NoJob.state = "NONE"
  /\ NoVector \in Vector /\ NoVector.rev = 0
<1>1. \A d \in Document : NewJob(d) \in Job /\ NewJob(d).owner = Nobody /\ NewJob(d).doc = d
  BY BoundsAssumption DEF NewJob, Job, JobState
<1>2. (CHOOSE m \in Models : TRUE) \in Models /\ (CHOOSE d \in Document : TRUE) \in Document
  <2>1. PICK b \in Builds, x \in Contents, y \in Presets : TRUE
    BY SetsAssumption
  <2>2. b.model \in Models /\ [content |-> x, preset |-> y, labels |-> b.labels] \in Document
    BY BuildTypes DEF Document
  <2> QED
    BY <2>2
<1> DEFINE j == NewJob(CHOOSE d \in Document : TRUE)
<1>3. j \in Job /\ j.owner = Nobody /\ j.doc \in Document
  BY <1>1, <1>2
<1>4. NoJob = [j EXCEPT !.state = "NONE"]
  BY DEF NoJob
<1> HIDE DEF j
<1>5. NoJob \in Job
  BY <1>3, <1>4, Zenon DEF Job, JobState
<1>6. NoJob.owner = Nobody /\ NoJob.state = "NONE" /\ NoJob.doc \in Document
  BY <1>3, <1>4 DEF Job
<1>7. NoVector \in Vector /\ NoVector.rev = 0
  BY <1>2, <1>6, BoundsAssumption DEF NoVector, Vector
<1> QED
  BY <1>1, <1>5, <1>6, <1>7

\* A job under its key, with an owner exactly while it runs.
Sound(j) == j \in Job /\ ((j.state = "RUNNING") <=> (j.owner # Nobody))

LEMMA JobsTypes ==
  TypeOK <=> /\ product \in [active : BOOLEAN, rev : Revisions, content : Contents]
             /\ preset \in Presets
             /\ jobs \in [Keys -> Job] /\ \A k \in Keys : Sound(jobs[k])
             /\ vector \in Vector
             /\ usage \in [Keys -> {"free", "held", "settled"}]
             /\ build \in [Processes -> Builds]
             /\ proc \in [Processes -> Poller]
             /\ faults \in 0..MaxFaults
<1>1. jobs \in [Keys -> Job] => DOMAIN jobs = Keys
  OBVIOUS
<1>2. ASSUME jobs \in [Keys -> Job], NEW k \in Keys
      PROVE  Sound(jobs[k]) <=> ((jobs[k].state = "RUNNING") = (jobs[k].owner # Nobody))
  BY <1>2 DEF Sound
<1> QED
  BY <1>1, <1>2 DEF TypeOK, Keys, Job, Vector, Poller

\* The key a poller works under.
LEMMA KeyTypes ==
  ASSUME TypeOK, NEW p \in Processes
  PROVE  Key(p) \in Keys /\ Key(p)[1] = proc[p].rev /\ build[p] \in Builds
BY BuildTypes, JobsTypes DEF Key, Keys, Poller

\* What a step may write into the jobs' table.
LEMMA JobWritten ==
  ASSUME TypeOK, NEW k \in Keys, NEW j, Sound(j), jobs' = [jobs EXCEPT ![k] = j]
  PROVE  jobs' \in [Keys -> Job] /\ \A i \in Keys : Sound(jobs'[i])
BY JobsTypes DEF Sound

LEMMA EnqueuedTypes ==
  ASSUME TypeOK, NEW prod \in [active : BOOLEAN, rev : Revisions, content : Contents],
         NEW pre \in Presets, NEW b \in Builds
  PROVE  /\ Enqueued(prod, pre, b) \in [Keys -> Job]
         /\ \A i \in Keys : Sound(Enqueued(prod, pre, b)[i])
<1> DEFINE k == <<prod.rev, b.model>>
           j == NewJob(DocumentOf(prod, pre, b))
<1>1. k \in Keys
  BY BuildTypes DEF Keys
<1>2. DocumentOf(prod, pre, b) \in Document
  BY DocumentTypes
<1>3. j \in Job /\ j.state = "PENDING" /\ j.owner = Nobody
  BY <1>2, NewJobTypes DEF NewJob
<1>4. Sound(j)
  BY <1>3 DEF Sound
<1>5. jobs \in [Keys -> Job] /\ \A i \in Keys : Sound(jobs[i])
  BY JobsTypes
<1>6. Enqueued(prod, pre, b) = jobs \/ Enqueued(prod, pre, b) = [jobs EXCEPT ![k] = j]
  BY DEF Enqueued
<1> HIDE DEF j, k
<1> QED
  BY <1>1, <1>3, <1>4, <1>5, <1>6

\* The poller goes on, or gives the row up.
LEMMA EndedTypes ==
  ASSUME TypeOK, NEW p \in Processes, NEW state \in JobState \ {"RUNNING"}
  PROVE  /\ Ended(p, state) \in [Keys -> Job]
         /\ \A i \in Keys : Sound(Ended(p, state)[i])
<1> DEFINE j == [jobs[Key(p)] EXCEPT !.state = state, !.owner = Nobody, !.lapsed = FALSE]
<1>1. Key(p) \in Keys /\ jobs \in [Keys -> Job] /\ \A i \in Keys : Sound(jobs[i])
  BY KeyTypes, JobsTypes
<1>2. jobs[Key(p)] \in Job
  BY <1>1
<1>3. j \in Job
  BY <1>2, Zenon DEF Job
<1>4. j.state = state /\ j.owner = Nobody
  BY <1>2 DEF Job
<1>5. Sound(j)
  BY <1>3, <1>4 DEF Sound
<1>6. Ended(p, state) = [jobs EXCEPT ![Key(p)] = j]
  BY DEF Ended
<1> HIDE DEF j
<1> QED
  BY <1>1, <1>3, <1>5, <1>6
LEMMA InitTypes ==
  ASSUME Init
  PROVE  TypeOK
<1> DEFINE none == [k \in Keys |-> NoJob]
<1>1. product \in [active : BOOLEAN, rev : Revisions, content : Contents] /\ preset \in Presets
  BY BoundsAssumption DEF Init, Revisions
<1>2. none \in [Keys -> Job] /\ \A k \in Keys : Sound(none[k])
  BY NewJobTypes DEF Sound
<1>3. PICK b \in Builds :
        /\ build = [p \in Processes |-> b]
        /\ jobs = none \/ jobs = [none EXCEPT ![<<1, b.model>>] =
                                    NewJob(DocumentOf(product, preset, b))]
  BY DEF Init, Keys
<1>4. jobs \in [Keys -> Job] /\ \A k \in Keys : Sound(jobs[k])
  <2> DEFINE j == NewJob(DocumentOf(product, preset, b))
  <2>1. j \in Job /\ j.state = "PENDING" /\ j.owner = Nobody
    BY <1>1, DocumentTypes, NewJobTypes DEF NewJob
  <2>2. Sound(j)
    BY <2>1 DEF Sound
  <2>3. <<1, b.model>> \in Keys
    BY BuildTypes, BoundsAssumption DEF Keys, Revisions
  <2> HIDE DEF j
  <2> QED
    BY <1>2, <1>3, <2>1, <2>2, <2>3 DEF j
<1>5. vector \in Vector /\ usage \in [Keys -> {"free", "held", "settled"}]
  BY NewJobTypes DEF Init, Keys
<1>6. proc \in [Processes -> Poller] /\ build \in [Processes -> Builds] /\ faults \in 0..MaxFaults
  BY <1>3, BoundsAssumption DEF Init, Idle, Poller, PC, Revisions
<1> QED
  BY <1>1, <1>4, <1>5, <1>6, JobsTypes

\* A poller goes on alone.
Moves(p, pc) ==
  /\ proc' \in [Processes -> Poller]
  /\ proc'[p].pc = pc
  /\ \A q \in Processes : q # p => proc'[q] = proc[q]

LEMMA PollerMoves ==
  ASSUME TypeOK, NEW p \in Processes
  PROVE  /\ \A pc \in PC : Goto(p, pc) => Moves(p, pc) /\ proc'[p].rev = proc[p].rev
         /\ \A pending \in BOOLEAN : Fail(p, pending) => Moves(p, "fail")
         /\ Rest(p) => Moves(p, "idle")
<1>1. proc \in [Processes -> Poller] /\ proc[p] \in Poller
  BY JobsTypes
<1>2. ASSUME NEW pc \in PC, Goto(p, pc)
      PROVE  Moves(p, pc) /\ proc'[p].rev = proc[p].rev
  <2>1. proc' = [proc EXCEPT ![p] = [proc[p] EXCEPT !.pc = pc]]
    BY <1>2 DEF Goto
  <2>2. [proc[p] EXCEPT !.pc = pc] \in Poller
    BY <1>1, Zenon DEF Poller
  <2> QED
    BY <1>1, <2>1, <2>2 DEF Poller, Moves
<1>3. ASSUME NEW pending \in BOOLEAN, Fail(p, pending)
      PROVE  Moves(p, "fail")
  <2>1. proc' = [proc EXCEPT ![p] = [proc[p] EXCEPT !.pc = "fail", !.pending = pending]]
    BY <1>3 DEF Fail
  <2>2. [proc[p] EXCEPT !.pc = "fail", !.pending = pending] \in Poller
    BY <1>1, Zenon DEF Poller, PC
  <2> QED
    BY <1>1, <2>1, <2>2 DEF Poller, Moves
<1>4. ASSUME Rest(p)
      PROVE  Moves(p, "idle")
  BY <1>1, <1>4, BoundsAssumption DEF Rest, Idle, Poller, PC, Revisions, Moves
<1> QED
  BY <1>2, <1>3, <1>4
-----------------------------------------------------------------------------
(* Every step keeps the types: the steps that write the jobs, then the others. *)

JobsTyped == jobs' \in [Keys -> Job] /\ \A k \in Keys : Sound(jobs'[k])

LEMMA EditTypes ==
  ASSUME TypeOK, NEW p \in Processes, CatalogCommand(p)
  PROVE  JobsTyped /\ product' \in [active : BOOLEAN, rev : Revisions, content : Contents]
<1>1. /\ product \in [active : BOOLEAN, rev : Revisions, content : Contents]
      /\ preset \in Presets /\ build[p] \in Builds
      /\ jobs \in [Keys -> Job] /\ \A k \in Keys : Sound(jobs[k])
  BY JobsTypes
<1>2. ASSUME NEW c \in Contents, NEW a \in BOOLEAN, SaveSearchable(p, c, a)
      PROVE  JobsTyped /\ product' \in [active : BOOLEAN, rev : Revisions, content : Contents]
  <2>1. product' \in [active : BOOLEAN, rev : Revisions, content : Contents]
    BY <1>1, <1>2, BoundsAssumption DEF SaveSearchable, Revisions
  <2>2. jobs' = Enqueued(product', preset, build[p])
    BY <1>2 DEF SaveSearchable
  <2> QED
    BY <1>1, <2>1, <2>2, EnqueuedTypes DEF JobsTyped
<1>3. ASSUME Reindex(p)
      PROVE  JobsTyped /\ product' = product
  <2> DEFINE k == <<product.rev, build[p].model>>
             rows == Enqueued(product, preset, build[p])
             j == [rows[k] EXCEPT !.state = "PENDING", !.attempts = 0]
  <2>1. rows \in [Keys -> Job] /\ \A i \in Keys : Sound(rows[i])
    BY <1>1, EnqueuedTypes
  <2>2. k \in Keys /\ 0 \in 0..MaxAttempts
    BY <1>1, BuildTypes, BoundsAssumption DEF Keys
  <2>3. rows[k] \in Job /\ Sound(rows[k])
    BY <2>1, <2>2
  <2>4. j \in Job
    BY <2>2, <2>3, Zenon DEF Job, JobState
  <2>5. j.state = "PENDING" /\ j.owner = rows[k].owner
    BY <2>3 DEF Job
  <2>6. jobs' = rows \/ (rows[k].state = "FAILED" /\ jobs' = [rows EXCEPT ![k] = j])
    BY <1>3 DEF Reindex
  <2>7. rows[k].state = "FAILED" => Sound(j)
    BY <2>3, <2>4, <2>5 DEF Sound
  <2> HIDE DEF k, rows, j
  <2>8. JobsTyped
    BY <2>1, <2>2, <2>4, <2>6, <2>7 DEF JobsTyped
  <2> QED
    BY <1>3, <2>8 DEF Reindex, catalogVars
<1> QED
  BY <1>1, <1>2, <1>3 DEF CatalogCommand, UpdateProduct, CreateVariant, UpdateVariant

LEMMA ClaimTypes ==
  ASSUME TypeOK, NEW p \in Processes, NEW r \in Revisions, Claim(p, r)
  PROVE  JobsTyped /\ Moves(p, "check")
<1> DEFINE k == <<r, build[p].model>>
           n == jobs[k].attempts
           m == IF n < MaxAttempts THEN n + 1 ELSE n
           j == [jobs[k] EXCEPT !.state = "RUNNING", !.owner = p, !.lapsed = FALSE,
                                !.review = FALSE, !.attempts = m]
<1>1. k \in Keys /\ proc \in [Processes -> Poller]
  BY KeyTypes, BuildTypes, JobsTypes DEF Keys
<1>2. jobs[k] \in Job
  BY <1>1, JobsTypes
<1>3. n \in 0..MaxAttempts
  BY <1>2 DEF Job
<1>4. m \in 0..MaxAttempts
  BY <1>3, BoundsAssumption
<1>5. jobs' = [jobs EXCEPT ![k] = j]
  BY DEF Claim
<1> HIDE DEF m
<1>6. j \in Job
  BY <1>2, <1>4, Zenon DEF Job, JobState
<1>7. j.state = "RUNNING" /\ j.owner = p /\ p # Nobody
  BY <1>2, SetsAssumption DEF Job
<1>8. Sound(j)
  BY <1>6, <1>7 DEF Sound
<1>9. Moves(p, "check")
  BY <1>1 DEF Claim, Moves, Poller, PC
<1> HIDE DEF j, k
<1> QED
  BY <1>1, <1>5, <1>8, <1>9, JobWritten DEF JobsTyped

\* The transaction that completes a job.
LEMMA CompletedTypes ==
  ASSUME TypeOK, NEW p \in Processes, CompleteJob(p)
  PROVE  /\ JobsTyped /\ vector' \in Vector
         /\ \/ vector' = vector
            \/ /\ Fresh(p) /\ vector'.rev = product.rev /\ vector'.model = build[p].model
               /\ vector'.doc = DocumentOf(product, preset, build[p])
<1>1. /\ vector \in Vector /\ jobs \in [Keys -> Job] /\ \A k \in Keys : Sound(jobs[k])
      /\ proc[p] \in Poller /\ Key(p) \in Keys /\ build[p].model \in Models
  BY JobsTypes, KeyTypes, BuildTypes
<1>2. JobsTyped
  <2>1. \A state \in {"DONE", "SUPERSEDED"} :
          Ended(p, state) \in [Keys -> Job] /\ \A k \in Keys : Sound(Ended(p, state)[k])
    BY EndedTypes DEF JobState
  <2> QED
    BY <1>1, <2>1, Zenon DEF CompleteJob, JobsTyped
<1>3. CASE vector' = vector
  BY <1>1, <1>2, <1>3
<1>4. CASE vector' # vector
  <2>1. Fresh(p) /\ vector' = [rev |-> proc[p].rev, model |-> build[p].model,
                               doc |-> jobs[Key(p)].doc]
    BY <1>4 DEF CompleteJob
  <2>2. jobs[Key(p)].doc \in Document /\ proc[p].rev \in 0..MaxRevision
    BY <1>1 DEF Job, Poller, Revisions
  <2> QED
    BY <1>1, <1>2, <2>1, <2>2 DEF Vector, Fresh
<1> QED
  BY <1>3, <1>4

LEMMA FailureTypes ==
  ASSUME TypeOK, NEW p \in Processes, RecordFailure(p)
  PROVE  JobsTyped
<1>1. PICK state \in {"FAILED", "PENDING"} :
        jobs' = jobs \/ jobs' = [Ended(p, state) EXCEPT ![Key(p)].review = proc[p].pending]
  BY DEF RecordFailure
<1> DEFINE rows == Ended(p, state)
           j == [rows[Key(p)] EXCEPT !.review = proc[p].pending]
<1>2. rows \in [Keys -> Job] /\ \A k \in Keys : Sound(rows[k])
  BY EndedTypes DEF JobState
<1>3. Key(p) \in Keys /\ proc[p].pending \in BOOLEAN
  BY KeyTypes, JobsTypes DEF Poller
<1>4. rows[Key(p)] \in Job /\ Sound(rows[Key(p)])
  BY <1>2, <1>3
<1>5. j \in Job
  BY <1>3, <1>4, Zenon DEF Job
<1>6. j.state = rows[Key(p)].state /\ j.owner = rows[Key(p)].owner
  BY <1>4 DEF Job
<1>7. Sound(j)
  BY <1>4, <1>5, <1>6 DEF Sound
<1>8. jobs' = jobs \/ jobs' = [rows EXCEPT ![Key(p)] = j]
  BY <1>1
<1>9. jobs \in [Keys -> Job] /\ \A k \in Keys : Sound(jobs[k])
  BY JobsTypes
<1> HIDE DEF rows, j
<1> QED
  BY <1>2, <1>3, <1>5, <1>7, <1>8, <1>9 DEF JobsTyped

LEMMA LapseTypes ==
  ASSUME TypeOK, NEW k \in Keys, Lapse(k)
  PROVE  JobsTyped
<1> DEFINE j == [jobs[k] EXCEPT !.lapsed = TRUE]
<1>1. jobs[k] \in Job /\ Sound(jobs[k])
  BY JobsTypes
<1>2. jobs' = [jobs EXCEPT ![k] = j]
  BY DEF Lapse
<1>3. j \in Job
  BY <1>1, Zenon DEF Job
<1>4. j.state = jobs[k].state /\ j.owner = jobs[k].owner
  BY <1>1 DEF Job
<1>5. Sound(j)
  BY <1>1, <1>3, <1>4 DEF Sound
<1> HIDE DEF j
<1> QED
  BY <1>2, <1>5, JobWritten DEF JobsTyped
\* The rest of a poll.
LEMMA PollTypes ==
  ASSUME TypeOK, NEW p \in Processes, Poll(p)
  PROVE  /\ JobsTyped /\ vector' \in Vector /\ proc' \in [Processes -> Poller]
         /\ usage' \in [Keys -> {"free", "held", "settled"}]
<1>1. /\ jobs \in [Keys -> Job] /\ \A k \in Keys : Sound(jobs[k])
      /\ usage \in [Keys -> {"free", "held", "settled"}] /\ vector \in Vector
  BY JobsTypes
<1>2. jobs' = jobs => JobsTyped
  BY <1>1 DEF JobsTyped
<1>3. CASE FindMissing(p) \/ Proceed(p) \/ Replay(p) \/ PaymentPending(p) \/ Refused(p)
             \/ CallUnrecorded(p)
  <2>1. \/ \E pc \in PC : Goto(p, pc)
        \/ \E pending \in BOOLEAN : Fail(p, pending)
    BY <1>3 DEF FindMissing, Proceed, Replay, PaymentPending, Refused, CallUnrecorded, PC
  <2>2. UNCHANGED <<jobs, vector, usage>>
    BY <1>3 DEF FindMissing, Proceed, Replay, PaymentPending, Refused, CallUnrecorded
  <2> QED
    BY <1>1, <1>2, <2>1, <2>2, PollerMoves DEF Moves
<1>4. CASE Backfill(p)
  <2>1. jobs' = Enqueued(product, preset, build[p])
    BY <1>4 DEF Backfill
  <2>2. JobsTyped
    BY <2>1, EnqueuedTypes, JobsTypes DEF JobsTyped
  <2> QED
    BY <1>1, <1>4, <2>2, PollerMoves DEF Backfill, Moves
<1>5. ASSUME NEW r \in Revisions, Claim(p, r)
      PROVE  JobsTyped /\ proc' \in [Processes -> Poller] /\ UNCHANGED <<vector, usage>>
  <2>1. JobsTyped /\ Moves(p, "check")
    BY <1>5, ClaimTypes
  <2> QED
    BY <1>5, <2>1 DEF Claim, Moves
<1>6. CASE Supersede(p)
  <2>1. jobs' = Ended(p, "SUPERSEDED") \/ jobs' = jobs
    BY <1>6 DEF Supersede
  <2>2. JobsTyped
    BY <1>2, <2>1, EndedTypes DEF JobsTyped, JobState
  <2> QED
    BY <1>1, <1>6, <2>2, PollerMoves DEF Supersede, Moves
<1>7. CASE StartCall(p) \/ CallSettles(p) \/ CallFails(p)
  <2>1. \/ \E pc \in PC : Goto(p, pc)
        \/ \E pending \in BOOLEAN : Fail(p, pending)
    BY <1>7 DEF StartCall, CallSettles, CallFails, PC
  <2>2. \E u \in {"free", "held", "settled"} : usage' = [usage EXCEPT ![Key(p)] = u]
    BY <1>7 DEF StartCall, CallSettles, CallFails
  <2>3. UNCHANGED <<jobs, vector>>
    BY <1>7 DEF StartCall, CallSettles, CallFails
  <2> QED
    BY <1>1, <1>2, <2>1, <2>2, <2>3, PollerMoves DEF Moves
<1>8. CASE Complete(p)
  <2>1. JobsTyped /\ vector' \in Vector
    BY <1>8, CompletedTypes DEF Complete
  <2> QED
    BY <1>1, <1>8, <2>1, PollerMoves DEF Complete, Moves
<1>9. CASE RecordFailure(p)
  <2>1. JobsTyped
    BY <1>9, FailureTypes
  <2> QED
    BY <1>1, <1>9, <2>1, PollerMoves DEF RecordFailure, Moves
<1> QED
  BY <1>1, <1>3, <1>4, <1>5, <1>6, <1>7, <1>8, <1>9 DEF Poll

LEMMA TypesAfter ==
  ASSUME product' \in [active : BOOLEAN, rev : Revisions, content : Contents],
         preset' \in Presets, JobsTyped, vector' \in Vector,
         usage' \in [Keys -> {"free", "held", "settled"}],
         build' \in [Processes -> Builds], proc' \in [Processes -> Poller],
         faults' \in 0..MaxFaults
  PROVE  TypeOK'
<1>1. jobs' \in [Keys -> Job] /\ \A k \in Keys : Sound(jobs'[k])
  BY DEF JobsTyped
<1>2. \A k \in DOMAIN jobs' : (jobs'[k].state = "RUNNING") = (jobs'[k].owner # Nobody)
  BY <1>1 DEF Sound
<1> QED
  BY <1>1, <1>2 DEF TypeOK, Keys, Job, Vector, Poller

LEMMA StepTypes ==
  ASSUME TypeOK, [Next]_vars
  PROVE  TypeOK'
<1>1. /\ product \in [active : BOOLEAN, rev : Revisions, content : Contents]
      /\ preset \in Presets /\ vector \in Vector /\ jobs \in [Keys -> Job]
      /\ \A k \in Keys : Sound(jobs[k])
      /\ usage \in [Keys -> {"free", "held", "settled"}] /\ build \in [Processes -> Builds]
      /\ proc \in [Processes -> Poller] /\ faults \in 0..MaxFaults
  BY JobsTypes
<1>2. jobs' = jobs => JobsTyped
  BY <1>1 DEF JobsTyped
<1>3. Fault => faults' \in 0..MaxFaults
  BY <1>1, BoundsAssumption DEF Fault
<1>4. ASSUME NEW p \in Processes, CatalogCommand(p)
      PROVE  TypeOK'
  <2>1. UNCHANGED <<preset, vector, usage, build, proc, faults>>
    BY <1>4 DEF CatalogCommand, UpdateProduct, CreateVariant, UpdateVariant, SaveSearchable,
                Reindex, catalogVars
  <2>2. JobsTyped /\ product' \in [active : BOOLEAN, rev : Revisions, content : Contents]
    BY <1>4, EditTypes
  <2> QED
    BY <1>1, <2>1, <2>2, TypesAfter
<1>5. ASSUME NEW p \in Processes, Poll(p)
      PROVE  TypeOK'
  <2>1. UNCHANGED <<product, preset, build, faults>>
    BY <1>5 DEF Poll, FindMissing, Backfill, Claim, Supersede, Proceed, Replay, PaymentPending,
                Refused, StartCall, CallSettles, CallFails, CallUnrecorded, Complete,
                RecordFailure, catalogVars
  <2>2. /\ JobsTyped /\ vector' \in Vector /\ proc' \in [Processes -> Poller]
        /\ usage' \in [Keys -> {"free", "held", "settled"}]
    BY <1>5, PollTypes
  <2> QED
    BY <1>1, <2>1, <2>2, TypesAfter
<1>6. ASSUME NEW p \in Processes, CompleteFails(p)
      PROVE  TypeOK'
  <2>1. /\ UNCHANGED <<product, preset, build, usage>>
        /\ Fail(p, FALSE) /\ Fault
        /\ CompleteJob(p) \/ UNCHANGED <<jobs, vector>>
    BY <1>6 DEF CompleteFails, catalogVars
  <2>2. JobsTyped /\ vector' \in Vector
    BY <1>1, <1>2, <2>1, CompletedTypes
  <2>3. proc' \in [Processes -> Poller]
    BY <2>1, PollerMoves DEF Moves
  <2> QED
    BY <1>1, <1>3, <2>1, <2>2, <2>3, TypesAfter
<1>7. ASSUME NEW p \in Processes, NEW b \in Builds, Restart(p, b)
      PROVE  TypeOK'
  <2>1. /\ UNCHANGED <<product, preset, jobs, vector, usage>>
        /\ Rest(p) /\ Fault /\ build' = [build EXCEPT ![p] = b]
    BY <1>7 DEF Restart, catalogVars
  <2>2. proc' \in [Processes -> Poller]
    BY <2>1, PollerMoves DEF Moves
  <2> QED
    BY <1>1, <1>2, <1>3, <2>1, <2>2, TypesAfter
<1>8. ASSUME NEW x \in Presets, ApplyPreset(x)
      PROVE  TypeOK'
  <2>1. product' \in [active : BOOLEAN, rev : Revisions, content : Contents]
    BY <1>1, <1>8, BoundsAssumption DEF ApplyPreset, Revisions
  <2> QED
    BY <1>1, <1>2, <1>8, <2>1, TypesAfter DEF ApplyPreset
<1>9. ASSUME NEW k \in Keys, ReviewUsage(k)
      PROVE  TypeOK'
  BY <1>1, <1>2, <1>9, TypesAfter DEF ReviewUsage, catalogVars
<1>10. ASSUME NEW k \in Keys, LeaseLapses(k) \/ WorkerIsSlow(k)
       PROVE  TypeOK'
  <2>1. Lapse(k) /\ (faults' = faults \/ Fault)
    BY <1>10 DEF LeaseLapses, WorkerIsSlow
  <2>2. JobsTyped /\ faults' \in 0..MaxFaults
    BY <1>1, <1>3, <2>1, LapseTypes
  <2> QED
    BY <1>1, <2>1, <2>2, TypesAfter DEF Lapse, catalogVars
<1>11. CASE UNCHANGED vars
  BY <1>1, <1>2, <1>11, TypesAfter DEF vars, catalogVars
<1> QED
  BY <1>4, <1>5, <1>6, <1>7, <1>8, <1>9, <1>10, <1>11 DEF Next, Keys
-----------------------------------------------------------------------------
(* Every step keeps the vector behind the product, and the calls paid for.     *)

LEMMA EditsOvertakeTheVector ==
  ASSUME TypeOK, VectorCurrent, product'.rev = product.rev + 1, vector' = vector
  PROVE  VectorCurrent'
<1>1. vector.rev \in Int /\ product.rev \in Int
  BY JobsTypes DEF Vector, Revisions
<1> QED
  BY <1>1 DEF VectorCurrent

LEMMA CompletionsAreCurrent ==
  ASSUME TypeOK, VectorCurrent, NEW p \in Processes, CompleteJob(p), UNCHANGED catalogVars
  PROVE  VectorCurrent'
<1>1. CASE vector' = vector
  BY <1>1 DEF VectorCurrent, catalogVars
<1>2. CASE vector' # vector
  <2>1. /\ vector'.rev = product.rev /\ vector'.model = build[p].model
        /\ vector'.doc = DocumentOf(product, preset, build[p])
    BY <1>2, CompletedTypes
  <2>2. build[p] \in Builds /\ product.rev \in Int
    BY JobsTypes DEF Revisions
  <2> QED
    BY <2>1, <2>2 DEF VectorCurrent, catalogVars
<1> QED
  BY <1>1, <1>2

LEMMA StepKeepsVectorCurrent ==
  ASSUME TypeOK, VectorCurrent, [Next]_vars
  PROVE  VectorCurrent'
<1>1. ASSUME UNCHANGED catalogVars, vector' = vector
      PROVE  VectorCurrent'
  BY <1>1 DEF VectorCurrent, catalogVars
<1>2. /\ product \in [active : BOOLEAN, rev : Revisions, content : Contents]
      /\ product.rev \in Int
  BY JobsTypes DEF Revisions
<1>3. ASSUME NEW p \in Processes, CatalogCommand(p)
      PROVE  VectorCurrent'
  <2>1. ASSUME NEW c, NEW a, SaveSearchable(p, c, a)
        PROVE  VectorCurrent'
    BY <2>1, EditsOvertakeTheVector DEF SaveSearchable
  <2>2. CASE Reindex(p)
    BY <1>1, <2>2 DEF Reindex
  <2> QED
    BY <1>3, <2>1, <2>2 DEF CatalogCommand, UpdateProduct, CreateVariant, UpdateVariant
<1>4. ASSUME NEW p \in Processes, Poll(p) \/ CompleteFails(p)
      PROVE  VectorCurrent'
  <2>1. UNCHANGED catalogVars /\ (vector' = vector \/ CompleteJob(p))
    BY <1>4 DEF Poll, FindMissing, Backfill, Claim, Supersede, Proceed, Replay, PaymentPending,
                Refused, StartCall, CallSettles, CallFails, CallUnrecorded, Complete,
                RecordFailure, CompleteFails
  <2> QED
    BY <1>1, <2>1, CompletionsAreCurrent
<1>5. ASSUME NEW x \in Presets, ApplyPreset(x)
      PROVE  VectorCurrent'
  BY <1>2, <1>5, EditsOvertakeTheVector DEF ApplyPreset
<1>6. CASE \/ \E p \in Processes, b \in Builds : Restart(p, b)
           \/ \E k \in Keys : ReviewUsage(k) \/ LeaseLapses(k) \/ WorkerIsSlow(k)
           \/ UNCHANGED vars
  BY <1>1, <1>6 DEF Restart, ReviewUsage, LeaseLapses, WorkerIsSlow, Lapse, vars
<1> QED
  BY <1>3, <1>4, <1>5, <1>6 DEF Next, Keys

\* Calls stay paid while a step neither starts one nor touches a payment.
LEMMA NoCallTouched ==
  ASSUME CallsPaid, UNCHANGED <<usage, build>>,
         \A p \in Processes : proc'[p].pc = "calling" => proc'[p] = proc[p]
  PROVE  CallsPaid'
BY DEF CallsPaid, At, Key

LEMMA StepKeepsCallsPaid ==
  ASSUME TypeOK, CallsPaid, [Next]_vars
  PROVE  CallsPaid'
<1>1. /\ proc \in [Processes -> Poller] /\ build \in [Processes -> Builds]
      /\ usage \in [Keys -> {"free", "held", "settled"}]
      /\ \A q \in Processes : Key(q) \in Keys
  BY JobsTypes, KeyTypes
<1>2. ASSUME NEW p \in Processes, StartCall(p)
      PROVE  CallsPaid'
  <2>1. /\ Moves(p, "calling") /\ proc'[p].rev = proc[p].rev
        /\ usage' = [usage EXCEPT ![Key(p)] = "held"] /\ build' = build
        /\ usage[Key(p)] = "free"
    BY <1>2, PollerMoves DEF StartCall, PC
  <2>2. \A q \in Processes \ {p} : At(q, "calling") => Key(q) # Key(p)
    BY <2>1 DEF CallsPaid
  <2>3. \A q \in Processes : Key(q)' = Key(q)
    BY <2>1 DEF Key, Moves
  <2>4. \A q \in Processes \ {p} : At(q, "calling")' <=> At(q, "calling")
    BY <2>1 DEF At, Moves
  <2>5. ASSUME NEW q \in Processes, At(q, "calling")'
        PROVE  usage'[Key(q)'] = "held"
    <3>1. CASE q = p
      BY <1>1, <2>1, <2>3, <3>1
    <3>2. CASE q # p
      <4>1. usage[Key(q)] = "held" /\ Key(q) # Key(p)
        BY <2>2, <2>4, <2>5, <3>2 DEF CallsPaid
      <4> QED
        BY <1>1, <2>1, <2>3, <4>1
    <3> QED
      BY <3>1, <3>2
  <2>6. ASSUME NEW q \in Processes, NEW s \in Processes,
               At(q, "calling")', At(s, "calling")', Key(q)' = Key(s)'
        PROVE  q = s
    BY <2>2, <2>3, <2>4, <2>6 DEF CallsPaid
  <2> QED
    BY <2>5, <2>6 DEF CallsPaid
<1>3. ASSUME NEW p \in Processes, CallSettles(p) \/ CallFails(p)
      PROVE  CallsPaid'
  <2>1. /\ \E pc \in PC : pc # "calling" /\ Moves(p, pc)
        /\ \E u : usage' = [usage EXCEPT ![Key(p)] = u]
        /\ build' = build /\ At(p, "calling")
    BY <1>3, PollerMoves DEF CallSettles, CallFails, PC
  <2>2. ~At(p, "calling")'
    BY <2>1 DEF At, Moves
  <2>3. \A q \in Processes \ {p} :
          /\ At(q, "calling")' <=> At(q, "calling")
          /\ Key(q)' = Key(q)
    BY <2>1 DEF At, Key, Moves
  <2>4. \A q \in Processes \ {p} : At(q, "calling") => Key(q) # Key(p)
    BY <2>1 DEF CallsPaid
  <2>5. \A q \in Processes \ {p} : At(q, "calling") => usage'[Key(q)] = "held"
    BY <1>1, <2>1, <2>4 DEF CallsPaid
  <2>6. \A q \in Processes : At(q, "calling")' => q # p /\ usage'[Key(q)'] = "held"
    BY <2>2, <2>3, <2>5
  <2> QED
    BY <2>3, <2>6 DEF CallsPaid
<1>4. ASSUME NEW p \in Processes, Poll(p) \/ CompleteFails(p),
             ~(StartCall(p) \/ CallSettles(p) \/ CallFails(p))
      PROVE  CallsPaid'
  <2>1. UNCHANGED <<usage, build>>
    BY <1>4 DEF Poll, FindMissing, Backfill, Claim, Supersede, Proceed, Replay, PaymentPending,
                Refused, CallUnrecorded, Complete, RecordFailure, CompleteFails
  <2>2. \/ \E pc \in PC \ {"calling"} : Goto(p, pc)
        \/ \E pending \in BOOLEAN : Fail(p, pending)
        \/ Rest(p)
        \/ \E r \in Revisions : Claim(p, r)
    BY <1>4 DEF Poll, FindMissing, Backfill, Supersede, Proceed, Replay, PaymentPending,
                Refused, CallUnrecorded, Complete, RecordFailure, CompleteFails, PC
  <2>3. \E pc \in PC \ {"calling"} : Moves(p, pc)
    BY <2>2, PollerMoves, ClaimTypes DEF PC
  <2> QED
    BY <2>1, <2>3, NoCallTouched DEF Moves
<1>5. ASSUME NEW p \in Processes, NEW b \in Builds, Restart(p, b)
      PROVE  CallsPaid'
  <2>1. Moves(p, "idle") /\ build' = [build EXCEPT ![p] = b] /\ usage' = usage
    BY <1>5, PollerMoves DEF Restart
  <2>2. /\ ~At(p, "calling")'
        /\ \A q \in Processes \ {p} : (At(q, "calling")' <=> At(q, "calling")) /\ Key(q)' = Key(q)
    BY <1>1, <2>1 DEF At, Key, Moves
  <2> QED
    BY <2>1, <2>2 DEF CallsPaid
<1>6. ASSUME NEW k \in Keys, ReviewUsage(k)
      PROVE  CallsPaid'
  <2>1. /\ \A q \in Processes : At(q, "calling") => Key(q) # k
        /\ usage' = [usage EXCEPT ![k] = "free"] /\ UNCHANGED <<build, proc>>
    BY <1>6 DEF ReviewUsage
  <2>2. \A q \in Processes : At(q, "calling")' = At(q, "calling") /\ Key(q)' = Key(q)
    BY <2>1 DEF At, Key
  <2> QED
    BY <1>1, <2>1, <2>2 DEF CallsPaid
<1>7. CASE \/ \E p \in Processes : CatalogCommand(p)
           \/ \E x \in Presets : ApplyPreset(x)
           \/ \E k \in Keys : LeaseLapses(k) \/ WorkerIsSlow(k)
           \/ UNCHANGED vars
  <2>1. UNCHANGED <<usage, build, proc>>
    BY <1>7 DEF CatalogCommand, UpdateProduct, CreateVariant, UpdateVariant, SaveSearchable,
                Reindex, ApplyPreset, LeaseLapses, WorkerIsSlow, Lapse, vars
  <2> QED
    BY <2>1, NoCallTouched
<1> QED
  BY <1>2, <1>3, <1>4, <1>5, <1>6, <1>7 DEF Next, Keys

-----------------------------------------------------------------------------
(* The results.                                                                *)

LEMMA Inductive ==
  /\ Init => IInv
  /\ IInv /\ [Next]_vars => IInv'
<1>1. ASSUME Init
      PROVE  IInv
  <2>1. TypeOK
    BY <1>1, InitTypes
  <2>2. VectorCurrent
    <3>1. vector.rev = 0 /\ product.rev = 1
      BY <1>1, NewJobTypes DEF Init
    <3> QED
      BY <3>1 DEF VectorCurrent
  <2>3. CallsPaid
    BY <1>1 DEF Init, Idle, CallsPaid, At
  <2> QED
    BY <2>1, <2>2, <2>3 DEF IInv
<1>2. ASSUME IInv, [Next]_vars
      PROVE  IInv'
  BY <1>2, StepTypes, StepKeepsVectorCurrent, StepKeepsCallsPaid DEF IInv
<1> QED
  BY <1>1, <1>2

THEOREM Invariant == Spec => []IInv
BY Inductive, PTL DEF Spec

\* Every row, local and payment keeps its type, and a job has an owner exactly
\* while it runs, whatever the processes, builds, edits and failures.
THEOREM TypeCorrect == Spec => []TypeOK
<1>1. IInv => TypeOK
  BY DEF IInv
<1> QED
  BY <1>1, Invariant, PTL

\* What the search serves was embedded from what the product is now by a build of the
\* same model, though the query compares the revision alone (search of
\* ProductVectorRepository) and whatever builds are deployed.
THEOREM SearchServesABuild == Spec => []ServedIsOfABuild
<1>1. IInv => ServedIsOfABuild
  BY DEF IInv, VectorCurrent, Served, ServedIsOfABuild
<1> QED
  BY <1>1, Invariant, PTL

\* While all processes run one model, no attempt that ends late takes the current
\* revision out of the search (the product checks of the completing transaction).
THEOREM NoLateAttemptUnserves == Spec => NewestStaysServed
<1>1. IInv /\ [Next]_vars =>
        [\A p \in Processes :
           /\ \A q \in Processes : build[q].model = build[p].model
           /\ Served(build[p].model)
           /\ UNCHANGED <<catalogVars, build>>
           => Served(build[p].model)']_vars
  <2> SUFFICES ASSUME IInv, Next, NEW p \in Processes,
                      \A q \in Processes : build[q].model = build[p].model,
                      Served(build[p].model), UNCHANGED <<catalogVars, build>>
               PROVE  Served(build[p].model)'
    BY DEF vars
  <2>1. \/ vector' = vector
        \/ \E q \in Processes : CompleteJob(q)
    BY DEF Next, CatalogCommand, UpdateProduct, CreateVariant, UpdateVariant, SaveSearchable,
           Reindex, ApplyPreset, Poll, FindMissing, Backfill, Claim, Supersede, Proceed, Replay,
           PaymentPending, Refused, StartCall, CallSettles, CallFails, CallUnrecorded, Complete,
           RecordFailure, CompleteFails, Restart, ReviewUsage, LeaseLapses, WorkerIsSlow, Lapse
  <2>2. CASE vector' = vector
    BY <2>2 DEF Served, catalogVars
  <2>3. CASE vector' # vector
    <3>1. PICK q \in Processes : CompleteJob(q)
      BY <2>1, <2>3
    <3>2. vector'.rev = product.rev /\ vector'.model = build[q].model
      BY <2>3, <3>1, CompletedTypes DEF IInv
    <3>3. build[q].model = build[p].model
      OBVIOUS
    <3> QED
      BY <3>2, <3>3 DEF Served, catalogVars
  <2> QED
    BY <2>2, <2>3
<1> QED
  BY <1>1, Invariant, PTL DEF Spec, NewestStaysServed

\* A revision's embedding is bought by one process at a time, for a payment that is
\* held, however leases lapse and attempts overlap (the usage key of embedDocument).
THEOREM OneCallPerJob == Spec => []CallsPaid
<1>1. IInv => CallsPaid
  BY DEF IInv
<1> QED
  BY <1>1, Invariant, PTL

\* What was paid for stays paid: no retry, review or restart makes it free again.
THEOREM PaymentsStandAlways == Spec => PaymentsStand
<1>1. IInv /\ [Next]_vars =>
        [\A k \in Keys : usage[k] = "settled" => usage'[k] = "settled"]_vars
  <2> SUFFICES ASSUME IInv, Next, NEW k \in Keys, usage[k] = "settled"
               PROVE  usage'[k] = "settled"
    BY DEF vars
  <2>1. usage \in [Keys -> {"free", "held", "settled"}]
    BY JobsTypes DEF IInv
  <2>2. \/ usage' = usage
        \/ \E i \in Keys : ReviewUsage(i)
        \/ \E p \in Processes : StartCall(p) \/ CallSettles(p) \/ CallFails(p)
    BY DEF Next, CatalogCommand, UpdateProduct, CreateVariant, UpdateVariant, SaveSearchable,
           Reindex, ApplyPreset, Poll, FindMissing, Backfill, Claim, Supersede, Proceed, Replay,
           PaymentPending, Refused, CallUnrecorded, Complete, RecordFailure, CompleteFails,
           Restart, LeaseLapses, WorkerIsSlow, Lapse, Keys
  <2>3. ASSUME NEW i \in Keys, ReviewUsage(i)
        PROVE  usage'[k] = "settled"
    BY <2>1, <2>3 DEF ReviewUsage
  <2>4. ASSUME NEW p \in Processes, StartCall(p) \/ CallSettles(p) \/ CallFails(p)
        PROVE  usage'[k] = "settled"
    BY <2>1, <2>4 DEF StartCall, CallSettles, CallFails, IInv, CallsPaid
  <2> QED
    BY <2>2, <2>3, <2>4
<1> QED
  BY <1>1, Invariant, PTL DEF Spec, PaymentsStand

=============================================================================
