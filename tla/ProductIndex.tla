---------------------------- MODULE ProductIndex ----------------------------
(***************************************************************************)
(* The semantic index of a product: the productIndexJobs rows that catalog  *)
(* edits leave in their own transaction, the pollers of several processes   *)
(* that claim such a row under a lease, embed its document and store the    *)
(* vector, and the search that serves the vector.                           *)
(*                                                                          *)
(* A product has one vector row and, per search revision and embedding      *)
(* model, at most one job row, whose document is fixed when it is created.  *)
(* A document is made of the product's own text, of the company's field     *)
(* preset and of the field labels, which are code.  A process runs a build  *)
(* (labels and embedding model) that a restart may change.  The embedding   *)
(* is billed under a key made of the job, so its payment survives the       *)
(* attempt (module CreditBilling); here a payment is free (none, or         *)
(* released), held (taken, or of unknown outcome) or settled.               *)
(***************************************************************************)
EXTENDS Integers, FiniteSets

CONSTANTS
  Processes,   \* processes that run the poller
  Builds,      \* [model, labels] a process may be deployed with
  Contents,    \* searchable texts of the product and its variants
  Presets,     \* business types and categories of the company
  Nobody,      \* no lease owner
  MaxAttempts, \* attempts after which a failing job is given up
  MaxRevision, \* bound: search revisions of a behaviour
  MaxFaults    \* bound: restarts, slow workers and lost acknowledgements

Models    == {b.model : b \in Builds}
Labels    == {b.labels : b \in Builds}
Revisions == 1..MaxRevision

ASSUME SetsAssumption ==
  /\ \A b \in Builds : DOMAIN b = {"model", "labels"}
  /\ Builds # {} /\ Contents # {} /\ Presets # {}
  /\ Nobody \notin Processes
ASSUME BoundsAssumption ==
  MaxAttempts \in Nat \ {0} /\ MaxRevision \in Nat \ {0} /\ MaxFaults \in Nat

VARIABLES
  product, \* the products row: active, searchRevision, searchable text
  preset,  \* the company's preset
  jobs,    \* productIndexJobs rows, per <<searchRevision, embeddingModel>>
  vector,  \* the productVectors row
  usage,   \* payment of each job's embedding
  build,   \* what each process runs
  proc,    \* what each poller is doing
  faults   \* faults so far

catalogVars == <<product, preset>>
vars == <<catalogVars, jobs, vector, usage, build, proc, faults>>

Document == [content : Contents, preset : Presets, labels : Labels]
JobState == {"NONE", "PENDING", "RUNNING", "DONE", "SUPERSEDED", "FAILED"}
PC == {"idle", "backfill", "check", "embed", "calling", "complete", "fail"}

\* buildProductDocument, as a process of build b builds it.
DocumentOf(prod, pre, b) ==
  [content |-> prod.content, preset |-> pre, labels |-> b.labels]
NewJob(doc) == [state |-> "PENDING", doc |-> doc, owner |-> Nobody,
                lapsed |-> FALSE, attempts |-> 0, review |-> FALSE]
NoJob    == [NewJob(CHOOSE d \in Document : TRUE) EXCEPT !.state = "NONE"]
NoVector == [rev |-> 0, model |-> CHOOSE m \in Models : TRUE, doc |-> NoJob.doc]
Idle     == [pc |-> "idle", rev |-> 1, pending |-> FALSE]

\* enqueueProductIndex inside a transaction that leaves the product as prod and
\* the company's preset as pre: an existing row is left alone.
Enqueued(prod, pre, b) ==
  LET k == <<prod.rev, b.model>> IN
    IF jobs[k].state = "NONE"
    THEN [jobs EXCEPT ![k] = NewJob(DocumentOf(prod, pre, b))] ELSE jobs

\* A new product, saved by a process that may have had semantic search disabled.
Init ==
  /\ product \in [active : BOOLEAN, rev : {1}, content : Contents]
  /\ preset \in Presets
  /\ \E b \in Builds :
       /\ build = [p \in Processes |-> b]
       /\ LET none == [k \in Revisions \X Models |-> NoJob] IN
            \/ jobs = none
            \/ jobs = [none EXCEPT ![<<1, b.model>>] = NewJob(DocumentOf(product, preset, b))]
  /\ vector = NoVector
  /\ usage = [k \in Revisions \X Models |-> "free"]
  /\ proc = [p \in Processes |-> Idle]
  /\ faults = 0

Key(p)    == <<proc[p].rev, build[p].model>>
At(p, pc) == proc[p].pc = pc
Goto(p, pc) == proc' = [proc EXCEPT ![p].pc = pc]
Fail(p, pending) == proc' = [proc EXCEPT ![p].pc = "fail", ![p].pending = pending]
Rest(p)   == proc' = [proc EXCEPT ![p] = Idle]
Fault     == faults < MaxFaults /\ faults' = faults + 1
Owns(p)   == jobs[Key(p)].owner = p

-----------------------------------------------------------------------------
(* Catalog commands, handled by the build of some process.  Each is one     *)
(* transaction under the product's row lock.                                *)

\* Saves the product with a new search revision and leaves its job.
SaveSearchable(p, content, active) ==
  /\ product.rev < MaxRevision
  /\ product' = [active |-> active, rev |-> product.rev + 1, content |-> content]
  /\ jobs' = Enqueued(product', preset, build[p])
  /\ UNCHANGED <<preset, vector, usage, build, proc, faults>>

\* update: only a change of a searchable field or of the status counts.
UpdateProduct(p, content, active) ==
  /\ <<content, active>> # <<product.content, product.active>>
  /\ SaveSearchable(p, content, active)

\* createVariant always takes a new revision.
CreateVariant(p, content) == SaveSearchable(p, content, product.active)

\* (Mutant) the edited values of a variant are not among the fields compared.
UpdateVariantUnnoticed(p, content) ==
  /\ content # product.content
  /\ product' = [product EXCEPT !.content = content]
  /\ UNCHANGED <<preset, jobs, vector, usage, build, proc, faults>>

\* updateVariant: a changed SKU, value or active flag takes a new revision, even
\* when the document comes out the same.
UpdateVariant(p, content) == SaveSearchable(p, content, product.active)

\* applyPreset: every product takes a new revision; the jobs are left to the pollers.
ApplyPreset(x) ==
  /\ x # preset /\ product.rev < MaxRevision
  /\ preset' = x
  /\ product' = [product EXCEPT !.rev = @ + 1]
  /\ UNCHANGED <<jobs, vector, usage, build, proc, faults>>

\* reindex: the job of the current revision is created, or started again after a
\* failure, unless its payment awaits review.
Reindex(p) ==
  /\ LET k == <<product.rev, build[p].model>>
         rows == Enqueued(product, preset, build[p])
     IN jobs' = IF rows[k].state = "FAILED" /\ ~rows[k].review
                THEN [rows EXCEPT ![k].state = "PENDING", ![k].attempts = 0] ELSE rows
  /\ UNCHANGED <<catalogVars, vector, usage, build, proc, faults>>

\* releaseUnknownReservation: an administrator releases a payment nobody is making.
ReviewUsage(k) ==
  /\ usage[k] = "held"
  /\ ~\E p \in Processes : At(p, "calling") /\ Key(p) = k
  /\ usage' = [usage EXCEPT ![k] = "free"]
  /\ UNCHANGED <<catalogVars, jobs, vector, build, proc, faults>>

-----------------------------------------------------------------------------
(* tick and process of a poller.                                            *)

\* tick: an active product without a job for its revision and this model ...
FindMissing(p) ==
  /\ At(p, "idle") /\ product.active
  /\ jobs[<<product.rev, build[p].model>>].state = "NONE"
  /\ Goto(p, "backfill")
  /\ UNCHANGED <<catalogVars, jobs, vector, usage, build, faults>>

\* ... gets one, for the revision it has by then.
Backfill(p) ==
  /\ At(p, "backfill")
  /\ jobs' = Enqueued(product, preset, build[p])
  /\ Rest(p)
  /\ UNCHANGED <<catalogVars, vector, usage, build, faults>>

\* (Mutant) only waiting jobs are claimed.
ClaimableWaiting(job) == job.state = "PENDING"

Claimable(job) == job.state = "PENDING" \/ (job.state = "RUNNING" /\ job.lapsed)

\* process: the conditional update that takes the lease.
Claim(p, r) ==
  LET k == <<r, build[p].model>>
      n == jobs[k].attempts IN
  /\ At(p, "idle") /\ Claimable(jobs[k])
  /\ jobs' = [jobs EXCEPT ![k] = [@ EXCEPT !.state = "RUNNING", !.owner = p,
                !.lapsed = FALSE, !.review = FALSE,
                !.attempts = IF n < MaxAttempts THEN n + 1 ELSE n]]
  /\ proc' = [proc EXCEPT ![p] = [pc |-> "check", rev |-> r, pending |-> FALSE]]
  /\ UNCHANGED <<catalogVars, vector, usage, build, faults>>

\* The attempt gives the row up in the given state.
Ended(p, state) ==
  [jobs EXCEPT ![Key(p)] = [@ EXCEPT !.state = state, !.owner = Nobody, !.lapsed = FALSE]]

\* The product has moved on: the job is closed, if it is still this attempt's.
Supersede(p) ==
  /\ At(p, "check")
  /\ ~product.active \/ product.rev # proc[p].rev
  /\ jobs' = IF Owns(p) THEN Ended(p, "SUPERSEDED") ELSE jobs
  /\ Rest(p)
  /\ UNCHANGED <<catalogVars, vector, usage, build, faults>>

Proceed(p) ==
  /\ At(p, "check")
  /\ product.active /\ product.rev = proc[p].rev
  /\ Goto(p, "embed")
  /\ UNCHANGED <<catalogVars, jobs, vector, usage, build, faults>>

\* embedDocument: an embedding that was paid for is used again.
Replay(p) ==
  /\ At(p, "embed") /\ usage[Key(p)] = "settled"
  /\ Goto(p, "complete")
  /\ UNCHANGED <<catalogVars, jobs, vector, usage, build, faults>>

\* One whose payment is held is not asked for again.
PaymentPending(p) ==
  /\ At(p, "embed") /\ usage[Key(p)] = "held"
  /\ Fail(p, TRUE)
  /\ UNCHANGED <<catalogVars, jobs, vector, usage, build, faults>>

\* The rate limit, the wallet or the budget refuses the call.
Refused(p) ==
  /\ At(p, "embed")
  /\ Fail(p, FALSE)
  /\ UNCHANGED <<catalogVars, jobs, vector, usage, build, faults>>

StartCall(p) ==
  /\ At(p, "embed") /\ usage[Key(p)] = "free"
  /\ usage' = [usage EXCEPT ![Key(p)] = "held"]
  /\ Goto(p, "calling")
  /\ UNCHANGED <<catalogVars, jobs, vector, build, faults>>

CallSettles(p) ==
  /\ At(p, "calling")
  /\ usage' = [usage EXCEPT ![Key(p)] = "settled"]
  /\ Goto(p, "complete")
  /\ UNCHANGED <<catalogVars, jobs, vector, build, faults>>

\* The provider fails: the payment is released.
CallFails(p) ==
  /\ At(p, "calling")
  /\ usage' = [usage EXCEPT ![Key(p)] = "free"]
  /\ Fail(p, FALSE)
  /\ UNCHANGED <<catalogVars, jobs, vector, build, faults>>

\* The provider answers and the settlement fails: the payment awaits review.
CallUnrecorded(p) ==
  /\ At(p, "calling")
  /\ Fail(p, TRUE)
  /\ UNCHANGED <<catalogVars, jobs, vector, usage, build, faults>>

\* (Mutant) the content hash alone decides.
FreshByHash(p) ==
  /\ product.active
  /\ DocumentOf(product, preset, build[p]) = jobs[Key(p)].doc

\* The product is what it was when the job was made, by status, revision and hash.
Fresh(p) ==
  /\ product.active
  /\ product.rev = proc[p].rev
  /\ DocumentOf(product, preset, build[p]) = jobs[Key(p)].doc

\* The completing transaction, under the product's row lock: the job is closed by
\* the attempt that owns it, with the vector if it is fresh.
CompleteJob(p) ==
  LET mine == jobs[Key(p)].state = "RUNNING" /\ Owns(p) IN
  /\ jobs' = IF mine THEN Ended(p, IF Fresh(p) THEN "DONE" ELSE "SUPERSEDED") ELSE jobs
  /\ vector' = IF mine /\ Fresh(p)
               THEN [rev |-> proc[p].rev, model |-> build[p].model, doc |-> jobs[Key(p)].doc]
               ELSE vector

Complete(p) ==
  /\ At(p, "complete")
  /\ CompleteJob(p)
  /\ Rest(p)
  /\ UNCHANGED <<catalogVars, usage, build, faults>>

\* The transaction fails, or it commits and its acknowledgement is lost.
CompleteFails(p) ==
  /\ At(p, "complete") /\ Fault
  /\ \/ CompleteJob(p)
     \/ UNCHANGED <<jobs, vector>>
  /\ Fail(p, FALSE)
  /\ UNCHANGED <<catalogVars, usage, build>>

\* The error path: the attempt's own job waits for another one, or is given up
\* when its payment is uncertain or its attempts are used up.
RecordFailure(p) ==
  LET state == IF proc[p].pending \/ jobs[Key(p)].attempts >= MaxAttempts
               THEN "FAILED" ELSE "PENDING" IN
  /\ At(p, "fail")
  /\ jobs' = IF Owns(p) THEN [Ended(p, state) EXCEPT ![Key(p)].review = proc[p].pending]
             ELSE jobs
  /\ Rest(p)
  /\ UNCHANGED <<catalogVars, vector, usage, build, faults>>

-----------------------------------------------------------------------------
(* Time and failures.                                                       *)

\* p is at work on the job of key k under its own lease.
Working(p, k) ==
  /\ proc[p].pc \notin {"idle", "backfill"}
  /\ Key(p) = k /\ jobs[k].owner = p

LeaseRunning(k) == jobs[k].state = "RUNNING" /\ ~jobs[k].lapsed
Lapse(k) ==
  /\ jobs' = [jobs EXCEPT ![k].lapsed = TRUE]
  /\ UNCHANGED <<catalogVars, vector, usage, build, proc>>

\* The two minutes pass: nobody works on the job any more ...
LeaseLapses(k) ==
  /\ LeaseRunning(k) /\ ~\E p \in Processes : Working(p, k)
  /\ Lapse(k) /\ UNCHANGED faults

\* ... or its worker is slow.
WorkerIsSlow(k) ==
  /\ LeaseRunning(k) /\ \E p \in Processes : Working(p, k)
  /\ Lapse(k) /\ Fault

\* A process stops and comes up again, with its own build or another one.
Restart(p, b) ==
  /\ Fault
  /\ <<proc[p], build[p]>> # <<Idle, b>>
  /\ build' = [build EXCEPT ![p] = b]
  /\ Rest(p)
  /\ UNCHANGED <<catalogVars, jobs, vector, usage>>

-----------------------------------------------------------------------------
CatalogCommand(p) ==
  \/ \E c \in Contents, a \in BOOLEAN : UpdateProduct(p, c, a)
  \/ \E c \in Contents : CreateVariant(p, c) \/ UpdateVariant(p, c)
  \/ Reindex(p)

Poll(p) ==
  \/ FindMissing(p) \/ Backfill(p)
  \/ \E r \in Revisions : Claim(p, r)
  \/ Supersede(p) \/ Proceed(p)
  \/ Replay(p) \/ PaymentPending(p) \/ Refused(p)
  \/ StartCall(p) \/ CallSettles(p) \/ CallFails(p) \/ CallUnrecorded(p)
  \/ Complete(p) \/ RecordFailure(p)

Next ==
  \/ \E p \in Processes : CatalogCommand(p) \/ Poll(p) \/ CompleteFails(p)
  \/ \E p \in Processes, b \in Builds : Restart(p, b)
  \/ \E x \in Presets : ApplyPreset(x)
  \/ \E k \in Revisions \X Models : ReviewUsage(k) \/ LeaseLapses(k) \/ WorkerIsSlow(k)

Spec == Init /\ [][Next]_vars

\* The pollers run every five seconds and time passes.
FairSpec ==
  /\ Spec
  /\ \A p \in Processes : WF_vars(Poll(p))
  /\ \A k \in Revisions \X Models : WF_vars(LeaseLapses(k))

-----------------------------------------------------------------------------
\* Rows and locals keep their types; a lease has an owner exactly while a job runs.
TypeOK ==
  /\ product \in [active : BOOLEAN, rev : Revisions, content : Contents]
  /\ preset \in Presets
  /\ jobs \in [Revisions \X Models -> [state : JobState, doc : Document,
       owner : Processes \cup {Nobody}, lapsed : BOOLEAN,
       attempts : 0..MaxAttempts, review : BOOLEAN]]
  /\ \A k \in DOMAIN jobs : (jobs[k].state = "RUNNING") = (jobs[k].owner # Nobody)
  /\ vector \in [rev : 0..MaxRevision, model : Models, doc : Document]
  /\ usage \in [Revisions \X Models -> {"free", "held", "settled"}]
  /\ build \in [Processes -> Builds]
  /\ proc \in [Processes -> [pc : PC, rev : Revisions, pending : BOOLEAN]]
  /\ faults \in 0..MaxFaults

\* ProductVectorRepository.search with queries of model m finds the product.
Served(m) ==
  product.active /\ vector.model = m /\ vector.rev = product.rev

\* What the search serves was embedded from what the product is now, however the
\* edits, the preset changes and the slow attempts interleave: the query compares
\* the revision alone, so every change of the document must have taken a new one.
SearchedIsCurrent ==
  \A p \in Processes :
    Served(build[p].model) => vector.doc = DocumentOf(product, preset, build[p])

\* Once the current revision is served, only an edit of the product takes it out
\* of the search, while all processes run one model: an older attempt that ends
\* late never puts its vector back.
NewestStaysServed ==
  [][\A p \in Processes :
       /\ \A q \in Processes : build[q].model = build[p].model
       /\ Served(build[p].model)
       /\ UNCHANGED <<catalogVars, build>>
       => Served(build[p].model)']_vars

\* Whatever is lost on the way, a revision that stays is served in the end for the
\* model every process has come to run, or its job is reported as failed.
EveryRevisionIndexed ==
  \A m \in Models, r \in Revisions :
    (product.active /\ product.rev = r /\ \A p \in Processes : build[p].model = m)
      ~> \/ Served(m) \/ product.rev # r
         \/ jobs[<<r, m>>].state = "FAILED"
         \/ \E p \in Processes : build[p].model # m
=============================================================================
