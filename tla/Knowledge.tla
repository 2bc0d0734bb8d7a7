----------------------------- MODULE Knowledge -----------------------------
(* The shop's knowledge base: answer patterns and micro knowledge, edited and *)
(* indexed by administrators (admin/knowledge, ai/embeding) while customers'  *)
(* questions search it (chatbot/knowledge) and are answered from what they    *)
(* find (chatbot/answer).  One process: the pattern cache and the operations  *)
(* under way die with it; the rows and their vectors stay.                    *)
EXTENDS KnowledgeRanking

CONSTANTS Admins, Wordings, Queries, Models, Absent,
          Rewordings,    \* the wordings administrators write
          Starts,        \* the sets of rows the knowledge base may start from
          Limits,        \* the limits a backfill is asked for, 0 for none
          MaxEvents      \* bound on operations, questions, failures and timer ticks

AllWordings == Wordings \union Rewordings

\* Rows have unique keys; a wording has a numeric relation to the question.
ASSUME RowsAssumption ==
  /\ Patterns \intersect Facts = {} /\ IsFiniteSet(Rows)
  /\ Order \in [Rows -> Nat] /\ \A r, s \in Rows : Order[r] = Order[s] => r = s
ASSUME WordingsAssumption ==
  \A w \in AllWordings : w # Absent /\ {w.priority, w.raw, w.sim} \subseteq Nat
ASSUME AbsentAssumption ==
  Absent \notin [wording : AllWordings, model : Models, active : BOOLEAN, older : BOOLEAN]
ASSUME CapsAssumption ==
  /\ {MaxScanned, MaxCandidates, MaxContexts} \subseteq Nat \ {0}
  /\ MaxCandidates <= MaxScanned /\ {RankConstant, LexicalFloor} \subseteq Nat
  /\ Limits \subseteq Nat

VARIABLES
  db,          \* [Rows -> row]: answerPattern and microKnowledge
  vectors,     \* [Rows -> vector or Absent]: the two vector tables
  model,       \* adapter.model
  cache,       \* AnswerPatternCacheService: entries, and whether their TTL passed
  refreshing,  \* the refreshes in flight
  ops,         \* [Admins -> operation under way]
  job,         \* the question being answered
  cacheSince,  \* history: the versions when the cached snapshot was asked for
  events

admin == <<vectors, model>>
caching == <<cache, refreshing, cacheSince>>
knowledgeVars == <<db, vectors, model, cache, refreshing, ops, job, cacheSince,
          events>>

NoRow == [wording |-> Absent, active |-> FALSE, version |-> 0]
IdleOp == [kind |-> "idle", pc |-> "idle", todo |-> <<>>, data |-> NoRow,
           remaining |-> {}, created |-> FALSE, failed |-> FALSE, disturbed |-> FALSE]
IdleJob == [pc |-> "idle", query |-> Absent, verbatim |-> FALSE, failed |-> FALSE,
            lexical |-> {}, semantic |-> {}, pending |-> {},
            result |-> Undefined, cached |-> FALSE, since |-> [r \in Rows |-> 0],
            rivals |-> {}, grounds |-> {}, said |-> "nothing"]

Event == events < MaxEvents /\ events' = events + 1

Versions == [r \in Rows |-> db[r].version]
Exists(r) == db[r].wording # Absent
Live(r) == Exists(r) /\ db[r].active
Stored(r) == [row |-> r, wording |-> db[r].wording, version |-> db[r].version]
ActiveRows(table) == {Stored(r) : r \in {r \in table : Live(r)}}

\* A boot waits for the first refresh (onModuleInit).
Booting == \E f \in refreshing : f.boot
NewRefresh(boot) == [boot |-> boot, read |-> Absent, since |-> Versions]

KnowledgeInit ==
  /\ db \in [Rows -> {NoRow} \union
                     {[wording |-> w, active |-> TRUE, version |-> 1] : w \in Wordings}]
  /\ {<<r, db[r].wording>> : r \in {r \in Rows : Exists(r)}} \in Starts
  /\ model \in Models
  /\ vectors = [r \in Rows |->
                  IF ~Exists(r) THEN Absent
                  ELSE [wording |-> db[r].wording, model |-> model,
                        active |-> TRUE, older |-> FALSE]]
  /\ cache = [entries |-> <<>>, expired |-> TRUE]
  /\ refreshing = {NewRefresh(TRUE)}
  /\ ops = [a \in Admins |-> IdleOp]
  /\ job = IdleJob
  /\ cacheSince = Versions
  /\ events = 0

----------------------------------------------------------------------------
(* AnswerPatternCacheService.  A refresh joins the one in flight.             *)

Refresh ==
  refreshing' = IF refreshing # {} THEN refreshing ELSE {NewRefresh(FALSE)}

GetAll == IF cache.expired THEN <<>> ELSE cache.entries

ReadPatterns ==
  /\ \E f \in refreshing :
       /\ f.read = Absent
       /\ refreshing' = (refreshing \ {f})
                          \union {[f EXCEPT !.read = Scanned(ActiveRows(Patterns))]}
  /\ UNCHANGED <<events, db, cache, ops, cacheSince, admin, job>>

\* The operations that await the refresh, joined or started, return.
Settled(f) ==
  /\ refreshing' = refreshing \ {f}
  /\ ops' = [a \in Admins |-> IF ops[a].pc = "refreshing" THEN IdleOp ELSE ops[a]]

FinishRefresh ==
  /\ \E f \in refreshing :
       /\ f.read # Absent
       /\ cache' = [entries |-> f.read, expired |-> FALSE]
       /\ cacheSince' = f.since
       /\ Settled(f)
  /\ UNCHANGED <<events, db, admin, job>>

\* The previous snapshot stays.
FailRefresh ==
  /\ Event
  /\ \E f \in refreshing : Settled(f)
  /\ UNCHANGED <<db, cache, cacheSince, admin, job>>

TimerTick ==
  /\ ~Booting
  /\ Event
  /\ Refresh
  /\ UNCHANGED <<db, cache, ops, cacheSince, admin, job>>

TtlPasses ==
  /\ ~cache.expired
  /\ Event
  /\ cache' = [cache EXCEPT !.expired = TRUE]
  /\ UNCHANGED <<db, refreshing, ops, cacheSince, admin, job>>

----------------------------------------------------------------------------
(* The administrators' operations.  Each reads its rows, has the embedding    *)
(* provider called for one after the other, and writes what was embedded.     *)

Target(a) == Head(ops[a].todo)
Item(r) == [row |-> r, wording |-> db[r].wording, active |-> db[r].active]
InOrder(items) == Ranked(items, LAMBDA x, y : Order[x.row] < Order[y.row])

\* An operation starts.  pc: find the next row, its provider call, the refresh.
Start(a, kind, pc, todo, data, remaining) ==
  /\ ops[a] = IdleOp /\ ~Booting
  /\ todo # <<>>
  /\ Event
  /\ ops' = [ops EXCEPT ![a] = [IdleOp EXCEPT !.kind = kind, !.pc = pc,
                                              !.todo = todo, !.data = data,
                                              !.remaining = remaining]]
  /\ UNCHANGED <<db, vectors, model, caching, job>>

\* An id no row had and no creation under way will have: the database picks it.
Fresh(r) == /\ db[r].version = 0
            /\ \A b \in Admins : ops[b].kind = "create" =>
                                 \A i \in DOMAIN ops[b].todo : ops[b].todo[i].row # r

Create(a, table) ==
  \E w \in Rewordings :
    \E rows \in {R \in SUBSET {r \in table : Fresh(r)} : Cardinality(R) <= 2} :
      /\ \A r \in rows, q \in table :
           Fresh(q) /\ Order[q] < Order[r] => q \in rows
      /\ Start(a, "create", "call",
               InOrder({[row |-> r, wording |-> w, active |-> TRUE] : r \in rows}), NoRow, {})

CreatePatterns(a) == Create(a, Patterns)
CreateFacts(a) == Create(a, Facts)

\* The row is read, merged with the input and embedded; the input alone is written.
Update(a, table) ==
  \E r \in {r \in table : Exists(r)} : \E w \in Rewordings \union {Absent}, on \in BOOLEAN :
    /\ (w = Absent) # (on = db[r].active)
    /\ Start(a, "update", "call",
             <<[Item(r) EXCEPT !.wording = IF w = Absent THEN @ ELSE w]>>,
             [wording |-> w, active |-> on, version |-> 0], {})

UpdatePattern(a) == Update(a, Patterns)
UpdateFact(a) == Update(a, Facts)

Reindex(a, table) ==
  Start(a, "reindex", "call", InOrder({Item(r) : r \in {r \in table : Exists(r)}}), NoRow, {})

ReindexPatterns(a) == Reindex(a, Patterns)
ReindexFacts(a) == Reindex(a, Facts)

\* A plausible bug: a vector of any model counts.
CoverageStatusOfAnyModel(r) ==
  LET v == vectors[r] IN
  IF v = Absent THEN "missing"
  ELSE IF ~v.active THEN "missing"
  ELSE IF v.older THEN "stale" ELSE "indexed"

CoverageStatus(r) ==
  LET v == vectors[r] IN
  IF v = Absent THEN "missing"
  ELSE IF ~v.active THEN "missing"
  ELSE IF v.model # model THEN "mismatch"
  ELSE IF v.older THEN "stale" ELSE "indexed"

\* What a backfill has to do, and the part of it that a call limited to n takes on.
Candidates(force) == {r \in Patterns : Live(r) /\ (force \/ CoverageStatus(r) # "indexed")}
Batch(items, n) == IF n = 0 THEN items ELSE Prefix(items, n)
RowsOf(items) == {i.row : i \in Elements(items)}

Backfill(a) ==
  \E force \in BOOLEAN, limit \in Limits :
    LET targets == Batch(InOrder({Item(r) : r \in Candidates(force)}), limit)
    IN  Start(a, "backfill", "find", targets, NoRow, Candidates(force) \ RowsOf(targets))

\* What another operation writes changes what a backfill set out from.
Disturbing(a, os) == [b \in Admins |-> IF b = a THEN os[b]
                                       ELSE [os[b] EXCEPT !.disturbed = TRUE]]

\* An operation on patterns ends by refreshing the cache, one on facts at once.
Ends(a, os, writes) ==
  IF writes /\ Target(a).row \in Patterns
  THEN /\ Refresh
       /\ ops' = [os EXCEPT ![a] = [IdleOp EXCEPT !.kind = os[a].kind, !.pc = "refreshing"]]
  ELSE /\ UNCHANGED refreshing
       /\ ops' = [os EXCEPT ![a] = IdleOp]

\* The loops of createMany, reindex and backfill: the next row, or the end.
Advance(a, os, created, failed) ==
  IF Len(os[a].todo) > 1
  THEN /\ UNCHANGED refreshing
       /\ ops' = [os EXCEPT ![a].todo = Tail(@), ![a].created = @ \/ created,
                            ![a].failed = @ \/ failed,
                            ![a].pc = IF os[a].kind = "backfill" THEN "find" ELSE @]
  ELSE Ends(a, os, os[a].created \/ created)

Vector(item, older) ==
  [wording |-> item.wording, model |-> model, active |-> item.active, older |-> older]

\* A new row and its vector share a transaction, whose clock may be the earlier.
CreateRow(a) ==
  LET item == Target(a) IN
  /\ ops[a].kind = "create" /\ ops[a].pc = "call"
  /\ ~Exists(item.row)
  /\ db' = [db EXCEPT ![item.row] = [wording |-> item.wording, active |-> TRUE,
                                     version |-> @.version + 1]]
  /\ \E older \in BOOLEAN : vectors' = [vectors EXCEPT ![item.row] = Vector(item, older)]
  /\ Advance(a, Disturbing(a, ops), TRUE, FALSE)
  /\ UNCHANGED <<events, model, cache, cacheSince, job>>

\* Nothing moves the row's updatedAt, so its vector is now the later.
UpdateRow(a) ==
  LET item == Target(a)
      r == item.row
      data == ops[a].data
      written == [wording |-> IF data.wording = Absent THEN db[r].wording ELSE data.wording,
                  active |-> IF data.wording = Absent THEN data.active ELSE db[r].active,
                  version |-> db[r].version + 1]
  IN  /\ ops[a].kind = "update" /\ ops[a].pc = "call"
      /\ Exists(r)
      /\ db' = [db EXCEPT ![r] = written]
      /\ vectors' = [vectors EXCEPT ![r] =
                       Vector([item EXCEPT !.active = written.active], FALSE)]
      /\ Ends(a, Disturbing(a, ops), TRUE)
      /\ UNCHANGED <<events, model, cache, cacheSince, job>>

\* reindex and backfill write outside any transaction what they read earlier.
UpsertVector(a) ==
  LET item == Target(a) IN
  /\ ops[a].kind \in {"reindex", "backfill"} /\ ops[a].pc = "call"
  /\ Exists(item.row)
  /\ vectors' = [vectors EXCEPT ![item.row] = Vector(item, FALSE)]
  /\ Advance(a, Disturbing(a, ops), FALSE, FALSE)
  /\ UNCHANGED <<events, db, model, cache, cacheSince, job>>

\* The row of a backfill is read again before its call.
FindTarget(a) ==
  /\ ops[a].pc = "find"
  /\ IF Exists(Target(a).row)
     THEN /\ ops' = [ops EXCEPT ![a].pc = "call",
                                ![a].todo = <<Item(Target(a).row)>> \o Tail(@)]
          /\ UNCHANGED refreshing
     ELSE Advance(a, ops, FALSE, TRUE)
  /\ UNCHANGED <<events, db, cache, cacheSince, admin, job>>

\* The call fails, or the row is gone: an update ends, a loop goes on without it.
Fails(a) ==
  IF ops[a].kind = "update"
  THEN ops' = [ops EXCEPT ![a] = IdleOp] /\ UNCHANGED refreshing
  ELSE Advance(a, ops, FALSE, TRUE)

RowGone(a) ==
  /\ ops[a].pc = "call" /\ ops[a].kind # "create"
  /\ ~Exists(Target(a).row)
  /\ Fails(a)
  /\ UNCHANGED <<events, db, cache, cacheSince, admin, job>>

EmbedFails(a) ==
  /\ ops[a].pc = "call"
  /\ Event
  /\ Fails(a)
  /\ UNCHANGED <<db, cache, cacheSince, admin, job>>

\* deleteMany takes the row and, by the foreign key, its vector.
Delete(a, r) ==
  /\ Exists(r)
  /\ ops[a] = IdleOp /\ ~Booting
  /\ Event
  /\ db' = [db EXCEPT ![r] = [NoRow EXCEPT !.version = db[r].version + 1]]
  /\ vectors' = [vectors EXCEPT ![r] = Absent]
  /\ UNCHANGED <<model, cache, cacheSince, job>>

RemovePattern(a) ==
  \E r \in Patterns :
    /\ Delete(a, r)
    /\ Refresh
    /\ ops' = [Disturbing(a, ops) EXCEPT ![a] = [IdleOp EXCEPT !.kind = "remove",
                                                                !.pc = "refreshing"]]

RemoveFact(a) ==
  \E r \in Facts : Delete(a, r) /\ ops' = Disturbing(a, ops) /\ UNCHANGED refreshing

\* The process dies; another may run with another embedding model.
Restart ==
  /\ Event
  /\ model' \in Models
  /\ cache' = [entries |-> <<>>, expired |-> TRUE]
  /\ refreshing' = {NewRefresh(TRUE)}
  /\ ops' = [a \in Admins |-> IdleOp]
  /\ job' = IdleJob
  /\ UNCHANGED <<db, vectors, cacheSince>>

----------------------------------------------------------------------------
(* EmbeddingHealthService.check, the wallet and the key being in order.       *)

ActivePatterns == {r \in Patterns : Live(r)}
Indexed == {r \in ActivePatterns : CoverageStatus(r) \in {"indexed", "stale"}}
StaleVectors == {r \in Indexed : CoverageStatus(r) = "stale"}

CheckCoverage ==
  [ok |-> Indexed = ActivePatterns /\ ActivePatterns # {} /\ StaleVectors = {},
   indexed |-> Cardinality(Indexed)]

ResolveStatus ==
  IF CheckCoverage.indexed = 0 THEN "down"
  ELSE IF ~CheckCoverage.ok THEN "degraded" ELSE "ok"

\* What the vector search of a table can return for an embedding of `model`.
Searchable(r) ==
  Live(r) /\ vectors[r] # Absent /\ vectors[r].active /\ vectors[r].model = model

----------------------------------------------------------------------------
(* One question: retrieve, runRetrieval, answerKnowledge.                     *)

Step(j) == job' = j /\ UNCHANGED <<db, ops, admin, caching>>

\* runRetrieval concludes: the router and the answer take over.
Concluded(j, result) == [j EXCEPT !.pc = "answer", !.result = result]

\* resolveRetrievalQuery leaves the question alone, rewrites a follow-up, or
\* misses what it refers to; a rewritten question cannot be answered directly.
Ask ==
  /\ job.pc \in {"idle", "answered"} /\ ~Booting
  /\ Event
  /\ \E query \in Queries :
       LET asked == [IdleJob EXCEPT !.pc = "cache", !.query = query, !.since = Versions]
           missing == Result("LOW_CONFIDENCE", "MISSING_USER_INFORMATION", <<>>)
       IN  job' \in {[asked EXCEPT !.verbatim = TRUE], asked, Concluded(asked, missing)}
  /\ UNCHANGED <<db, ops, admin, caching>>

\* The direct result of a read that may answer at once.
Direct(items) == IF job.verbatim THEN DirectResult(items) ELSE Undefined

\* getAll: an expired snapshot starts a refresh and offers nothing.
ReadCache ==
  /\ job.pc = "cache"
  /\ IF cache.expired THEN Refresh ELSE UNCHANGED refreshing
  /\ LET items == FindMatchesFromPatterns(job.query, GetAll, "ANSWER_PATTERN")
         direct == Direct(items)
     IN  job' = IF direct # Undefined
                THEN [Concluded(job, direct) EXCEPT !.cached = TRUE, !.since = cacheSince]
                ELSE [job EXCEPT !.pc = "database"]
  /\ UNCHANGED <<events, db, ops, admin, cache, cacheSince>>

\* The database is authoritative: what the cache offered is forgotten.
\* A plausible bug: a candidate of the cache stands in where the database missed.
AuthoritativeOrCached(items) ==
  LET cached == FindMatchesFromPatterns(job.query, GetAll, "ANSWER_PATTERN")
  IN  Elements(items) \union {c \in Elements(cached) : ~In(c.row, Elements(items))}

Authoritative(items) == Elements(items)

ReadDatabase ==
  /\ job.pc = "database"
  /\ LET items == FindMatchesFromPatterns(job.query, Scanned(ActiveRows(Patterns)),
                                          "ANSWER_PATTERN")
         direct == Direct(items)
         read == [job EXCEPT !.lexical = Authoritative(items),
                             !.rivals = {s.wording.answer : s \in
                               {s \in ActiveRows(Patterns) :
                                  s.wording.usable /\ IsExactMatch(s.wording, job.query)}}]
     IN  Step(IF direct # Undefined THEN Concluded(read, direct)
              ELSE [read EXCEPT !.pc = "sources",
                                !.pending = {"micro", "patterns", "facts"}])
  /\ UNCHANGED events

DatabaseFails ==
  /\ job.pc = "database"
  /\ Event
  /\ Step([job EXCEPT !.pc = "sources", !.failed = TRUE,
                      !.pending = {"micro", "patterns", "facts"}])

\* The micro knowledge and, after one embedding, both vector tables.
ReadMicro ==
  /\ job.pc = "sources" /\ "micro" \in job.pending
  /\ Step([job EXCEPT !.pending = @ \ {"micro"},
                      !.lexical = @ \union Elements(FindMatchesFromPatterns(
                        job.query, Scanned(ActiveRows(Facts)), "MICRO_KNOWLEDGE"))])
  /\ UNCHANGED events

VectorItem(r) ==
  [ToKnowledgeItem(Stored(r), Absent, FALSE, FALSE) EXCEPT
     !.raw = 0, !.sim = vectors[r].wording.sim, !.types = {"EMBEDDING"}]

Hits(table) == Prefix(BySimilarity({VectorItem(r) : r \in {r \in table : Searchable(r)}}),
                      MaxCandidates)
PatternHits == Hits(Patterns)
FactHits == Hits(Facts)

SemanticSearch(source, hits) ==
  /\ job.pc = "sources" /\ source \in job.pending
  /\ Step([job EXCEPT !.pending = @ \ {source}, !.semantic = @ \union Elements(hits)])
  /\ UNCHANGED events

MicroFails ==
  /\ job.pc = "sources" /\ "micro" \in job.pending
  /\ Event
  /\ Step([job EXCEPT !.pending = @ \ {"micro"}, !.failed = TRUE])

\* The embedding or either table fails: nothing of the semantic search counts.
SemanticFails ==
  /\ job.pc = "sources" /\ job.pending \intersect {"patterns", "facts"} # {}
  /\ Event
  /\ Step([job EXCEPT !.pending = @ \ {"patterns", "facts"},
                      !.semantic = {}, !.failed = TRUE])

\* An unpaid or unsettled embedding is rethrown: the question gets no answer here.
EmbeddingRethrown ==
  /\ job.pc = "sources" /\ {"patterns", "facts"} \subseteq job.pending
  /\ Event
  /\ Step([job EXCEPT !.pc = "answered", !.said = "nothing"])

Conclude ==
  /\ job.pc = "sources" /\ job.pending = {}
  /\ Step(Concluded(job, UnifiedResult(job.lexical, job.semantic, job.failed)))
  /\ UNCHANGED events

Usable == {i \in Elements(job.result.selected) : i.wording.usable}
Says(how, items) ==
  /\ Step([job EXCEPT !.pc = "answered", !.said = how, !.grounds = items])
  /\ UNCHANGED events

\* answerKnowledge: the preset itself, without a model call.
AnswerPreset ==
  /\ job.pc = "answer" /\ job.result.route = "DIRECT"
  /\ Says("preset", {job.result.selected[1]})

\* generateFromKnowledge: an answer whose every citation was offered to the model.
Accepted(cited) == cited # {} /\ cited \subseteq {i.row : i \in Usable}

AnswerGrounded ==
  /\ job.pc = "answer" /\ job.result.route # "DIRECT" /\ Usable # {}
  /\ \E cited \in SUBSET Rows :
       /\ Accepted(cited)
       /\ Says("grounded", {i \in Usable : i.row \in cited})

\* No evidence, a refused or failed generation, or another route of the router.
AnswerOtherwise ==
  /\ job.pc = "answer" /\ job.result.route # "DIRECT"
  /\ Says("fallback", {})

KnowledgeNext ==
  \/ ReadPatterns \/ FinishRefresh \/ FailRefresh \/ TimerTick \/ TtlPasses
  \/ \E a \in Admins :
       \/ CreatePatterns(a) \/ CreateFacts(a) \/ UpdatePattern(a) \/ UpdateFact(a)
       \/ ReindexPatterns(a) \/ ReindexFacts(a) \/ Backfill(a)
       \/ RemovePattern(a) \/ RemoveFact(a)
       \/ CreateRow(a) \/ UpdateRow(a) \/ UpsertVector(a) \/ FindTarget(a)
       \/ RowGone(a) \/ EmbedFails(a)
  \/ Restart
  \/ Ask \/ ReadCache \/ ReadDatabase \/ DatabaseFails
  \/ ReadMicro \/ SemanticSearch("patterns", PatternHits)
  \/ SemanticSearch("facts", FactHits)
  \/ MicroFails \/ SemanticFails \/ EmbeddingRethrown
  \/ Conclude \/ AnswerPreset \/ AnswerGrounded \/ AnswerOtherwise

KnowledgeSpec == KnowledgeInit /\ [][KnowledgeNext]_knowledgeVars

----------------------------------------------------------------------------
(* Properties.                                                                *)

\* A preset given at once was the only exact answer: when it came from the
\* database, all the active exact patterns said the same, the ones beyond the
\* limits of the read too.
DirectIsUnambiguous ==
  job.said = "preset" /\ ~job.cached => Cardinality(job.rivals) = 1

\* What an answer is grounded on had not been withdrawn or reworded before the
\* question came - before the cached snapshot was asked for, when the preset
\* came from the cache.
EvidenceIsLive ==
  \A g \in job.grounds : g.version >= job.since[g.row]

\* No grounded answer hides a contradiction: when nothing changed while the
\* question was searched, and neither table is past the limit of one search, no
\* row its words reach speaks of the same thing as a cited one and says the
\* opposite.
NoHiddenContradiction ==
  /\ job.said = "grounded" /\ job.since = Versions
  /\ \A table \in {Patterns, Facts} : Cardinality(ActiveRows(table)) <= MaxCandidates
  => \A g \in job.grounds, r \in Rows :
       LET item == ToKnowledgeItem(Stored(r), job.query, FALSE, FALSE) IN
       /\ Live(r) /\ r # g.row
       /\ db[r].wording.usable
       /\ item.exact \/ (item.raw > 0 /\ item.raw >= LexicalFloor)
       /\ Related(g, item)
       => ~Contradict(g.wording.answer, item.wording.answer)

\* A backfill no call of which failed, and which no other write came between,
\* leaves beyond the reach of the vector search no active pattern but those it
\* reports as remaining; when it reports none, the health check says so.
BackfillHeals ==
  [][\A a \in Admins :
       /\ ops[a].kind = "backfill" /\ ~ops[a].disturbed /\ ~ops[a].failed
       /\ ops'[a] = IdleOp /\ events' = events
       => /\ \A r \in ActivePatterns' \ ops[a].remaining : Searchable(r)'
          /\ ops[a].remaining = {} /\ ActivePatterns' # {} => ResolveStatus' = "ok"
     ]_knowledgeVars

=============================================================================
