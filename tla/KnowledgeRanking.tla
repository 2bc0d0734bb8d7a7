------------------------- MODULE KnowledgeRanking -------------------------
(* The pure half of the knowledge search (chatbot/knowledge): matching one    *)
(* table's rows, merging the ranked lists, choosing the evidence and refusing *)
(* evidence that contradicts itself.                                          *)
(*                                                                            *)
(* A stored row is [row, wording, version].  What its words are to the        *)
(* customer's question is part of the wording: the questions it was approved  *)
(* for, its BM25 score `raw` (0: no term in common), its cosine similarity    *)
(* `sim`, and its answer as a statement [fact, negative, number, condition].  *)
EXTENDS Naturals, FiniteSets, SequencesExt

CONSTANTS Patterns,          \* ids of answer patterns
          Facts,             \* ids of micro knowledge
          Order,             \* [row -> Nat]: the order of the rows' keys
          BroadQueries,      \* BROAD_DIRECT_QUERIES
          MaxScanned,        \* MAX_PATTERNS_SCANNED, MAX_CACHED_PATTERNS
          MaxCandidates,     \* MAX_RETRIEVAL_CANDIDATES
          MaxContexts,       \* MAX_RAG_CONTEXTS
          MaxCharacters,     \* MAX_RAG_EVIDENCE_CHARACTERS
          RankConstant,      \* RRF_RANK_CONSTANT
          LexicalFloor, VectorFloor,  \* the noise floors
          RagSimilarity      \* KNOWLEDGE_RAG_MIN_VECTOR_SIMILARITY

Rows == Patterns \union Facts
Source(row) == IF row \in Patterns THEN "ANSWER_PATTERN" ELSE "MICRO_KNOWLEDGE"

Elements(s) == {s[i] : i \in DOMAIN s}

\* The elements of S in the order `before`: as many come before each as are put
\* before it.
Ranked(S, before(_, _)) ==
  LET place(x) == 1 + Cardinality({y \in S : before(y, x)})
  IN  [i \in 1 .. Cardinality(S) |-> CHOOSE x \in S : place(x) = i]

Prefix(s, n) == SubSeq(s, 1, IF Len(s) < n THEN Len(s) ELSE n)

\* Higher priority first, then the order of the keys.
TieBreak(a, b) ==
  \/ a.priority > b.priority
  \/ a.priority = b.priority /\ Order[a.row] < Order[b.row]

\* The rows a read of one table brings: ORDER BY priority, LIMIT MaxScanned.
Scanned(stored) ==
  LET before(a, b) == \/ a.wording.priority > b.wording.priority
                      \/ a.wording.priority = b.wording.priority
                           /\ Order[a.row] < Order[b.row]
  IN  Prefix(Ranked(stored, before), MaxScanned)

IsExactMatch(wording, query) ==
  query \notin BroadQueries /\ query \in wording.questions

ToKnowledgeItem(stored, query, safeDirect, ambiguous) ==
  LET exact == IsExactMatch(stored.wording, query) IN
  [row |-> stored.row, wording |-> stored.wording, version |-> stored.version,
   questions |-> stored.wording.questions, priority |-> stored.wording.priority,
   topic |-> IF stored.row \in Facts THEN stored.wording.topic ELSE "none",
   raw |-> stored.wording.raw, sim |-> 0, exact |-> exact,
   direct |-> exact /\ safeDirect, ambiguous |-> exact /\ ambiguous,
   types |-> {IF exact THEN "EXACT" ELSE "KEYWORD"}]

\* Every exact answer counts for the ambiguity, the ones the limit cuts too; a
\* snapshot that is full cannot prove that an exact answer is the only one.
\* A plausible bug: the limit is applied to the read alone.
SafeDirectEvenCapped(source, scanned, ambiguous) ==
  source = "ANSWER_PATTERN" /\ ~ambiguous

SafeDirect(source, scanned, ambiguous) ==
  source = "ANSWER_PATTERN" /\ Len(scanned) < MaxScanned /\ ~ambiguous

FindMatchesFromPatterns(query, scanned, source) ==
  LET matched == {s \in Elements(scanned) :
                    s.wording.usable
                      /\ (IsExactMatch(s.wording, query) \/ s.wording.raw > 0)}
      exact == {s \in matched : IsExactMatch(s.wording, query)}
      ambiguous == source = "ANSWER_PATTERN"
                     /\ Cardinality({s.wording.answer : s \in exact}) > 1
      before(a, b) ==
        IF (a \in exact) # (b \in exact) THEN a \in exact
        ELSE IF a \notin exact /\ a.wording.raw # b.wording.raw
          THEN a.wording.raw > b.wording.raw
        ELSE \/ a.wording.priority > b.wording.priority
             \/ a.wording.priority = b.wording.priority
                  /\ Order[a.row] < Order[b.row]
      kept == Prefix(Ranked(matched, before), MaxCandidates)
  IN  [i \in DOMAIN kept |->
         ToKnowledgeItem(kept[i], query, SafeDirect(source, scanned, ambiguous),
                         ambiguous)]

----------------------------------------------------------------------------
(* Which items speak of the same thing, and which contradict each other.      *)

SharedQuestion(a, b) == a.questions \intersect b.questions # {}

Related(a, b) ==
  \/ a.row = b.row
  \/ /\ ~(a.topic # "none" /\ b.topic # "none" /\ a.topic # b.topic)
     /\ \/ a.topic # "none" /\ a.topic = b.topic
        \/ SharedQuestion(a, b)
        \/ a.wording.title = b.wording.title

\* The text with its numbers masked, and the fact with its negation removed.
NumericTemplate(answer) == [answer EXCEPT !.number = 0]
Assertion(answer) == [answer EXCEPT !.negative = FALSE]

Contradict(left, right) ==
  /\ left # right
  /\ \/ left.number # 0 /\ right.number # 0
          /\ NumericTemplate(left) = NumericTemplate(right)
     \/ /\ ~left.condition /\ ~right.condition
        /\ Assertion(left) = Assertion(right)
        /\ left.negative # right.negative

Conflicts(items) ==
  \E a, b \in items : /\ a.row # b.row
                      /\ Related(a, b)
                      /\ Contradict(a.wording.answer, b.wording.answer)

----------------------------------------------------------------------------
(* Reciprocal rank fusion of the two lexical lists and the vector list.       *)

ByRaw(items) ==
  LET before(a, b) == a.raw > b.raw \/ (a.raw = b.raw /\ TieBreak(a, b))
  IN  Ranked(items, before)
BySimilarity(items) ==
  LET before(a, b) == a.sim > b.sim \/ (a.sim = b.sim /\ TieBreak(a, b))
  IN  Ranked(items, before)

RankOf(row, list) == CHOOSE i \in DOMAIN list : list[i].row = row
In(row, items) == \E i \in items : i.row = row
The(row, items) == CHOOSE i \in items : i.row = row

\* The fused score as a fraction: one or two terms 1 / (RankConstant + rank).
Score(ranks) ==
  IF Len(ranks) = 1 THEN [n |-> 1, d |-> RankConstant + ranks[1]]
  ELSE [n |-> 2 * RankConstant + ranks[1] + ranks[2],
        d |-> (RankConstant + ranks[1]) * (RankConstant + ranks[2])]

\* Lexical content wins over a vector hit of the same row; the vector hit's
\* metadata wins over the lexical one's.
Merge(row, lexical, vectors) ==
  IF ~In(row, vectors)
  THEN [The(row, lexical) EXCEPT !.types = {"KEYWORD"}]
  ELSE IF ~In(row, lexical) THEN The(row, vectors)
  ELSE LET l == The(row, lexical)
           v == The(row, vectors)
       IN  [l EXCEPT !.sim = v.sim, !.questions = v.questions,
                     !.priority = v.priority, !.topic = v.topic,
                     !.types = {"KEYWORD", "EMBEDDING"}]

\* Every row once, in the order of its score.
Rank(lexical, vectors) ==
  LET lists == <<ByRaw({i \in lexical : i.row \in Patterns}),
                 ByRaw({i \in lexical : i.row \in Facts}), BySimilarity(vectors)>>
      own(row) == lists[IF row \in Patterns THEN 1 ELSE 2]
      ranks(row) ==
        (IF In(row, lexical) THEN <<RankOf(row, own(row))>> ELSE <<>>)
          \o (IF In(row, vectors) THEN <<RankOf(row, lists[3])>> ELSE <<>>)
      scored == {[item |-> Merge(row, lexical, vectors), score |-> Score(ranks(row))] :
                   row \in {i.row : i \in lexical \union vectors}}
      before(a, b) ==
        LET na == a.score.n * b.score.d
            nb == b.score.n * a.score.d
        IN  na > nb \/ (na = nb /\ TieBreak(a.item, b.item))
      list == Ranked(scored, before)
  IN  [i \in DOMAIN list |-> list[i].item]

Characters(chosen) == FoldLeft(LAMBDA sum, c : sum + c.wording.chars, 0, chosen)

\* One item more, unless it is a neighbour of nothing, a repetition or too long.
Considered(chosen, item) ==
  IF \/ Len(chosen) = MaxContexts
     \/ /\ chosen # <<>>
        /\ ~item.exact /\ "KEYWORD" \notin item.types /\ ~Related(chosen[1], item)
     \/ \E c \in Elements(chosen) : /\ c.row # item.row
                                    /\ Related(c, item)
                                    /\ c.wording.answer = item.wording.answer
     \/ item.wording.chars + Characters(chosen) > MaxCharacters
  THEN chosen ELSE Append(chosen, item)

\* The first item, what is related to it, then the rest, each list as ranked.
SelectContexts(items) ==
  LET close(i) == Related(items[1], items[i])
      sooner(i, j) == IF close(i) # close(j) THEN close(i) ELSE i < j
      turn == Ranked(DOMAIN items, sooner)
      chosen[n \in 0 .. Len(items)] ==
        IF n = 0 THEN <<>> ELSE Considered(chosen[n - 1], items[turn[n]])
  IN  chosen[Len(items)]

----------------------------------------------------------------------------
(* The results of one retrieval.                                              *)

Result(route, reason, selected) ==
  [route |-> route, reason |-> reason, selected |-> selected]
Undefined == Result("none", "none", <<>>)

DirectResult(items) ==
  LET exact == {i \in Elements(items) : i.exact}
      presets == {i \in DOMAIN items : items[i].direct /\ items[i].wording.preset}
  IN  IF (\E i \in exact : i.ambiguous) \/ Conflicts(exact)
      THEN Result("LOW_CONFIDENCE", "CONFLICTING_CANDIDATES", <<>>)
      ELSE IF presets = {} THEN Undefined
      ELSE Result("DIRECT", "none", <<items[Min(presets)]>>)

PoolResult(lexicalReads, semantic) ==
  LET lexical == {i \in lexicalReads : i.exact \/ i.raw >= LexicalFloor}
      vectors == {i \in semantic : i.sim >= VectorFloor}
      merged == Rank(lexical, vectors)
      selected == SelectContexts(Prefix(merged, MaxCandidates))
      companions == {i \in Elements(merged) :
                       \E c \in Elements(selected) : Related(c, i)}
      confident == \/ \E c \in Elements(selected) : c.exact
                   \/ \E v \in vectors : v.sim >= RagSimilarity
  IN  IF Conflicts(Elements(selected) \union companions)
        THEN Result("LOW_CONFIDENCE", "CONFLICTING_CANDIDATES", <<>>)
      ELSE IF selected = <<>>
        THEN Result("LOW_CONFIDENCE", "NO_USABLE_EVIDENCE", <<>>)
      ELSE IF confident THEN Result("RAG", "none", selected)
      ELSE Result("LOW_CONFIDENCE", "BELOW_MIN_VECTOR_SIMILARITY", selected)

\* A missing source can hide an exception: nothing is answered from a part.
\* A plausible bug: what the other sources brought is used.
ResultOfPart(lexicalReads, semantic, failed) == PoolResult(lexicalReads, semantic)

UnifiedResult(lexicalReads, semantic, failed) ==
  IF failed THEN Result("LOW_CONFIDENCE", "RETRIEVAL_ERROR", <<>>)
  ELSE PoolResult(lexicalReads, semantic)
=============================================================================
