--------------------------- MODULE RetrievalRules ---------------------------
(***************************************************************************)
(* How recipes and technique chunks are found: the request that becomes a  *)
(* query (retrieval/query.py), the two searches over the corpus and their  *)
(* orders (recipes/repository.py, recipes/vector_search.py,                *)
(* recipes/technique_repository.py), the modes that combine them           *)
(* (retrieval/hybrid.py) and the tools over them (tools/search_tools.py,   *)
(* tools/technique_tools.py).  What the database scores, and how far a     *)
(* vector lies from another, is given.                                     *)
(***************************************************************************)
EXTENDS Integers, Sequences, FiniteSets, SequencesExt

CONSTANTS
  Anything,         \* no limit, no dataset, no cutoff
  MaxPantryTerms,   \* MAX_PANTRY_TERMS
  PantryWeight,     \* 1 / PANTRY_RANK_WEIGHT
  Overfetch,        \* rows asked of the vector search for each one wanted
  RrfK,             \* RETRIEVAL_RRF_K
  LegacyDataset,    \* DATASET
  Rank(_, _)        \* ts_rank_cd of a document for a set of terms

(* A recipe: [key, dataset, source, minutes, names, terms, chunks].  key
   gives the order of identities; minutes is 0 when no total is known; terms
   are the lexemes of its search document; a chunk of its embedding is
   [current, distance]. *)

First(rows, limit) == SubSeq(rows, 1, IF Len(rows) < limit THEN Len(rows) ELSE limit)
Rows(rows) == { rows[i] : i \in DOMAIN rows }

-----------------------------------------------------------------------------
(* The query of a request: [dish, pantry, minutes, provided].              *)

\* A limit of no minutes, or of more than a day, is none.
TimeCeiling(minutes) == IF minutes \in 1 .. 1440 THEN minutes ELSE Anything

MapRequest(st, dataset) ==
  LET hints == Rows(First(st.pantry, MaxPantryTerms)) IN
  [ terms    |-> IF st.dish # {} THEN st.dish ELSE hints,
    minutes  |-> TimeCeiling(st.minutes),
    dataset  |-> dataset,
    required |-> {},
    matchAny |-> IF st.dish # {} THEN {} ELSE hints,
    boost    |-> IF st.dish # {} THEN hints ELSE {} ]

-----------------------------------------------------------------------------
(* Full text.                                                              *)

WithinCeiling(r, minutes) == minutes = Anything \/ (0 < r.minutes /\ r.minutes <= minutes)

InScope(r, q) ==
  /\ q.dataset \in {Anything, r.dataset}
  /\ q.required \subseteq r.names
  /\ WithinCeiling(r, q.minutes)

Overlaps(r, names) == Cardinality(r.names \cap names)

Matches(r, q) ==
  IF q.matchAny # {} THEN Overlaps(r, q.matchAny) > 0 ELSE q.terms \subseteq r.terms

\* The best single pantry term is worth a quarter of what the text is.
Boost(r, q) ==
  IF q.boost = {} THEN 0
  ELSE CHOOSE best \in { Rank(r, {t}) : t \in q.boost } :
         \A t \in q.boost : Rank(r, {t}) <= best
TextScore(r, q) == PantryWeight * Rank(r, q.terms) + Boost(r, q)

TextBefore(r, s, q) ==
  LET overlap(x) == IF q.matchAny # {} THEN Overlaps(x, q.matchAny) ELSE 0
  IN  \/ overlap(r) > overlap(s)
      \/ overlap(r) = overlap(s) /\ TextScore(r, q) > TextScore(s, q)
      \/ overlap(r) = overlap(s) /\ TextScore(r, q) = TextScore(s, q) /\ r.key < s.key

Search(corpus, q, limit) ==
  First(SetToSortSeq({r \in corpus : InScope(r, q) /\ Matches(r, q)},
                     LAMBDA r, s : TextBefore(r, s, q)), limit)

\* search_recipes reads no dataset as the first one; search_all as all.
OneDataset(q) == [q EXCEPT !.dataset = IF @ = Anything THEN LegacyDataset ELSE @]

\* get_recipe: the exact pair, or the first dataset that has the source.
GetRecipe(corpus, source, dataset) ==
  LET having == {r \in corpus : r.source = source}
      named  == {r \in having : r.dataset = dataset}
      legacy == {r \in having : r.dataset = LegacyDataset}
      pick(some) == CHOOSE r \in some : \A s \in some : r.key <= s.key
  IN  IF dataset # Anything THEN named
      ELSE IF legacy # {} THEN legacy
      ELSE IF having # {} THEN {pick(having)} ELSE {}

-----------------------------------------------------------------------------
(* Vectors.                                                                *)

\* Chunks of another model, dimension, renderer or chunking do not count.
Distances(r) == { c.distance : c \in {c \in r.chunks : c.current} }
Distance(r) == CHOOSE d \in Distances(r) : \A e \in Distances(r) : d <= e

NearBefore(r, s) ==
  Distance(r) < Distance(s) \/ (Distance(r) = Distance(s) /\ r.key < s.key)

\* The nearest are fetched, then those with more of the pantry go first.
VectorBefore(r, s, q) ==
  \/ Overlaps(r, q.boost) > Overlaps(s, q.boost)
  \/ Overlaps(r, q.boost) = Overlaps(s, q.boost) /\ NearBefore(r, s)

VectorCandidates(corpus, q, limit) ==
  LET eligible == {r \in corpus : /\ InScope(r, q) /\ Distances(r) # {}
                                  /\ q.matchAny # {} => Overlaps(r, q.matchAny) > 0}
      nearest  == First(SetToSortSeq(eligible, NearBefore), Overfetch * limit)
  IN  First(SetToSortSeq(Rows(nearest), LAMBDA r, s : VectorBefore(r, s, q)), limit)

ApplyCutoff(rows, cutoff) ==
  IF cutoff = Anything THEN rows ELSE SelectSeq(rows, LAMBDA r : Distance(r) <= cutoff)

\* Reciprocal ranks, summed: 1/(k+i) + 1/(k+j), kept as a fraction.
PlaceOf(r, rows) == CHOOSE i \in DOMAIN rows : rows[i] = r
Fraction(r, fulltext, vector) ==
  LET f == r \in Rows(fulltext)
      v == r \in Rows(vector)
      i == IF f THEN RrfK + PlaceOf(r, fulltext) ELSE 1
      j == IF v THEN RrfK + PlaceOf(r, vector) ELSE 1
  IN  [num |-> (IF f THEN j ELSE 0) + (IF v THEN i ELSE 0), den |-> i * j]

FusedBefore(r, s, fulltext, vector) ==
  LET a == Fraction(r, fulltext, vector)
      b == Fraction(s, fulltext, vector)
  IN  \/ a.num * b.den > b.num * a.den
      \/ a.num * b.den = b.num * a.den /\ r.key < s.key

RrfFuse(fulltext, vector, limit) ==
  First(SetToSortSeq(Rows(fulltext) \cup Rows(vector),
                     LAMBDA r, s : FusedBefore(r, s, fulltext, vector)), limit)

-----------------------------------------------------------------------------
(* The embedding provider.  A reply is [kind, data]: "retryable" a timeout, *)
(* a lost connection, a rate limit or a server error, "fatal" any other,    *)
(* "answer" with the items [index, vector] of data; a vector is [length,    *)
(* finite].                                                                 *)

\* validate_vectors
Usable(vectors, dimension) ==
  vectors # << >> /\ \A i \in DOMAIN vectors :
    vectors[i].length = dimension /\ vectors[i].finite

\* _response_to_result: every index from 0 once, in any order.
ResponseToResult(data, dimension) ==
  LET places  == 1 .. Len(data)
      ordered == [k \in places |-> data[CHOOSE i \in places : data[i].index = k - 1].vector]
  IN  IF { data[i].index : i \in places } = 0 .. Len(data) - 1 /\ Usable(ordered, dimension)
      THEN ordered ELSE << >>

\* Vectors, none when the call fails, and the requests it made.
EmbedTexts(replies, retries, dimension) ==
  LET over == { k \in 1 .. retries + 1 : replies[k].kind # "retryable" \/ k = retries + 1 }
      last == CHOOSE k \in over : \A j \in over : k <= j
  IN  [ attempts |-> last,
        vectors  |-> IF replies[last].kind = "answer"
                     THEN ResponseToResult(replies[last].data, dimension) ELSE << >> ]

\* _pack_jobs: the tokens of the jobs, cut into requests in their order; a
\* job above the limit of an input is refused before.
PackJobs(jobs, maxInputs, maxTokens) ==
  LET tokens(batch) == FoldLeft(LAMBDA n, t : n + t, 0, batch)
      add(batches, job) ==
        IF batches = << >> THEN << <<job>> >>
        ELSE LET last == batches[Len(batches)]
             IN IF Len(last) + 1 > maxInputs \/ tokens(last) + job > maxTokens
                THEN Append(batches, <<job>>)
                ELSE [batches EXCEPT ![Len(batches)] = Append(last, job)]
  IN  FoldLeft(add, << >>, jobs)

-----------------------------------------------------------------------------
(* Modes.  An embedding: "none" no provider, "late" it timed out, "fails"  *)
(* any other error or an answer of the wrong shape, "given" a vector.      *)

\* Only a missing provider and a late answer may fall back.
EmbedQuery(embedding, allowFallback) ==
  IF embedding = "given" THEN "vector"
  ELSE IF embedding \in {"none", "late"} /\ allowFallback THEN "fallback"
  ELSE "unavailable"

Found(rows) == [ok |-> TRUE, rows |-> rows, fallback |-> FALSE, abstains |-> FALSE]
Failed == [ok |-> FALSE, rows |-> << >>, fallback |-> FALSE, abstains |-> FALSE]

\* opts: [mode, limit, candidates, cutoff, gate, allowFallback, embedding]
RetrieveWithMode(corpus, q, opts) ==
  LET fulltext(n) == Search(corpus, q, n)
      embedded    == EmbedQuery(opts.embedding, opts.allowFallback)
      near        == VectorCandidates(corpus, q, opts.candidates)
      kept        == ApplyCutoff(near, opts.cutoff)
      emptied     == opts.cutoff # Anything /\ near # << >> /\ kept = << >>
      text        == fulltext(IF opts.limit > opts.candidates
                              THEN opts.limit ELSE opts.candidates)
      fused       == RrfFuse(text, IF opts.gate /\ text = << >> THEN << >> ELSE kept, opts.limit)
  IN  IF opts.mode = "fulltext" THEN Found(fulltext(opts.limit))
      ELSE IF embedded = "unavailable" THEN Failed
      ELSE IF embedded = "fallback" THEN [Found(fulltext(opts.limit)) EXCEPT !.fallback = TRUE]
      ELSE IF opts.mode = "vector"
        THEN [Found(First(kept, opts.limit)) EXCEPT !.abstains = emptied]
      ELSE [Found(fused) EXCEPT !.abstains = emptied /\ fused = << >>]

-----------------------------------------------------------------------------
(* Tools.  ctx: [engine, mode, enabled, provider, embedding, cutoff].      *)

\* provider: "given" in the context, "disabled", or "none"; one is built
\* where embeddings are enabled.  No mode given is the configured one.
ToolMode(asked, ctx) == IF asked # Anything THEN asked ELSE ctx.mode
Provider(ctx) ==
  IF ctx.provider = "none" /\ ctx.enabled THEN "given" ELSE ctx.provider

Unavailable(reason, next) == [ok |-> FALSE, reason |-> reason, next |-> next]
NotConfigured == Unavailable("tool_not_configured", "contact_operator")
Transient == Unavailable("tool_unavailable", "retry")
Results(mode, cost, rows, match) ==
  [ok |-> TRUE, mode |-> mode, cost |-> cost, rows |-> rows, match |-> match]

\* near: the candidates of the vector search and its cutoff.
VectorTool(ctx, near, cutoff) ==
  IF Provider(ctx) # "given" THEN Unavailable("tool_not_configured", "retry")
  ELSE IF EmbedQuery(ctx.embedding, FALSE) = "unavailable" THEN Transient
  ELSE Results("vector", "paid", ApplyCutoff(near, cutoff), "none")

SearchRecipes(corpus, args, ctx) ==
  LET q == [terms |-> args.query, minutes |-> Anything, dataset |-> Anything,
            required |-> {}, matchAny |-> {}, boost |-> {}]
  IN  IF ~ctx.engine THEN NotConfigured
      ELSE IF ToolMode(args.mode, ctx) = "fulltext"
        THEN Results("fulltext", "free", Search(corpus, q, args.limit), "all")
      ELSE VectorTool(ctx, VectorCandidates(corpus, q, args.limit), ctx.cutoff)

\* A chunk of the technique corpus: [key, terms, chunks], as for recipes.
\* Poultry by its species is also poultry.
PoultryStems == {"chicken", "turkey", "duck", "goos", "gees", "hen"}
HasTerm(c, t) == t \in c.terms \/ (t \in PoultryStems /\ "poultri" \in c.terms)

TechniqueBefore(c, d, terms) ==
  Rank(c, terms) > Rank(d, terms) \/ (Rank(c, terms) = Rank(d, terms) /\ c.key < d.key)

Ranked(chunks, terms, limit) ==
  First(SetToSortSeq(chunks, LAMBDA c, d : TechniqueBefore(c, d, terms)), limit)

\* If no chunk has every term, those that have any.
SearchTechniquesFulltext(chunks, terms, limit) ==
  LET all == {c \in chunks : \A t \in terms : HasTerm(c, t)}
      any == {c \in chunks : \E t \in terms : HasTerm(c, t)}
  IN  IF all # {} THEN [rows |-> Ranked(all, terms, limit), match |-> "all"]
      ELSE [rows |-> Ranked(any, terms, limit), match |-> "any"]

SearchTechniques(chunks, args, ctx) ==
  LET found == SearchTechniquesFulltext(chunks, args.query, args.limit)
      near  == First(SetToSortSeq({c \in chunks : Distances(c) # {}}, NearBefore), args.limit)
  IN  IF ~ctx.engine THEN NotConfigured
      ELSE IF ToolMode(args.mode, ctx) = "fulltext"
        THEN IF ctx.tables THEN Results("fulltext", "free", found.rows, found.match)
             ELSE NotConfigured
      ELSE IF Provider(ctx) = "given" /\ EmbedQuery(ctx.embedding, FALSE) = "vector" /\ ~ctx.tables
        THEN NotConfigured
      ELSE VectorTool(ctx, near, ctx.cutoff)
=============================================================================
