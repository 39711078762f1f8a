-------------------------- MODULE MCClarification --------------------------
(* Small instances of Clarification: two kinds of request, the answers and  *)
(* the proposals that reach every rule, and a store that has to evict.      *)
EXTENDS Clarification, RetrievalRules, TLC

Fields(given) == [t \in Targets |-> IF t \in DOMAIN given THEN given[t] ELSE "empty"]

\* A vague request with two explicit fields, and a ready one without a task.
MCGiven == {Fields([preferences |-> "set", time_minutes |-> "set"]), Fields([dish |-> "set"])}

Says(question, answer) == [question |-> question, answer |-> answer]

MCBatches ==
    { <<Says(Dish, "skip")>>,
      <<Says(Rule("available_ingredients", "ingredients"), "meat"), Says(Screen, "veg")>>,
      <<Says(Screen, "veg"), Says(Detail, "set")>>,
      <<Says(Screen, "none")>>,
      <<Says(Conflict, "meat"), Says(Conflict, "veg")>>,
      <<Says(Confirm("preferences", 1), "change")>> }

Update(target, value, grounded) == [target |-> target, value |-> value, grounded |-> grounded]

MCReplies ==
    { [ok |-> FALSE, updates |-> <<>>, asks |-> {}],
      [ok |-> TRUE, updates |-> <<Update("preferences", "meat", TRUE),
                                  Update("dietary_constraints", "veg", TRUE)>>, asks |-> {}],
      [ok |-> TRUE, updates |-> <<Update("task_scope", "scaling", TRUE)>>,
       asks |-> {"substitution_choice"}] }

MCSymmetry == Permutations(Clients)

-----------------------------------------------------------------------------
(* Retrieval, over a corpus of four recipes.                               *)

MCRank(document, terms) == Cardinality(document.terms \cap terms)

Dish4(key, dataset, minutes, names, terms, chunks) ==
    [key |-> key, dataset |-> dataset, source |-> "s", minutes |-> minutes,
     names |-> names, terms |-> terms, chunks |-> chunks]
Chunk(fresh, distance) == [current |-> fresh, distance |-> distance]

MCCorpus ==
    { Dish4(1, "food", 20, {"rice"}, {"curry", "rice"}, {Chunk(TRUE, 3), Chunk(TRUE, 5)}),
      Dish4(2, "food", 0, {"rice", "oil"}, {"curry", "oil"}, {Chunk(FALSE, 1), Chunk(TRUE, 4)}),
      Dish4(3, "foodie", 50, {"oil"}, {"soup", "oil"}, {Chunk(TRUE, 2)}),
      Dish4(4, "foodie", 20, {}, {"curry"}, {Chunk(FALSE, 1)}) }

MCRequests ==
    [dish : {{}, {"curry"}, {"curry", "soup"}}, pantry : {<<>>, <<"oil">>, <<"rice", "oil">>},
     minutes : {0, 20, 1441}]
MCQueries == { MapRequest(st, dataset) : st \in MCRequests, dataset \in {Anything, "food"} }
Asked == { q \in MCQueries : q.terms # {} }

MCModes ==
    [mode : {"fulltext", "vector", "hybrid"}, limit : {1, 4}, candidates : {2},
     cutoff : {Anything, 1, 3}, gate : BOOLEAN, allowFallback : BOOLEAN,
     embedding : {"none", "late", "fails", "given"}]

\* Of a dish and what is in the pantry, the pantry changes the order only
\* (query.py, D1): every recipe found without it is found with it.
PantryOnlyRanks(st, dataset) ==
    LET q == MapRequest(st, dataset)
    IN  st.dish # {} =>
            /\ Rows(Search(MCCorpus, q, 4)) = Rows(Search(MCCorpus, [q EXCEPT !.boost = {}], 4))
            /\ Rows(VectorCandidates(MCCorpus, q, 4))
                 = Rows(VectorCandidates(MCCorpus, [q EXCEPT !.boost = {}], 4))
ASSUME \A st \in MCRequests : PantryOnlyRanks(st, Anything)

\* Yet where fewer are wanted than are found, the vector search prefers the
\* pantry to any distance: a nearer recipe gives way to it.
PantryBeforeDistance ==
    \E q \in Asked :
        LET with == VectorCandidates(MCCorpus, q, 1)
            bare == VectorCandidates(MCCorpus, [q EXCEPT !.boost = {}], 1)
        IN  with # <<>> /\ with # bare /\ Distance(with[1]) > Distance(bare[1])
ASSUME PantryBeforeDistance

\* Whatever the mode: no row twice, none beyond the time that was asked for
\* or without a known time, none of another dataset; a search by vectors that
\* could not embed fails or says that it fell back, and never fell back for
\* another reason; a cutoff that leaves nothing is said to, and is not filled
\* up from the full text; under the gate nothing is found that no text backs.
ModesKeep(q, opts) ==
    LET r == RetrieveWithMode(MCCorpus, q, opts)
    IN  /\ Cardinality(Rows(r.rows)) = Len(r.rows) /\ Len(r.rows) <= opts.limit
        /\ \A d \in Rows(r.rows) : /\ q.minutes # Anything => d.minutes \in 1 .. q.minutes
                                   /\ q.dataset # Anything => d.dataset = q.dataset
        /\ r.fallback <=> r.ok /\ opts.mode # "fulltext" /\ opts.embedding # "given"
        /\ r.abstains => r.rows = <<>> /\ ~r.fallback
        /\ opts.mode = "vector" /\ opts.embedding = "given" /\ opts.cutoff # Anything =>
               \A d \in Rows(r.rows) : Distance(d) <= opts.cutoff
        /\ opts.mode = "hybrid" /\ opts.gate /\ Search(MCCorpus, q, 4) = <<>> => r.rows = <<>>
ASSUME \A q \in Asked, opts \in MCModes : ModesKeep(q, opts)

\* Fusion respects both rankings: a recipe that neither list places after
\* another, and both hold, is not placed after it.
FusionAgrees(q) ==
    LET text  == Search(MCCorpus, q, 4)
        near  == VectorCandidates(MCCorpus, q, 4)
        fused == RrfFuse(text, near, 4)
        both  == Rows(text) \cap Rows(near)
    IN  \A r, s \in both :
            PlaceOf(r, text) < PlaceOf(s, text) /\ PlaceOf(r, near) < PlaceOf(s, near)
                => PlaceOf(r, fused) < PlaceOf(s, fused)
ASSUME \A q \in Asked : FusionAgrees(q)

\* The tools run the mode that was asked for or the configured one, fail
\* instead of falling back, and never pay for full text.
MCContexts ==
    [engine : BOOLEAN, mode : {"fulltext", "vector"}, enabled : BOOLEAN, tables : BOOLEAN,
     provider : {"given", "disabled", "none"}, embedding : {"late", "given"}, cutoff : {3}]
MCArgs == [query : {{"curry"}, {"chicken", "oil"}}, mode : {Anything, "fulltext", "vector"}, limit : {2}]
MCTechniques ==
    { [key |-> 1, terms |-> {"poultri", "oil"}, chunks |-> {Chunk(TRUE, 4)}],
      [key |-> 2, terms |-> {"oil"}, chunks |-> {Chunk(TRUE, 2)}] }
ToolsKeepMode(args, ctx) ==
    \A r \in {SearchRecipes(MCCorpus, args, ctx), SearchTechniques(MCTechniques, args, ctx)} :
        r.ok => /\ r.mode = ToolMode(args.mode, ctx)
                /\ r.mode = "vector" <=> r.cost = "paid"
                /\ r.mode = "vector" => Provider(ctx) = "given" /\ \A d \in Rows(r.rows) : Distance(d) <= 3
ASSUME \A args \in MCArgs, ctx \in MCContexts : ToolsKeepMode(args, ctx)

\* A partial match is given only for want of a full one, and a species of
\* poultry finds what is said of poultry.
FullFirst ==
    LET found(terms) == SearchTechniquesFulltext(MCTechniques, terms, 2)
    IN  /\ \A terms \in SUBSET {"chicken", "oil", "rice"} :
               found(terms).match = "any" => \A c \in MCTechniques : ~(terms \subseteq c.terms)
        /\ found({"chicken", "oil"}).match = "all" /\ Len(found({"chicken", "oil"}).rows) = 1
ASSUME FullFirst

\* The exact pair is never answered from another dataset; without one the
\* first dataset is.
PairIsExact ==
    /\ \A dataset \in {"food", "foodie", "web"} :
           \A r \in GetRecipe(MCCorpus, "s", dataset) : r.dataset = dataset
    /\ GetRecipe(MCCorpus, "x", Anything) = {}
    /\ \A r \in GetRecipe(MCCorpus, "s", Anything) : r.dataset = LegacyDataset
ASSUME PairIsExact

\* A vector goes to the text it was computed for, in whatever order the
\* answer lists them, and an answer with a hole, a double, a foreign index or
\* a vector that is no number is not used; what may be repeated is, as often
\* as allowed.
Item(index, length, finite) == [index |-> index, vector |-> [length |-> length, finite |-> finite]]
MCItems == [index : -1 .. 2, vector : [length : {2, 3}, finite : BOOLEAN]]
MCAnswers == UNION { [1 .. n -> MCItems] : n \in 0 .. 2 }
VectorsFindTheirTexts ==
    /\ \A data \in MCAnswers : LET given == ResponseToResult(data, 2) IN
           given # <<>> => /\ Len(given) = Len(data)
                           /\ \A i \in DOMAIN data : given[data[i].index + 1] = data[i].vector
                           /\ \A i \in DOMAIN data : data[i].vector = [length |-> 2, finite |-> TRUE]
    /\ ResponseToResult(<<Item(1, 2, TRUE), Item(0, 2, TRUE)>>, 2) # <<>>
    /\ \A kinds \in [1 .. 3 -> {"retryable", "fatal", "answer"}] :
           LET call == EmbedTexts([k \in 1 .. 3 |-> [kind |-> kinds[k], data |-> <<Item(0, 2, TRUE)>>]],
                                  1, 2)
           IN  /\ call.attempts <= 2
               /\ call.attempts = 2 <=> kinds[1] = "retryable"
               /\ call.vectors # <<>> <=> kinds[call.attempts] = "answer"
ASSUME VectorsFindTheirTexts

\* No job is lost, moved or sent twice, and every request keeps both limits.
PackingKeepsLimits ==
    \A jobs \in SeqOf(1 .. 3, 4), maxInputs \in 1 .. 3, maxTokens \in 3 .. 6 :
        LET batches == PackJobs(jobs, maxInputs, maxTokens)
        IN  /\ FlattenSeq(batches) = jobs
            /\ \A b \in DOMAIN batches :
                   /\ Len(batches[b]) \in 1 .. maxInputs
                   /\ FoldLeft(LAMBDA n, t : n + t, 0, batches[b]) <= maxTokens
ASSUME PackingKeepsLimits
============================================================================
