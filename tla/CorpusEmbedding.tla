--------------------------- MODULE CorpusEmbedding ---------------------------
(***************************************************************************)
(* scripts/embeddings/embed.py and scripts/techniques/embed_techniques.py: *)
(* sweeps that embed what is new of a corpus and replace its vectors.      *)
(* Each works in a run directory whose ledger it claims, reads once and    *)
(* rewrites.  The recipe sweep skips what its ledger calls committed and   *)
(* reads every recipe again before it commits; the technique sweep skips   *)
(* what the database has and does not look again.  A text is the number of *)
(* its version; it is one chunk (chunk_embed_text).  The tokens a ledger   *)
(* records are printed and decide nothing.                                 *)
(***************************************************************************)
EXTENDS Integers, FiniteSets

CONSTANTS
  Recipes, Techniques,  \* recipes; chunks of technique documents
  RecipeDirs, TechniqueDirs,
  Sweepers,             \* processes
  Versions,             \* texts
  SendsPerChunk,        \* embed_max_retries + 1
  SweepCeiling,         \* --ceiling-usd, in sends of one chunk
  Oversized,            \* texts that may exceed the input limit
  MayRevert,            \* whether an item may be given a text older than its newest
  None

VARIABLES
  text,     \* the text of an item in the database, None when it is not there
  newest,   \* the newest text it ever had
  stored,   \* the text its vector was made of
  ledgers,  \* the ledger file of a directory, None when it cannot be parsed
  sweep     \* what each process is at

corpusVars == <<text, newest, stored, ledgers, sweep>>

Items == Recipes \cup Techniques
Dirs == RecipeDirs \cup TechniqueDirs
ItemsOf(d) == IF d \in RecipeDirs THEN Recipes ELSE Techniques

Nothing == [i \in Items |-> None]

\* A new run directory: setdefault gives the same to an older file.
FreshLedger == [entries |-> Nothing, status |-> "running", owner |-> None]
SweepLedgers == [entries : [Items -> Versions \cup {None}],
                 status : {"running", "done"}, owner : Sweepers \cup {None}]

Resting == [at |-> "rest", dir |-> None, dry |-> FALSE, mine |-> FreshLedger,
            jobs |-> Nothing, again |-> {}]

Some(jobs) == {i \in Items : jobs[i] # None}

\* Inserted or replaced; the rest of the table is left.
Merged(old, new) == [i \in Items |-> IF new[i] # None THEN new[i] ELSE old[i]]

CorpusInit ==
  /\ \E low \in Versions : /\ \A v \in Versions : low <= v
                           /\ text = [i \in Items |-> low] /\ newest = text
  /\ stored = Nothing
  /\ ledgers = [d \in Dirs |-> FreshLedger]
  /\ sweep = [w \in Sweepers |-> Resting]

-----------------------------------------------------------------------------
(* The corpus.                                                             *)

\* The texts an item may be given.
Later(i) == {v \in Versions : v >= newest[i] \/ MayRevert}

Newer(i, v) == IF v # None /\ v > newest[i] THEN v ELSE newest[i]

\* Deleted and inserted: the vectors of all of them go with the old rows.
Replace(set, given) ==
  /\ text' = [i \in Items |-> IF i \in set THEN given[i] ELSE text[i]]
  /\ newest' = [i \in Items |-> IF i \in set THEN Newer(i, given[i]) ELSE newest[i]]
  /\ stored' = [i \in Items |-> IF i \in set THEN None ELSE stored[i]]
  /\ UNCHANGED <<ledgers, sweep>>

\* A snapshot of the dataset; what is not in it is None.
Import ==
  \E given \in [Recipes -> Versions \cup {None}] :
    /\ \A r \in Recipes : given[r] \in Later(r) \cup {None}
    /\ Replace(Recipes, given)

\* A document whose text changed: all of its chunks.
LoadDocument ==
  \E set \in SUBSET Techniques : \E given \in [set -> Versions \cup {None}] :
    /\ \A c \in set : given[c] \in Later(c) \cup {None}
    /\ Replace(set, given)

\* Recipes of a batch are written over the old ones, whose vectors stay.
Upsert(r, v) ==
  /\ v \in Later(r) \ {text[r]}
  /\ text' = [text EXCEPT ![r] = v]
  /\ newest' = [newest EXCEPT ![r] = Newer(r, v)]
  /\ UNCHANGED <<stored, ledgers, sweep>>

\* A cleanup.
CleanUp(r) ==
  /\ text[r] # None
  /\ text' = [text EXCEPT ![r] = None]
  /\ stored' = [stored EXCEPT ![r] = None]
  /\ UNCHANGED <<newest, ledgers, sweep>>

-----------------------------------------------------------------------------
(* A sweep.                                                                *)

\* A process and its directory; the file is not read for another reason later.
Load(w, d, dry) ==
  /\ sweep[w].at = "rest" /\ ledgers[d] # None
  /\ sweep' = [sweep EXCEPT ![w] =
       [Resting EXCEPT !.at = "loaded", !.dir = d, !.dry = dry, !.mine = ledgers[d]]]
  /\ UNCHANGED <<text, newest, stored, ledgers>>

Alive(w) == sweep[w].at # "rest"

\* _claim_ledger
ClaimRefused(w) ==
  LET mine == sweep[w].mine
  IN /\ mine.status = "running" /\ mine.owner \notin {None, w}
     /\ Alive(mine.owner)

Rests(w) == sweep' = [sweep EXCEPT ![w] = Resting]

\* What was read, with the claim, is written back.
ClaimLedger(w) ==
  /\ sweep[w].at = "loaded" /\ ~sweep[w].dry
  /\ LET mine == [sweep[w].mine EXCEPT !.owner = w]
     IN IF ClaimRefused(w) THEN Rests(w) /\ UNCHANGED ledgers
        ELSE /\ sweep' = [sweep EXCEPT ![w].at = "claimed", ![w].mine = mine]
             /\ ledgers' = [ledgers EXCEPT ![sweep[w].dir] = mine]
  /\ UNCHANGED <<text, newest, stored>>

\* --limit cuts the corpus to those in scope.
RecipeJobs(w, scope) ==
  [i \in Items |-> IF i \in scope \cap Recipes /\ text[i] # sweep[w].mine.entries[i]
                   THEN text[i] ELSE None]

TechniqueJobs(w, scope) ==
  [i \in Items |-> IF i \in scope \cap Techniques /\ text[i] # stored[i]
                   THEN text[i] ELSE None]

Scan(w, scope) ==
  /\ \/ sweep[w].at = "claimed"
     \/ sweep[w].at = "loaded" /\ sweep[w].dry
  /\ sweep' = [sweep EXCEPT ![w].at = "scanned",
       ![w].jobs = IF sweep[w].dir \in RecipeDirs THEN RecipeJobs(w, scope)
                   ELSE TechniqueJobs(w, scope)]
  /\ UNCHANGED <<text, newest, stored, ledgers>>

Estimate(w) == Cardinality(Some(sweep[w].jobs)) * SendsPerChunk

Packable(w) == \A i \in Some(sweep[w].jobs) : sweep[w].jobs[i] \notin Oversized

\* The ledger is written, also by a dry run and above the ceiling; a text
\* above the input limit ends the sweep before that.
Plan(w) ==
  /\ sweep[w].at = "scanned"
  /\ LET within == Estimate(w) <= SweepCeiling
     IN /\ IF within /\ ~Packable(w) THEN UNCHANGED ledgers
           ELSE ledgers' = [ledgers EXCEPT ![sweep[w].dir] = sweep[w].mine]
        /\ IF within /\ Packable(w) /\ ~sweep[w].dry
           THEN sweep' = [sweep EXCEPT ![w].at = "planned"] ELSE Rests(w)
  /\ UNCHANGED <<text, newest, stored>>

\* All batches, in order; recipes are still to be read again.
Embed(w) ==
  /\ sweep[w].at = "planned"
  /\ sweep' = [sweep EXCEPT ![w].at = "embedded",
       ![w].again = IF sweep[w].dir \in RecipeDirs THEN Some(sweep[w].jobs) ELSE {}]
  /\ UNCHANGED <<text, newest, stored, ledgers>>

\* One recipe: dropped when its text is another one now, or gone.
ReadAgain(w, i) ==
  /\ sweep[w].at = "embedded" /\ i \in sweep[w].again
  /\ sweep' = [sweep EXCEPT ![w].again = @ \ {i},
       ![w].jobs[i] = IF text[i] = @ THEN @ ELSE None]
  /\ UNCHANGED <<text, newest, stored, ledgers>>

\* One transaction.  A vector of an item that is gone by now fails it.
Committable(w) ==
  /\ sweep[w].at = "embedded" /\ sweep[w].again = {}
  /\ \A i \in Some(sweep[w].jobs) : text[i] # None

CommitRecipes(w) ==
  /\ sweep[w].dir \in RecipeDirs /\ Committable(w)
  /\ stored' = Merged(stored, sweep[w].jobs)
  /\ sweep' = [sweep EXCEPT ![w].at = "committed",
       ![w].mine.entries = Merged(@, sweep[w].jobs)]
  /\ UNCHANGED <<text, newest, ledgers>>

CommitTechniques(w) ==
  /\ sweep[w].dir \in TechniqueDirs /\ Committable(w)
  /\ stored' = Merged(stored, sweep[w].jobs)
  /\ sweep' = [sweep EXCEPT ![w].at = "committed",
       ![w].mine.entries = Merged(@, sweep[w].jobs)]
  /\ UNCHANGED <<text, newest, ledgers>>

Save(w) ==
  /\ sweep[w].at = "committed"
  /\ ledgers' = [ledgers EXCEPT ![sweep[w].dir] = [sweep[w].mine EXCEPT !.status = "done"]]
  /\ Rests(w)
  /\ UNCHANGED <<text, newest, stored>>

\* The process ends without another write: a batch failed, its transaction
\* failed, it was killed.
End(w) ==
  /\ Alive(w) /\ Rests(w)
  /\ UNCHANGED <<text, newest, stored, ledgers>>

\* It was killed inside a write of the ledger.
Tear(w) ==
  /\ sweep[w].at \in {"loaded", "scanned", "committed"} /\ Rests(w)
  /\ ledgers' = [ledgers EXCEPT ![sweep[w].dir] = None]
  /\ UNCHANGED <<text, newest, stored>>

Step(w) ==
  \/ \E d \in Dirs, dry \in BOOLEAN : Load(w, d, dry)
  \/ ClaimLedger(w)
  \/ \E scope \in SUBSET Items : Scan(w, scope)
  \/ Plan(w) \/ Embed(w)
  \/ \E i \in Items : ReadAgain(w, i)
  \/ CommitRecipes(w) \/ CommitTechniques(w)
  \/ Save(w) \/ End(w) \/ Tear(w)

CorpusNext ==
  \/ Import \/ LoadDocument
  \/ \E r \in Recipes : CleanUp(r) \/ \E v \in Versions : Upsert(r, v)
  \/ \E w \in Sweepers : Step(w)

CorpusSpec == CorpusInit /\ [][CorpusNext]_corpusVars

-----------------------------------------------------------------------------
(* What a sweep passes over: the recipes its ledger calls committed with   *)
(* the text they have (RecipeJobs).                                        *)

PassedOver(d, r) ==
  ledgers[d] # None /\ text[r] # None /\ ledgers[d].entries[r] = text[r]

\* The vector of a recipe that is passed over, if there is one, was made of
\* its text: embed.py, "A source changed during embedding cannot look
\* current" (ReadAgain, CommitRecipes).
NothingStalePasses ==
  \A d \in RecipeDirs, r \in Recipes : PassedOver(d, r) => stored[r] \in {None, text[r]}

\* A recipe that is passed over has a vector: docs/phase5-execution-package.md
\* 136, "Resume is idempotent (re-run embeds only missing/changed chunks)".
\* An import removes them all and the ledger is not told.
MissingIsEmbedded ==
  \A d \in RecipeDirs, r \in Recipes : PassedOver(d, r) => stored[r] # None
=============================================================================
