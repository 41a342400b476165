--------------------------- MODULE ChunkedPrefill ---------------------------
(***************************************************************************)
(* scheduler/chunked_prefill.rs: admits, in waiting order and until the    *)
(* token budget is spent, every request whose prompt fits the free blocks, *)
(* with a first chunk of at most chunk_size tokens.                        *)
(***************************************************************************)
EXTENDS Scheduling

CONSTANT ChunkSize   \* chunk_size

\* The first chunk a request gets from a token budget.
FirstChunk(w, r, token_budget) ==
  Least(Least(w[r].prompt, ChunkSize), token_budget)

\* Whether the loop reaches and admits r with budget l: it breaks at a spent
\* token budget, which stays spent.
ChunkedFits(w, r, l) ==
  l.tokens > 0 /\ BlocksFor(w[r].prompt) <= l.blocks

\* The budgets left once the first i waiting requests have been considered;
\* every running request takes one token of the token budget.
ChunkedBudget(w, waiting, running, free_blocks) ==
  LET budget[i \in 0 .. Len(waiting)] ==
        IF i = 0
        THEN [tokens |-> SatSub(MaxBatchTokens, Cardinality(running)),
              blocks |-> free_blocks]
        ELSE LET r == waiting[i]
             IN  IF ChunkedFits(w, r, budget[i - 1])
                 THEN [budget[i - 1] EXCEPT !.tokens = @ - FirstChunk(w, r, @),
                                            !.blocks = @ - BlocksFor(w[r].prompt)]
                 ELSE budget[i - 1]
  IN  budget

\* The admitted positions of waiting, each with its first chunk.
ChunkedAdmit(w, waiting, running, free_blocks) ==
  LET budget == ChunkedBudget(w, waiting, running, free_blocks)
      admitted == {i \in DOMAIN waiting : ChunkedFits(w, waiting[i], budget[i - 1])}
  IN  [i \in admitted |-> FirstChunk(w, waiting[i], budget[i - 1].tokens)]
=============================================================================
