--------------------------- MODULE ContinuousBatch --------------------------
(***************************************************************************)
(* scheduler/continuous_batch.rs: admits, in waiting order, every request  *)
(* whose whole token count fits what is left of the token budget and of    *)
(* the free blocks, passing over those that do not fit.                    *)
(***************************************************************************)
EXTENDS Scheduling

\* Mutant of ContinuousFits: leaves the output out of the token budget.
ContinuousFits_PromptOnly(w, r, l) ==
  /\ w[r].prompt <= l.tokens
  /\ BlocksFor(Tokens(w, r)) <= l.blocks

\* Whether r is admitted with budget l.
ContinuousFits(w, r, l) ==
  /\ Tokens(w, r) <= l.tokens
  /\ BlocksFor(Tokens(w, r)) <= l.blocks

\* The budgets left once the first i waiting requests have been considered;
\* every running request takes its whole token count of the token budget.
ContinuousBudget(w, waiting, running, free_blocks) ==
  LET in_flight == Total(running, [r \in running |-> Tokens(w, r)])
      budget[i \in 0 .. Len(waiting)] ==
        IF i = 0
        THEN [tokens |-> SatSub(MaxBatchTokens, in_flight),
              blocks |-> free_blocks]
        ELSE LET r == waiting[i]
             IN  IF ContinuousFits(w, r, budget[i - 1])
                 THEN [budget[i - 1] EXCEPT !.tokens = @ - Tokens(w, r),
                                            !.blocks = @ - BlocksFor(Tokens(w, r))]
                 ELSE budget[i - 1]
  IN  budget

\* Mutant of ContinuousAdmit: stops at the first request that does not fit.
ContinuousAdmit_StopsEarly(w, waiting, running, free_blocks) ==
  LET budget == ContinuousBudget(w, waiting, running, free_blocks)
  IN  {i \in DOMAIN waiting :
         \A j \in 1 .. i : ContinuousFits(w, waiting[j], budget[j - 1])}

\* The positions of waiting that are admitted.
ContinuousAdmit(w, waiting, running, free_blocks) ==
  LET budget == ContinuousBudget(w, waiting, running, free_blocks)
  IN  {i \in DOMAIN waiting : ContinuousFits(w, waiting[i], budget[i - 1])}
=============================================================================
