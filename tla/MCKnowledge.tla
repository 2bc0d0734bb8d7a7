----------------------------- MODULE MCKnowledge -----------------------------
(* Knowledge over three patterns and a fact, reads limited to two rows.       *)
EXTENDS Knowledge, TLC

CONSTANTS A1, A2, P1, P2, P3, F1, M1, M2
MCModels == {M1, M2}
MCAdmins == {A1, A2}
MCPatterns == {P1, P2, P3}
MCFacts == {F1}
MCOrder == [r \in {P1, P2, P3, F1} |->
              CASE r = P1 -> 1 [] r = P2 -> 2 [] r = P3 -> 3 [] r = F1 -> 4]

Answer(fact, negative, number, condition) ==
  [fact |-> fact, negative |-> negative, number |-> number, condition |-> condition]
Wording(title, answer, asked, raw, sim) ==
  [title |-> title, topic |-> title, answer |-> answer, questions |-> asked,
   raw |-> raw, sim |-> sim, priority |-> 0, chars |-> 1, preset |-> TRUE,
   usable |-> TRUE]
Open == Wording("hours", Answer("open", FALSE, 0, FALSE), {"open?"}, 2, 2)
Closed == Wording("hours", Answer("open", TRUE, 0, FALSE), {"open?"}, 2, 2)
Free == Wording("delivery", Answer("free", FALSE, 500, TRUE), {}, 1, 1)
FreeOver == [Wording("delivery", Answer("free", FALSE, 700, TRUE), {}, 0, 2)
               EXCEPT !.preset = FALSE]
Test == [Wording("delivery", Answer("free", FALSE, 500, FALSE), {"open?"}, 1, 1)
           EXCEPT !.usable = FALSE, !.chars = 3]
MCWordings == {Open, Closed, Free, FreeOver, Test}
MCRewordings == {Closed}
MCStarts == {{<<P1, Open>>, <<P2, Open>>, <<P3, Closed>>}, {<<P1, Open>>, <<F1, Closed>>},
             {<<P1, Free>>, <<F1, FreeOver>>}}
Interchangeable == Permutations(MCAdmins) \union Permutations(MCModels)
=============================================================================
