----------------------------- MODULE MCPipeline -----------------------------
(* Sourcing, which may halt, economics and legal, which advise, marketing, which buys ads, and the CFO. *)
EXTENDS Pipeline, TLC

MCHalting == {1}
MCCosting == {2}
MCCounselling == {3}
MCEffects == {4}
MCActionOf == [s \in MCEffects |-> "activate_ads"]

\* Where two workers are at the run at once, one operation, one question and one
\* advice are enough to let each of them find what the other did.
BoundOverlap ==
    overlap =>
        /\ LatestOf(4) <= 1 /\ Len(reviews[4]) <= 1
        /\ requests = 0 /\ enabled
        /\ \A s \in Advising : step[s].advice \in {"NONE", "GO"}

Symmetry == Permutations(Workers)

=============================================================================
