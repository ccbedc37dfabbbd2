------------------------------- MODULE MCChat -------------------------------
(***************************************************************************)
(* One task and one approval with money set aside.                         *)
(***************************************************************************)
EXTENDS Chat, TLC

CONSTANTS r1, r2, p1, p2, task, approval1, k1, k2

Symmetry == Permutations(Requests) \cup Permutations(Proposals) \cup Permutations(Keys)

\* While the model works, the other request only resolves an approval or begins.
BoundOverlap ==
    \A r, s \in Requests :
        (r # s /\ request[r].pc \in {"thinking", "tools"}) =>
            request[s].pc \in {"idle", "received", "claimed", "resolving"}
=============================================================================
