---------------------------- MODULE MCRegulatory ----------------------------
(***************************************************************************)
(* A restriction of a regulation and an obligation of a directive, and one *)
(* analysis while people and the sources go on.                            *)
(***************************************************************************)
EXTENDS Regulatory, TLC

CONSTANTS reach, toys, decree, chemical, safety, a1

MCNormOf == (chemical :> reach) @@ (safety :> toys)
MCKindOf == (chemical :> "restriction") @@ (safety :> "obligation")

Eu(act) == [found |-> TRUE, inForce |-> "yes", ended |-> FALSE, act |-> act]
MCEuSays ==
    (reach :> {Eu("regulation"), [Eu("regulation") EXCEPT !.inForce = "no"]}) @@ (toys :> {Eu("directive")})

Good == [consolidated |-> TRUE, flag |-> "none", consolidation |-> "finished", annulled |-> FALSE,
         absent |-> FALSE, relations |-> {[code |-> "transposes", names |-> "this"]}]
MCNationalSays == decree :> {Good, [Good EXCEPT !.flag = "ended"],
                           [Good EXCEPT !.relations = @ \cup {[code |-> "partially", names |-> "this"]}]}
=============================================================================
