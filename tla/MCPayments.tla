----------------------------- MODULE MCPayments -----------------------------
(***************************************************************************)
(* Small instances of Payments.                                            *)
(***************************************************************************)
EXTENDS Payments, TLC

CONSTANTS p1, p2, ours, theirs, e1, e2, e3, webhook, other, sweeper

OneAttempt == {p1}
TwoAttempts == {p1, p2}
OneRefund == {ours}
OneProviderRefund == {theirs}
TwoEvents == {e1, e2}
ThreeEvents == {e1, e2, e3}
OneIngress == {webhook}
TwoIngress == {webhook, other}
OneSweeper == {sweeper}
Nobody == {}

RefundSymmetry == Permutations(ThreeEvents) \cup Permutations(TwoIngress)
Symmetric == Permutations(ThreeEvents) \cup Permutations(TwoAttempts)

=============================================================================
