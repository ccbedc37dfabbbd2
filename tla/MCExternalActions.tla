------------------------ MODULE MCExternalActions ------------------------
(***************************************************************************)
(* Small instances of ExternalActions.  `ads` has a provider that honours  *)
(* keys, `listing` one that can be asked what it did.                      *)
(***************************************************************************)
EXTENDS ExternalActions, TLC

CONSTANTS ads, listing, small, large, e1, e2

OneSite == {ads}
TwoSites == {ads, listing}
OneSiteReferences == OneSite \X (1..MaxSequence)
TwoSitesReferences == TwoSites \X (1..MaxSequence)

OneRequest == {large}
TwoRequests == {small, large}
OneAmount == large :> 2
TwoAmounts == (small :> 1) @@ (large :> 2)

OneExecutor == {e1}
TwoExecutors == {e1, e2}
ExecutorSymmetry == Permutations(TwoExecutors)

HonoursKeys == {ads}
IgnoresKeys == {}
NoLookup == {}
CanBeAsked == {listing}

==========================================================================
