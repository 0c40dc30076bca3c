-------------------------- MODULE MCDraftPromotion --------------------------
\* Two cards on one page, the draft's own and a dashboard's; or the draft's own
\* card on two pages.
EXTENDS DraftPromotion, TLC

CONSTANTS p1, p2, c1, c2

SamePage == (c1 :> [page |-> p1, kind |-> "own"]) @@ (c2 :> [page |-> p1, kind |-> "board"])
TwoPages == (c1 :> [page |-> p1, kind |-> "own"]) @@ (c2 :> [page |-> p2, kind |-> "own"])

BothLayouts == {SamePage, TwoPages}
=============================================================================
