--------------------------- MODULE MCModelRoutes ---------------------------
(* Two profiles and the snapshots a host may try to publish, valid or not. *)
EXTENDS ModelRoutes

P == [role |-> "worker", profile |-> "p"]
Q == [role |-> "reviewer", profile |-> "q"]
Both == [profiles |-> {"p", "q"}, broken |-> {}, tuned |-> {"p"}, worker |-> "p", reviewer |-> "q"]
OnlyP == [Both EXCEPT !.profiles = {"p"}, !.reviewer = None]

Offer(registry, candidates, allowed) ==
    [registry |-> registry, candidates |-> candidates, allowed |-> allowed]

AllOffers ==
    {Offer(Both, <<P, Q>>, {P, Q}), Offer(Both, <<P, Q>>, {P}), Offer(Both, <<Q>>, {Q}),
     Offer(OnlyP, <<P, Q>>, {P, Q}), Offer(Both, <<>>, {}), Offer(Both, <<P, P>>, {P}),
     Offer(Both, <<P, Q, P>>, {P}), Offer([Both EXCEPT !.broken = {"q"}], <<P>>, {P})}
=============================================================================
