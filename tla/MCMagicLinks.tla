---------------------------- MODULE MCMagicLinks ----------------------------
(***************************************************************************)
(* Instances of MagicLinks: two requests of one recipient.  Either may be  *)
(* the older one: they read the same time, or the second an earlier one.   *)
(***************************************************************************)
EXTENDS MagicLinks, TLC

MCLinks == {1, 2}
MCClock == (1 :> {0, 1}) @@ (2 :> {0})
ExchangeSymmetry == Permutations(Exchanges)
=============================================================================
