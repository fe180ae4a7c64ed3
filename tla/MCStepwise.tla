----------------------------- MODULE MCStepwise -----------------------------
(***************************************************************************)
(* Two tasks, so that one may cut the other short at any await; a sleep in *)
(* each, so that there are two deadlines to choose from; and a read in     *)
(* front of one.  Two passes: one that is overtaken and the one that       *)
(* overtakes it, or one that stops and the one that replays it.            *)
(***************************************************************************)
EXTENDS Stepwise, TLC

CONSTANTS b1, b2

MCBranches == {b1, b2}
MCScript == b1 :> <<"step", "sleep">> @@ b2 :> <<"receive", "await", "sleep">>
MCDuration == b1 :> 2 @@ b2 :> 1
MCOwned == {"group", "capture"}
MCGathered == {"gather"}
MCWaits == b1 :> <<"step", "sleep">> @@ b2 :> <<"await">>
=============================================================================
