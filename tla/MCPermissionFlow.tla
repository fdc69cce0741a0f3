--------------------------- MODULE MCPermissionFlow ---------------------------
(* The onboarding pane and deferring rails, or rails that share the lock.   *)
EXTENDS PermissionFlow, TLC
CONSTANTS i1, i2, i3
MCInstances == {i1, i2, i3}
MCRoleMixes ==
  {(i1 :> "onboarding") @@ (i2 :> "deferring") @@ (i3 :> "deferring"),
   (i1 :> "coordinated") @@ (i2 :> "deferring") @@ (i3 :> "deferring"),
   (i1 :> "coordinated") @@ (i2 :> "coordinated") @@ (i3 :> "deferring")}

\* No instance waits for ever: an answer reaches it, and when nobody shows a
\* prompt somebody comes to.
NobodyWaitsForEver == OrphansPrompt /\ AnswerReachesRails
==============================================================================
