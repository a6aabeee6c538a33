---------------------------- MODULE MCRunEngine ----------------------------
(***************************************************************************)
(* Pipelines for model checking the run engine.  Each is the smallest one  *)
(* with the structure its runs need.                                       *)
(***************************************************************************)
EXTENDS RunEngine

Skill(review, context, mode) ==
  [kind |-> "skill", review |-> review, context |-> context, mode |-> mode]
ReviewOnly(context, mode) ==
  [kind |-> "review", review |-> 0, context |-> context, mode |-> mode]
Action == [kind |-> "action", review |-> 0, context |-> {}, mode |-> "always_proceed"]

\* A skill stage with a review-fix loop of two passes, then the action that publishes it.
LoopPipeline == << Skill(2, {}, "conditional"), Action >>

\* An unattended skill stage, an action, and a review that can send back to the first.
SendBackPipeline == << Skill(0, {}, "always_proceed"), Action, ReviewOnly({1}, "conditional") >>

\* One stage, at whose boundary a human may be asked.
OneStage == << Skill(0, {}, "conditional") >>

=============================================================================
