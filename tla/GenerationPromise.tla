-------------------------- MODULE GenerationPromise --------------------------
(***************************************************************************)
(* What the generation flow promises its user, whatever it does inside:    *)
(* nothing is written before an outline was approved, the flow says        *)
(* "finished" only after the service had the work completed, and it may be *)
(* given up or left to the service at any time.  That the work stays       *)
(* completed is not promised: the service may move it as it likes.         *)
(***************************************************************************)
VARIABLES
  stage,  \* what the user is shown
  work    \* the service's job for the lessons, as far as this flow has one

Stages == {"planning", "outlining", "reviewing", "writing", "concluding",
           "detached", "finished"}
Works  == {"none", "open", "completed", "failed", "cancelled"}

PromiseInit == stage = "planning" /\ work = "none"

Plan    == stage \in {"planning", "reviewing"} /\ stage' = "outlining" /\ work' = "none"
Present == stage \in {"planning", "outlining"} /\ stage' = "reviewing" /\ work' = "none"
Approve == stage = "reviewing" /\ stage' = "writing" /\ work' = "none"
Submit  == stage = "writing" /\ work = "none" /\ work' = "open" /\ UNCHANGED stage
Move    == work # "none" /\ work' \in Works \ {"none"} /\ UNCHANGED stage
Detach  == stage = "writing" /\ work # "none" /\ stage' = "detached" /\ UNCHANGED work
Conclude == stage = "writing" /\ work = "completed"
              /\ stage' = "concluding" /\ UNCHANGED work
Finish   == stage = "concluding" /\ stage' = "finished" /\ UNCHANGED work
GiveUp  == stage' \in {"planning", "reviewing"} /\ work' = "none"
             /\ (stage' = "reviewing" => stage = "writing")

PromiseNext == Plan \/ Present \/ Approve \/ Submit \/ Move \/ Detach
                 \/ Conclude \/ Finish \/ GiveUp
PromiseSpec == PromiseInit /\ [][PromiseNext]_<<stage, work>>
=============================================================================
