-------------------------- MODULE MCGenerationJobs --------------------------
(***************************************************************************)
(* Small instances of GenerationJobs: at most one course, whose lesson     *)
(* jobs are the lessons that are not requested on their own.               *)
(***************************************************************************)
EXTENDS GenerationJobs, TLC

CONSTANT Standalone  \* the lessons requested by GenerateLessonContent

MCParentOf == [l \in Lessons |->
                 IF l \in Standalone THEN NoJob ELSE CHOOSE p \in Parents : TRUE]

Symmetry == Permutations(Workers) \cup Permutations(Lessons \ Standalone)
=============================================================================
