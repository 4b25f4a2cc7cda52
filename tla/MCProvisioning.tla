--------------------------- MODULE MCProvisioning ---------------------------
(***************************************************************************)
(* Small instances of Provisioning: all registrations have one address, or *)
(* each has its own.                                                       *)
(***************************************************************************)
EXTENDS Provisioning, TLC

CONSTANT Shared  \* do all registrations use one address

MCEmails  == IF Shared THEN {"e"} ELSE Regs
MCEmailOf == [r \in Regs |-> IF Shared THEN "e" ELSE r]

Symmetry == Permutations(Regs) \cup Permutations(Signups)
              \cup Permutations(Hooks) \cup Permutations(Workers)
=============================================================================
