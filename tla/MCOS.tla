-------------------------------- MODULE MCOS --------------------------------
(* Instances of OS for TLC. *)
EXTENDS OS, TLC

\* Four processes: two due at once on the level with quota 2 and on the one with
\* quota 1, one due right after and one late.
MCstart4    == <<0, 0, 1, 5>>
MCprio4     == <<0, 1, 0, 1>>
MCpriority4 == <<1, 0, 0, 0>>
MCsize4     == <<3, 3, 1, 4>>

\* One process on the last level, whose quota is one dispatch.
MCstart1    == <<0>>
MCprio1     == <<1>>
MCpriority1 == <<0>>
MCsize1     == <<3>>
=============================================================================
