--------------------------- MODULE MCBuildStages ---------------------------
(* Dockerfiles of up to three stages, with any reference to an earlier     *)
(* stage, and stages without an instruction.                               *)
EXTENDS BuildStages

CONSTANT MaxStages

McStages(i) == [from : 0..(i - 1), steps : 0..1]

McDockerfiles ==
    UNION {{f \in [1..n -> [from : 0..(n - 1), steps : 0..1]] :
              \A i \in 1..n : f[i] \in McStages(i)} : n \in 1..MaxStages}
=============================================================================
