---------------------------- MODULE MCProvision ----------------------------
\* Provision with interchangeable runs of two builds: the older one with a writer
\* password, the newer with a viewer password or with both.
EXTENDS Provision, TLC

MCOptions == {[writer |-> "given", plot |-> "convention", version |-> 1],
              [writer |-> "convention", plot |-> "given", version |-> 2],
              [writer |-> "given", plot |-> "given", version |-> 2]}
RunSymmetry == Permutations(Run)
=============================================================================
