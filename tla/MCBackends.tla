------------------------------ MODULE MCBackends ------------------------------
(* Three samples: libquic.so and libquic.dylib share a stem and are universal, *)
(* the third is a file of its own.                                             *)
(* Of the two agents that reopen the recorded backend, one.                    *)
EXTENDS Backends, TLC

CONSTANTS so, dylib, other

MCStem == [s \in Samples |-> IF s \in {so, dylib} THEN "libquic" ELSE "picoquic"]

MCAgents == <<"static_analysis", "api_crossrefs", "quic_binary_assessment">>

\* The two siblings are alike.
MCSymmetry == Permutations({so, dylib})

==============================================================================
