----------------------------- MODULE MCMigration -----------------------------
(* Two bonded particles, or a single one, on a small grid of ranks.          *)
EXTENDS ParticleMigration

OneBond == [bond \in {"ab"} |-> {"a", "b"}]
NoBond == [bond \in {} |-> {}]

\* The first particle goes anywhere, the other stays, crosses a face or an edge.
FewForTheOther ==
    { m \in [step : [Tags -> Displacements], wide : BOOLEAN] :
        m.step["b"] \in {<<0, 0, 0>>, <<1, 0, 0>>, <<-1, 1, 0>>} }

\* Stays, crosses a face of the axis with three domains or an edge, either way.
FacesAndEdges ==
    { m \in [step : [Tags -> Displacements], wide : {TRUE}] :
        m.step["a"] \in {<<0, 0, 0>>, <<0, 1, 0>>, <<0, -1, 0>>, <<1, 1, 0>>, <<-1, -1, 0>>} }
=============================================================================
