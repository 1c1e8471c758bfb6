------------------------------- MODULE MCMatter -------------------------------
(* One endpoint, two clusters, two attributes; maps and values enumerated. *)
EXTENDS MatterNode, MatterMap

Value == INSTANCE MatterValue

\* MatterMap is a map: every operation (see ActsAsFunction), on every map of ids
\* 0..3 to two values, and for every block of at most three values that continues
\* the map.  (These say nothing of the node: checking them in its initial states
\* is enough.)
MapIsFunction ==
    Init => \A ids \in SUBSET (0..3) : \A f \in [ids -> {"v", "w"}] :
        \A id \in 0..3 : \A vals \in {<<"w">>, <<"w", "w">>, <<"w", "v", "w">>} :
            ActsAsFunction(f, id, "w", <<id, vals>>)

\* insert_block takes in any block (see BlockActsAsOver), also one with ids that
\* the map has past a gap.
BlocksKeepTheMap ==
    Init => \A ids \in SUBSET (0..3) : \A f \in [ids -> {"v"}] :
        \A id \in 0..3 : \A vals \in {<<"w">>, <<"w", "w">>, <<"w", "w", "w">>} :
            BlockActsAsOver(f, <<id, vals>>)

\* MatterValue gives back what was assigned to it (see ReadsBack), for every tag,
\* type, and _typeCreate.
ValueReadsBack ==
    Init => \A tag \in (UNION {Value!Accepts[t] : t \in Value!CppTypes})
                        \union {Value!Plain("INVALID")} :
        \A t, other \in Value!CppTypes, creates \in BOOLEAN :
            Value!ReadsBack([tag |-> tag, val |-> Value!Bytes(3), typeCreate |-> creates],
                            t, Value!Bytes(5), other)
===============================================================================
