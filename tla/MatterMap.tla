------------------------------- MODULE MatterMap -------------------------------
(***************************************************************************)
(* src/matter/include/matterMap.h: a map from ids to values, kept as a     *)
(* vector ordered by id.  A map is a sequence of entries; `default` is the *)
(* T() of its values.  The mutex is only used by at() (see README).  IdMap *)
(* is the function a map is meant to be.                                   *)
(***************************************************************************)
EXTENDS Naturals, SequencesExt, FiniteSetsExt, IdMap

Entry(id, value) == [id |-> id, value |-> value]

\* Mutant: the search stops one entry too far on a hit.
UpperBound(m, id) == 1 + Quantify(DOMAIN m, LAMBDA i : m[i].id <= id)

\* std::lower_bound, which is meant for ordered vectors only.
LowerBound(m, id) == 1 + Quantify(DOMAIN m, LAMBDA i : m[i].id < id)

ContainsId(m, id) == LET at == LowerBound(m, id) IN at \in DOMAIN m /\ m[at].id = id

\* at(), get() and the const operator[].
Get(m, id, default) == IF ContainsId(m, id) THEN m[LowerBound(m, id)].value ELSE default

\* The other operator[] makes an entry of an id it does not find.
Subscript(m, id, default) ==
    IF ContainsId(m, id) THEN m ELSE InsertAt(m, LowerBound(m, id), Entry(id, default))

Store(m, id, value) == [Subscript(m, id, value) EXCEPT ![LowerBound(m, id)].value = value]

\* insert_block overwrites the entries that continue the block without a gap;
\* the rest of the block goes in front of whatever comes next.
InsertBlock(m, start, values) ==
    LET at      == LowerBound(m, start)
        matches == Quantify(DOMAIN values, LAMBDA n :
                       \A k \in 1..n : at + k - 1 \in DOMAIN m /\ m[at + k - 1].id = start + k - 1)
        block   == [k \in DOMAIN values |-> Entry(start + k - 1, values[k])]
    IN  SubSeq(m, 1, at - 1) \o block \o SubSeq(m, at + matches, Len(m))

-------------------------------------------------------------------------------
Ids(m) == {m[i].id : i \in DOMAIN m}

Ordered(m) == \A i, j \in DOMAIN m : i < j => m[i].id < m[j].id

\* The map a function over some ids is kept in: an entry of each id, in order.
MapOf(f) == CHOOSE m \in [1 .. Cardinality(DOMAIN f) -> {Entry(id, f[id]) : id \in DOMAIN f}] :
                Ordered(m)

AsFunction(m) == [id \in Ids(m) |-> m[CHOOSE i \in DOMAIN m : m[i].id = id].value]

\* The function after insert_block of a block of values from `start` on.
WithBlock(f, start, values) ==
    Over([i \in start .. (start + Len(values) - 1) |-> values[i - start + 1]], f)

\* The map has the first `known` ids of the block and no other of them.
Continued(f, start, values, known) ==
    DOMAIN f \intersect start .. (start + Len(values) - 1) = start .. (start + known - 1)

\* What the operations do to the function; `block` is <<first id, values>>, and
\* continues what the map has, without an id of its past a gap.
ActsAsFunction(f, id, value, block) ==
    LET m == MapOf(f)
    IN  /\ Ordered(m) /\ AsFunction(m) = f
        /\ ContainsId(m, id) <=> Has(f, id)
        /\ Get(m, id, value) = At(f, id, value)
        /\ Store(m, id, value) = MapOf(Put(f, id, value))
        /\ Subscript(m, id, value) = MapOf(Touch(f, id, value))
        /\ (\E known \in 0 .. Len(block[2]) : Continued(f, block[1], block[2], known)) =>
             InsertBlock(m, block[1], block[2]) = MapOf(WithBlock(f, block[1], block[2]))

\* "ordered map" (matterMap.h:15) that "updates or inserts a consecutive block of
\* registers" (matterMap.h:94): so does any block.
BlockActsAsOver(f, block) ==
    InsertBlock(MapOf(f), block[1], block[2]) = MapOf(WithBlock(f, block[1], block[2]))
===============================================================================
