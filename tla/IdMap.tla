--------------------------------- MODULE IdMap ---------------------------------
(***************************************************************************)
(* What a MatterMap promises (src/matter/include/matterMap.h): a function  *)
(* from the ids it has been given to their values.  MatterMap is how it is *)
(* kept; the modules that use one use the function.                        *)
(***************************************************************************)
NoIds == [id \in {} |-> id]

\* f where it is defined, g elsewhere.
Over(f, g) == [id \in DOMAIN f \union DOMAIN g |-> IF id \in DOMAIN f THEN f[id] ELSE g[id]]

Has(m, id) == id \in DOMAIN m

\* at(), get() and the const operator[].
At(m, id, default) == IF Has(m, id) THEN m[id] ELSE default

\* The other operator[]: an id it does not find gets an entry.
Touch(m, id, default) == Over(m, [i \in {id} |-> default])

Put(m, id, value) == Over([i \in {id} |-> value], m)
===============================================================================
