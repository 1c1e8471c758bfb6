------------------------------ MODULE MatterProofs ------------------------------
(***************************************************************************)
(* The objects of a Matter node and the map they are kept in, for any ids  *)
(* and bounds.                                                             *)
(*   - PopulatedUnlessAskedEarly is inductive once the entries without an  *)
(*     object are known to be those somebody had looked up, and every      *)
(*     attribute of the data model to have an entry, with or without one.  *)
(*   - MapActsAsFunction and BlockActsAsFunction: a vector in order, with  *)
(*     the operations of MatterMap, is the function of IdMap the node      *)
(*     uses.  The first place not below an id takes the place of an        *)
(*     induction over the search.  BlockKeepsOrder: past a gap it is not.  *)
(*     EveryMapActsAsFunction: the same of every function, since each has  *)
(*     one vector (VectorExists, VectorsEqual).                            *)
(*   - ValuesReadBack: a tagged value gives back what was assigned to it.  *)
(***************************************************************************)
EXTENDS MCMatter, SequenceTheorems, FiniteSetTheorems, WellFoundedInduction, TLAPS

(* The operations of a map *)

LEMMA TouchIs ==
  ASSUME NEW m, NEW id, NEW default
  PROVE  /\ DOMAIN Touch(m, id, default) = DOMAIN m \union {id}
         /\ \A x \in DOMAIN m \union {id} :
              Touch(m, id, default)[x] = IF x \in DOMAIN m THEN m[x] ELSE default
  BY DEF Touch, Over

LEMMA PutIs ==
  ASSUME NEW m, NEW id, NEW value
  PROVE  /\ DOMAIN Put(m, id, value) = DOMAIN m \union {id}
         /\ \A x \in DOMAIN m \union {id} :
              Put(m, id, value)[x] = IF x = id THEN value ELSE m[x]
  BY DEF Put, Over

LEMMA NoIdsIs == DOMAIN NoIds = {}
  BY DEF NoIds

-------------------------------------------------------------------------------
(* The objects and the data model *)

\* An entry is the object of an attribute there is, or a lookup that came early;
\* every attribute has an entry.
EntryOK(c, a) ==
    /\ a \in DOMAIN attributesMap[c] =>
         \/ attributesMap[c][a] = NewAttribute(c, a) /\ <<c, a>> \in sdkAttributes
         \/ attributesMap[c][a] = Null /\ <<c, a>> \in asked
    /\ <<c, a>> \in sdkAttributes => a \in DOMAIN attributesMap[c]

ObjectsInv ==
    /\ DOMAIN endpointsMap \subseteq {Endpoint} /\ DOMAIN clustersMap \subseteq Clusters
    /\ sdkClusters \subseteq Clusters
    /\ \A c \in Clusters : HasCluster(c) <=> c \in sdkClusters
    /\ attributesMap = [c \in Clusters |-> attributesMap[c]]
    /\ \A c \in Clusters : /\ DOMAIN attributesMap[c] \subseteq Attributes
                           /\ attributesMap[c] # NoIds => c \in sdkClusters
    /\ \A c \in Clusters, a \in Attributes : EntryOK(c, a)

LEMMA ObjectsInit == Init => ObjectsInv
  BY NoIdsIs DEF Init, ObjectsInv, EntryOK, HasCluster, At, Has

LEMMA ObjectsUntouched ==
  ASSUME ObjectsInv, UNCHANGED dataVars
  PROVE  ObjectsInv'
  BY DEF ObjectsInv, EntryOK, HasCluster, dataVars

LEMMA ObjectsReset ==
  ASSUME FactoryReset
  PROVE  ObjectsInv'
  BY NoIdsIs DEF FactoryReset, ObjectsInv, EntryOK, HasCluster, At, Has

\* An object is not null.
LEMMA Objects ==
  /\ \A c : NewCluster(c) # Null
  /\ \A c, a : NewAttribute(c, a) # Null
  BY DEF NewCluster, NewAttribute, Null

LEMMA ObjectsCreateEndpoint ==
  ASSUME ObjectsInv, NEW cs \in SUBSET Clusters, NEW as \in SUBSET Attributes,
         CreateEndpoint(cs, as)
  PROVE  ObjectsInv'
  <1>1. DOMAIN endpointsMap' \subseteq {Endpoint}
    BY PutIs DEF CreateEndpoint, ObjectsInv
  <1>2. /\ sdkClusters' = cs /\ DOMAIN clustersMap' = cs
        /\ \A c \in cs : clustersMap'[c] = NewCluster(c)
    BY DEF CreateEndpoint, PopulateCluster
  <1>3. \A c \in Clusters : HasCluster(c)' <=> c \in sdkClusters'
    BY <1>2, Objects DEF HasCluster, At, Has
  <1>4. attributesMap' = [c \in Clusters |-> Populate(NoIds, c, AttributesIn(sdkAttributes', c))]
    BY DEF CreateEndpoint
  <1>5. \A c \in Clusters : /\ DOMAIN attributesMap'[c] = AttributesIn(sdkAttributes', c)
                            /\ \A a \in AttributesIn(sdkAttributes', c) :
                                 attributesMap'[c][a] = NewAttribute(c, a)
    <2> SUFFICES ASSUME NEW c \in Clusters
                 PROVE  /\ DOMAIN attributesMap'[c] = AttributesIn(sdkAttributes', c)
                        /\ \A a \in AttributesIn(sdkAttributes', c) :
                             attributesMap'[c][a] = NewAttribute(c, a)
      OBVIOUS
    <2>1. attributesMap'[c] = Populate(NoIds, c, AttributesIn(sdkAttributes', c))
      BY <1>4
    <2>2. QED
      BY <2>1, NoIdsIs DEF Populate, Over
  <1>6. \A c \in Clusters, a \in Attributes : EntryOK(c, a)'
    BY <1>5 DEF EntryOK, AttributesIn
  <1>7. \A c \in Clusters : attributesMap'[c] # NoIds => c \in sdkClusters'
    <2> SUFFICES ASSUME NEW c \in Clusters, c \notin cs PROVE attributesMap'[c] = NoIds
      BY <1>2
    <2>1. AttributesIn(sdkAttributes', c) = {}
      BY DEF CreateEndpoint, AttributesIn
    <2>2. QED
      BY <1>4, <2>1, NoIdsIs DEF Populate, Over, NoIds
  <1>8. QED
    BY <1>1, <1>2, <1>3, <1>4, <1>5, <1>6, <1>7 DEF ObjectsInv, AttributesIn

LEMMA ObjectsCreateCluster ==
  ASSUME ObjectsInv, NEW c \in Clusters, NEW as \in SUBSET Attributes, NEW ok \in BOOLEAN,
         CreateCluster(c, as, ok)
  PROVE  ObjectsInv'
  <1>1. CASE ~ok
    BY <1>1, ObjectsUntouched DEF CreateCluster, dataVars
  <1>2. CASE ok
    <2>1. /\ sdkClusters' = sdkClusters \union {c}
          /\ sdkAttributes' = sdkAttributes \union ({c} \X as)
          /\ clustersMap' = Put(clustersMap, c, NewCluster(c))
          /\ attributesMap' = [attributesMap EXCEPT
                                 ![c] = Populate(NoIds, c, AttributesIn(sdkAttributes', c))]
          /\ asked' = {p \in asked : p[1] # c}
          /\ endpointsMap' = endpointsMap
      BY <1>2 DEF CreateCluster
    <2>11. /\ DOMAIN clustersMap' = DOMAIN clustersMap \union {c}
           /\ \A d \in DOMAIN clustersMap \union {c} :
                clustersMap'[d] = IF d = c THEN NewCluster(c) ELSE clustersMap[d]
      BY <2>1 DEF Put, Over
    <2>2. DOMAIN clustersMap' \subseteq Clusters
      BY <2>11 DEF ObjectsInv
    <2>3. \A d \in Clusters : HasCluster(d)' <=> d \in sdkClusters'
      BY <2>1, <2>11, Objects DEF ObjectsInv, HasCluster, At, Has
    <2>4. /\ DOMAIN attributesMap'[c] = AttributesIn(sdkAttributes', c)
          /\ \A a \in AttributesIn(sdkAttributes', c) : attributesMap'[c][a] = NewAttribute(c, a)
      <3>1. attributesMap'[c] = Populate(NoIds, c, AttributesIn(sdkAttributes', c))
        BY <2>1 DEF ObjectsInv
      <3>2. QED
        BY <3>1, NoIdsIs DEF Populate, Over
    <2>5. \A d \in Clusters \ {c} : attributesMap'[d] = attributesMap[d]
      BY <2>1 DEF ObjectsInv
    <2>6. \A a \in Attributes : EntryOK(c, a)'
      BY <2>4 DEF EntryOK, AttributesIn
    <2>7. ASSUME NEW d \in Clusters \ {c}, NEW a \in Attributes
          PROVE  EntryOK(d, a)'
      BY <2>1, <2>5 DEF ObjectsInv, EntryOK
    <2>8. \A d \in Clusters : /\ DOMAIN attributesMap'[d] \subseteq Attributes
                              /\ attributesMap'[d] # NoIds => d \in sdkClusters'
      BY <2>1, <2>4, <2>5 DEF ObjectsInv, AttributesIn
    <2>9. attributesMap' = [d \in Clusters |-> attributesMap'[d]]
      BY <2>1 DEF ObjectsInv
    <2>10. QED
      BY <2>1, <2>2, <2>3, <2>6, <2>7, <2>8, <2>9 DEF ObjectsInv
  <1>3. QED
    BY <1>1, <1>2

LEMMA ObjectsAddFeature ==
  ASSUME ObjectsInv, NEW c \in Clusters, NEW as \in SUBSET Attributes, AddFeature(c, as)
  PROVE  ObjectsInv'
  <1>1. /\ sdkAttributes' = sdkAttributes \union ({c} \X as)
        /\ attributesMap' = [attributesMap EXCEPT
                               ![c] = Populate(attributesMap[c], c, AttributesIn(sdkAttributes', c))]
        /\ UNCHANGED <<sdkClusters, endpointsMap, clustersMap, asked>>
    BY DEF AddFeature
  <1>2. c \in sdkClusters
    BY DEF AddFeature, ObjectsInv
  <1>3. /\ DOMAIN attributesMap'[c] = DOMAIN attributesMap[c] \union AttributesIn(sdkAttributes', c)
        /\ \A a \in DOMAIN attributesMap'[c] :
             attributesMap'[c][a] = IF a \in DOMAIN attributesMap[c] THEN attributesMap[c][a]
                                                                     ELSE NewAttribute(c, a)
    <2>1. attributesMap'[c] = Populate(attributesMap[c], c, AttributesIn(sdkAttributes', c))
      BY <1>1 DEF ObjectsInv
    <2>2. QED
      BY <2>1 DEF Populate, Over
  <1>4. \A d \in Clusters \ {c} : attributesMap'[d] = attributesMap[d]
    BY <1>1 DEF ObjectsInv
  <1>5. ASSUME NEW a \in Attributes
        PROVE  EntryOK(c, a)'
    BY <1>1, <1>3 DEF ObjectsInv, EntryOK, AttributesIn
  <1>6. ASSUME NEW d \in Clusters \ {c}, NEW a \in Attributes
        PROVE  EntryOK(d, a)'
    BY <1>1, <1>4 DEF ObjectsInv, EntryOK
  <1>7. \A d \in Clusters : /\ DOMAIN attributesMap'[d] \subseteq Attributes
                            /\ attributesMap'[d] # NoIds => d \in sdkClusters'
    BY <1>1, <1>2, <1>3, <1>4 DEF ObjectsInv, AttributesIn
  <1>8. attributesMap' = [d \in Clusters |-> attributesMap'[d]]
    BY <1>1 DEF ObjectsInv
  <1>9. QED
    BY <1>1, <1>5, <1>6, <1>7, <1>8 DEF ObjectsInv, HasCluster

LEMMA ObjectsAddAttribute ==
  ASSUME ObjectsInv, NEW c \in Clusters, NEW a \in Attributes, AddAttribute(c, a)
  PROVE  ObjectsInv'
  <1>1. /\ sdkAttributes' = sdkAttributes \union {<<c, a>>}
        /\ attributesMap' = [attributesMap EXCEPT
                               ![c] = Put(attributesMap[c], a, NewAttribute(c, a))]
        /\ UNCHANGED <<sdkClusters, endpointsMap, clustersMap, asked>>
    BY DEF AddAttribute
  <1>2. c \in sdkClusters
    BY DEF AddAttribute, ObjectsInv
  <1>3. /\ DOMAIN attributesMap'[c] = DOMAIN attributesMap[c] \union {a}
        /\ \A b \in DOMAIN attributesMap'[c] :
             attributesMap'[c][b] = IF b = a THEN NewAttribute(c, a) ELSE attributesMap[c][b]
    <2>1. attributesMap'[c] = Put(attributesMap[c], a, NewAttribute(c, a))
      BY <1>1 DEF ObjectsInv
    <2>2. QED
      BY <2>1 DEF Put, Over
  <1>4. \A d \in Clusters \ {c} : attributesMap'[d] = attributesMap[d]
    BY <1>1 DEF ObjectsInv
  <1>5. ASSUME NEW b \in Attributes
        PROVE  EntryOK(c, b)'
    BY <1>1, <1>3 DEF ObjectsInv, EntryOK
  <1>6. ASSUME NEW d \in Clusters \ {c}, NEW b \in Attributes
        PROVE  EntryOK(d, b)'
    BY <1>1, <1>4 DEF ObjectsInv, EntryOK
  <1>7. \A d \in Clusters : /\ DOMAIN attributesMap'[d] \subseteq Attributes
                            /\ attributesMap'[d] # NoIds => d \in sdkClusters'
    BY <1>1, <1>2, <1>3, <1>4 DEF ObjectsInv
  <1>8. attributesMap' = [d \in Clusters |-> attributesMap'[d]]
    BY <1>1 DEF ObjectsInv
  <1>9. QED
    BY <1>1, <1>5, <1>6, <1>7, <1>8 DEF ObjectsInv, HasCluster

LEMMA ObjectsLookups ==
  ASSUME ObjectsInv,
         GetEndpoint \/ \E c \in Clusters : GetCluster(c) \/ \E a \in Attributes : GetAttribute(c, a)
  PROVE  ObjectsInv'
  <1>1. CASE GetEndpoint
    <2>1. DOMAIN Touch(endpointsMap, Endpoint, Null) = DOMAIN endpointsMap \union {Endpoint}
      BY TouchIs
    <2>2. QED
      BY <1>1, <2>1 DEF GetEndpoint, ObjectsInv, EntryOK, HasCluster
  <1>2. ASSUME NEW c \in Clusters, GetCluster(c)
        PROVE  ObjectsInv'
    <2>1. /\ DOMAIN clustersMap' = DOMAIN clustersMap \union {c}
          /\ \A d \in DOMAIN clustersMap' :
               clustersMap'[d] = IF d \in DOMAIN clustersMap THEN clustersMap[d] ELSE Null
      <3>1. clustersMap' = Touch(clustersMap, c, Null)
        BY <1>2 DEF GetCluster
      <3>2. QED
        BY <3>1 DEF Touch, Over
    <2>2. \A d \in Clusters : HasCluster(d)' <=> HasCluster(d)
      BY <2>1 DEF HasCluster, At, Has
    <2>3. QED
      BY <1>2, <2>1, <2>2 DEF GetCluster, ObjectsInv, EntryOK
  <1>3. ASSUME NEW c \in Clusters, NEW a \in Attributes, GetAttribute(c, a)
        PROVE  ObjectsInv'
    <2>1. /\ attributesMap' = [attributesMap EXCEPT ![c] = Touch(attributesMap[c], a, Null)]
          /\ asked' = IF Has(attributesMap[c], a) THEN asked ELSE asked \union {<<c, a>>}
          /\ UNCHANGED <<sdkClusters, sdkAttributes, endpointsMap, clustersMap>>
      BY <1>3 DEF GetAttribute
    <2>2. c \in sdkClusters
      BY <1>3 DEF GetAttribute, ObjectsInv
    <2>3. /\ DOMAIN attributesMap'[c] = DOMAIN attributesMap[c] \union {a}
          /\ \A b \in DOMAIN attributesMap'[c] :
               attributesMap'[c][b] = IF b \in DOMAIN attributesMap[c] THEN attributesMap[c][b]
                                                                       ELSE Null
      <3>1. attributesMap'[c] = Touch(attributesMap[c], a, Null)
        BY <2>1 DEF ObjectsInv
      <3>2. QED
        BY <3>1 DEF Touch, Over
    <2>4. \A d \in Clusters \ {c} : attributesMap'[d] = attributesMap[d]
      BY <2>1 DEF ObjectsInv
    <2>5. ASSUME NEW b \in Attributes
          PROVE  EntryOK(c, b)'
      BY <2>1, <2>3 DEF ObjectsInv, EntryOK, Has
    <2>6. ASSUME NEW d \in Clusters \ {c}, NEW b \in Attributes
          PROVE  EntryOK(d, b)'
      BY <2>1, <2>4 DEF ObjectsInv, EntryOK
    <2>7. \A d \in Clusters : /\ DOMAIN attributesMap'[d] \subseteq Attributes
                              /\ attributesMap'[d] # NoIds => d \in sdkClusters'
      BY <2>1, <2>2, <2>3, <2>4 DEF ObjectsInv
    <2>8. attributesMap' = [d \in Clusters |-> attributesMap'[d]]
      BY <2>1 DEF ObjectsInv
    <2>9. QED
      BY <2>1, <2>5, <2>6, <2>7, <2>8 DEF ObjectsInv, HasCluster
  <1>4. QED
    BY <1>1, <1>2, <1>3

\* Once the node has been built only a factory reset changes objects.
LEMMA ObjectsStay ==
  ASSUME ObjectsInv,
         \/ \E e \in Endpoints, c \in Clusters, a \in Attributes :
              RegisterAttrUpdateHandler(e, c, a) \/ AttributeUpdate(e, c, a)
         \/ \E e \in Endpoints : RegisterIdentifyHandler(e) \/ Identification(e)
         \/ Start \/ RunHandler
         \/ Commissioned \/ AdministratorOpens \/ WindowTimesOut \/ FabricRemoved
         \/ \E ok \in BOOLEAN : HandleFabricRemoved(ok)
  PROVE  ObjectsInv'
  <1>1. UNCHANGED dataVars
    BY DEF RegisterAttrUpdateHandler, AttributeUpdate, RegisterIdentifyHandler, Identification,
       Start, RunHandler, Commissioned, AdministratorOpens, WindowTimesOut, FabricRemoved,
       HandleFabricRemoved, Fabric
  <1>2. QED
    BY <1>1, ObjectsUntouched

LEMMA ObjectsNext ==
  ASSUME ObjectsInv, [Next]_vars
  PROVE  ObjectsInv'
  <1>1. CASE UNCHANGED vars
    BY <1>1, ObjectsUntouched DEF vars, dataVars
  <1>2. CASE Next
    BY <1>2, ObjectsCreateEndpoint, ObjectsCreateCluster, ObjectsAddFeature, ObjectsAddAttribute,
       ObjectsLookups, ObjectsStay, ObjectsReset DEF Next
  <1>3. QED
    BY <1>1, <1>2

-------------------------------------------------------------------------------
(* Handlers, calls and fabrics *)

\* How many handlers an attribute has.
HandlersOf(e, c, a) == At(At(At(handlersMap, e, NoIds), c, NoIds), a, 0)

Call == {<<e>> : e \in Endpoints} \union (Endpoints \X Clusters \X Attributes \X Nat)

CallsInv ==
    /\ DOMAIN handlersMap \union DOMAIN identifyMap \subseteq Endpoints
    /\ \A e \in Endpoints, c \in Clusters, a \in Attributes : HandlersOf(e, c, a) \in Nat
    /\ calls \in Seq(Call)

FabricsInv ==
    /\ started \in BOOLEAN /\ crash \in BOOLEAN /\ window \in BOOLEAN /\ openFailed \in BOOLEAN
    /\ fabrics \in 0..MaxFabrics /\ removals \in 0..MaxFabrics

LEMMA CallsInit == Init => CallsInv
  <1> SUFFICES ASSUME Init PROVE CallsInv
    OBVIOUS
  <1>1. handlersMap = NoIds /\ identifyMap = NoIds /\ calls = <<>>
    BY DEF Init
  <1>2. \A e, c, a : HandlersOf(e, c, a) = 0
    BY <1>1, NoIdsIs DEF HandlersOf, At, Has
  <1>3. QED
    BY <1>1, <1>2, NoIdsIs DEF CallsInv

LEMMA CallsUntouched ==
  ASSUME CallsInv, UNCHANGED <<handlerVars, calls>>
  PROVE  CallsInv'
  BY DEF CallsInv, HandlersOf, handlerVars

LEMMA CallsReset ==
  ASSUME FactoryReset
  PROVE  CallsInv'
  <1>1. handlersMap' = NoIds /\ identifyMap' = NoIds /\ calls' = <<>>
    BY DEF FactoryReset
  <1>2. \A e, c, a : HandlersOf(e, c, a)' = 0
    BY <1>1, NoIdsIs DEF HandlersOf, At, Has
  <1>3. QED
    BY <1>1, <1>2, NoIdsIs DEF CallsInv

LEMMA CallsRegister ==
  ASSUME CallsInv, NEW e \in Endpoints, NEW c \in Clusters, NEW a \in Attributes,
         RegisterAttrUpdateHandler(e, c, a)
  PROVE  CallsInv'
  <1> DEFINE clusters   == At(handlersMap, e, NoIds)
             attributes == At(clusters, c, NoIds)
             counts     == Put(attributes, a, At(attributes, a, 0) + 1)
  <1>1. /\ handlersMap' = Put(handlersMap, e, Put(clusters, c, counts))
        /\ identifyMap' = identifyMap /\ calls' = calls
    BY DEF RegisterAttrUpdateHandler
  <1>2. At(attributes, a, 0) \in Nat
    BY DEF CallsInv, HandlersOf
  <1>3. ASSUME NEW e2 \in Endpoints, NEW c2 \in Clusters, NEW a2 \in Attributes
        PROVE  HandlersOf(e2, c2, a2)' = IF e2 = e /\ c2 = c /\ a2 = a
                                           THEN At(attributes, a, 0) + 1 ELSE HandlersOf(e2, c2, a2)
    <2>1. At(handlersMap', e2, NoIds) = IF e2 = e THEN Put(clusters, c, counts)
                                                  ELSE At(handlersMap, e2, NoIds)
      BY <1>1 DEF At, Has, Put, Over
    <2>2. At(Put(clusters, c, counts), c2, NoIds) = IF c2 = c THEN counts
                                                              ELSE At(clusters, c2, NoIds)
      BY DEF At, Has, Put, Over
    <2>3. At(counts, a2, 0) = IF a2 = a THEN At(attributes, a, 0) + 1 ELSE At(attributes, a2, 0)
      BY DEF At, Has, Put, Over
    <2> HIDE DEF clusters, counts
    <2>4. QED
      BY <2>1, <2>2, <2>3 DEF HandlersOf, clusters
  <1>4. \A e2 \in Endpoints, c2 \in Clusters, a2 \in Attributes : HandlersOf(e2, c2, a2)' \in Nat
    BY <1>2, <1>3 DEF CallsInv
  <1>5. DOMAIN handlersMap' = DOMAIN handlersMap \union {e}
    BY <1>1, PutIs
  <1>6. QED
    BY <1>1, <1>4, <1>5 DEF CallsInv

LEMMA CallsIdentify ==
  ASSUME CallsInv, NEW e \in Endpoints, RegisterIdentifyHandler(e)
  PROVE  CallsInv'
  <1>1. identifyMap' = Put(identifyMap, e, TRUE) /\ UNCHANGED <<handlersMap, calls>>
    BY DEF RegisterIdentifyHandler
  <1>2. DOMAIN identifyMap' = DOMAIN identifyMap \union {e}
    BY <1>1, PutIs
  <1>3. QED
    BY <1>1, <1>2 DEF CallsInv, HandlersOf

LEMMA CallsUpdate ==
  ASSUME CallsInv, NEW e \in Endpoints, NEW c \in Clusters, NEW a \in Attributes,
         AttributeUpdate(e, c, a)
  PROVE  CallsInv'
  <1>1. UNCHANGED <<handlersMap, identifyMap>>
    BY DEF AttributeUpdate, handlerVars
  <1>2. \/ calls' = calls
        \/ calls' = calls \o [i \in 1..HandlersOf(e, c, a) |-> <<e, c, a, i>>]
    BY DEF AttributeUpdate, HandlersOf
  <1>3. HandlersOf(e, c, a) \in Nat
    BY DEF CallsInv
  <1> DEFINE n    == HandlersOf(e, c, a)
             more == [i \in 1..n |-> <<e, c, a, i>>]
  <1>4. more \in Seq(Call)
    <2>1. \A i \in Nat : <<e, c, a, i>> \in Call
      BY DEF Call
    <2>2. more \in [1..n -> Call]
      BY <1>3, <2>1
    <2> HIDE DEF more
    <2>3. QED
      BY <1>3, <2>2
  <1>5. calls' = calls \/ calls' = calls \o more
    BY <1>2
  <1> HIDE DEF more
  <1>6. calls' \in Seq(Call)
    <2>1. calls \in Seq(Call)
      BY DEF CallsInv
    <2>2. calls \o more \in Seq(Call)
      BY <1>4, <2>1, ConcatProperties
    <2>3. QED
      BY <1>5, <2>1, <2>2
  <1>7. QED
    BY <1>1, <1>6 DEF CallsInv, HandlersOf

LEMMA CallsNext ==
  ASSUME CallsInv, [Next]_vars
  PROVE  CallsInv'
  <1>1. CASE UNCHANGED vars
    BY <1>1, CallsUntouched DEF vars
  <1>2. ASSUME NEW cs \in SUBSET Clusters, NEW as \in SUBSET Attributes, CreateEndpoint(cs, as)
        PROVE  CallsInv'
    BY <1>2, CallsUntouched DEF CreateEndpoint, Building
  <1>3. ASSUME NEW c \in Clusters, NEW as \in SUBSET Attributes, NEW ok \in BOOLEAN,
               CreateCluster(c, as, ok) \/ AddFeature(c, as)
        PROVE  CallsInv'
    BY <1>3, CallsUntouched DEF CreateCluster, AddFeature, Building
  <1>4. ASSUME NEW c \in Clusters, NEW a \in Attributes,
               AddAttribute(c, a) \/ GetCluster(c) \/ GetAttribute(c, a)
        PROVE  CallsInv'
    BY <1>4, CallsUntouched DEF AddAttribute, GetCluster, GetAttribute, Building
  <1>5. ASSUME NEW c \in Clusters, GetCluster(c)
        PROVE  CallsInv'
    BY <1>5, CallsUntouched DEF GetCluster, Building
  <1>6. CASE GetEndpoint
    BY <1>6, CallsUntouched DEF GetEndpoint, Building
  <1>7. ASSUME NEW e \in Endpoints, Identification(e)
        PROVE  CallsInv'
    <2>1. <<e>> \in Call
      BY DEF Call
    <2>2. calls' \in Seq(Call) /\ UNCHANGED <<handlersMap, identifyMap>>
      BY <1>7, <2>1 DEF Identification, CallsInv, handlerVars
    <2>3. QED
      BY <2>2 DEF CallsInv, HandlersOf
  <1>8. CASE RunHandler
    <2>1. calls' \in Seq(Call) /\ UNCHANGED <<handlersMap, identifyMap>>
      BY <1>8 DEF RunHandler, CallsInv, handlerVars
    <2>2. QED
      BY <2>1 DEF CallsInv, HandlersOf
  <1>9. CASE Start
    BY <1>9, CallsUntouched DEF Start
  <1>10. CASE Commissioned \/ AdministratorOpens \/ WindowTimesOut \/ FabricRemoved
                \/ \E ok \in BOOLEAN : HandleFabricRemoved(ok)
    BY <1>10, CallsUntouched
       DEF Commissioned, AdministratorOpens, WindowTimesOut, FabricRemoved, HandleFabricRemoved, Fabric
  <1>11. QED
    BY <1>1, <1>2, <1>3, <1>4, <1>5, <1>6, <1>7, <1>8, <1>9, <1>10, CallsRegister, CallsIdentify,
       CallsUpdate, CallsReset DEF Next

LEMMA FabricsInit == Init => FabricsInv
  <1> SUFFICES ASSUME Init PROVE FabricsInv
    OBVIOUS
  <1>1. started = FALSE /\ crash = FALSE /\ openFailed = FALSE /\ window = (fabrics = 0)
        /\ fabrics \in 0..1 /\ removals = 0
    BY DEF Init
  <1>2. fabrics \in 0..MaxFabrics /\ removals \in 0..MaxFabrics
    BY <1>1, MatterAssumption
  <1>3. QED
    BY <1>1, <1>2 DEF FabricsInv

LEMMA FabricsNext ==
  ASSUME FabricsInv, [Next]_vars
  PROVE  FabricsInv'
  <1>1. MaxFabrics \in Nat \ {0}
    BY MatterAssumption
  <1>2. CASE UNCHANGED <<started, crash, fabricVars>>
    BY <1>2 DEF fabricVars, FabricsInv
  <1>3. CASE Start
    <2>1. started' \in BOOLEAN /\ UNCHANGED <<crash, fabrics, window, removals, openFailed>>
      BY <1>3 DEF Start, fabricVars
    <2>2. QED
      BY <2>1 DEF FabricsInv
  <1>4. CASE FactoryReset
    <2>1. started' = FALSE /\ crash' = FALSE /\ window' = TRUE /\ openFailed' = FALSE
          /\ fabrics' = 0 /\ removals' = 0
      BY <1>4 DEF FactoryReset
    <2>2. fabrics' \in 0..MaxFabrics /\ removals' \in 0..MaxFabrics
      BY <1>1, <2>1
    <2>3. QED
      BY <2>1, <2>2 DEF FabricsInv
  <1>5. ASSUME NEW e \in Endpoints, NEW c \in Clusters, NEW a \in Attributes,
               AttributeUpdate(e, c, a)
        PROVE  FabricsInv'
    <2>1. crash' \in BOOLEAN
      BY <1>5 DEF AttributeUpdate, FabricsInv
    <2>2. UNCHANGED <<started, fabrics, window, removals, openFailed>>
      BY <1>5 DEF AttributeUpdate, fabricVars
    <2>3. QED
      BY <2>1, <2>2 DEF FabricsInv
  <1>6. CASE Commissioned \/ AdministratorOpens \/ WindowTimesOut \/ FabricRemoved
    <2>1. fabrics' \in 0..MaxFabrics /\ removals' \in 0..MaxFabrics
      BY <1>1, <1>6 DEF Commissioned, AdministratorOpens, WindowTimesOut, FabricRemoved, FabricsInv
    <2>2. window' \in BOOLEAN /\ openFailed' \in BOOLEAN
      BY <1>6 DEF Commissioned, AdministratorOpens, WindowTimesOut, FabricRemoved, FabricsInv
    <2>3. UNCHANGED <<started, crash>>
      BY <1>6 DEF Commissioned, AdministratorOpens, WindowTimesOut, FabricRemoved, Fabric
    <2>4. QED
      BY <2>1, <2>2, <2>3 DEF FabricsInv
  <1>7. ASSUME NEW ok \in BOOLEAN, HandleFabricRemoved(ok)
        PROVE  FabricsInv'
    <2>1. removals' \in 0..MaxFabrics /\ UNCHANGED <<started, crash, fabrics>>
      BY <1>1, <1>7 DEF HandleFabricRemoved, Fabric, FabricsInv
    <2>2. (window' = window \/ window' = ok) /\ (openFailed' = openFailed \/ openFailed' = ~ok)
      BY <1>7 DEF HandleFabricRemoved
    <2>3. QED
      BY <2>1, <2>2 DEF FabricsInv
  <1>8. ASSUME NEW c \in Clusters,
               \/ \E as \in SUBSET Attributes, ok \in BOOLEAN : CreateCluster(c, as, ok)
               \/ \E as \in SUBSET Attributes : AddFeature(c, as)
               \/ \E a \in Attributes : AddAttribute(c, a)
               \/ GetCluster(c)
               \/ \E a \in Attributes : GetAttribute(c, a)
        PROVE  UNCHANGED <<started, crash, fabricVars>>
    BY <1>8 DEF CreateCluster, AddFeature, AddAttribute, GetCluster, GetAttribute, Building
  <1>9. ASSUME \/ \E cs \in SUBSET Clusters, as \in SUBSET Attributes : CreateEndpoint(cs, as)
               \/ GetEndpoint \/ RunHandler
               \/ \E e \in Endpoints, c \in Clusters, a \in Attributes :
                    RegisterAttrUpdateHandler(e, c, a)
               \/ \E e \in Endpoints : RegisterIdentifyHandler(e) \/ Identification(e)
        PROVE  UNCHANGED <<started, crash, fabricVars>>
    BY <1>9 DEF CreateEndpoint, GetEndpoint, Building, RunHandler, RegisterAttrUpdateHandler,
       RegisterIdentifyHandler, Identification
  <1>10. QED
    BY <1>2, <1>3, <1>4, <1>5, <1>6, <1>7, <1>8, <1>9 DEF Next, vars

-------------------------------------------------------------------------------
(* The theorems about the node *)

IInv == ObjectsInv /\ CallsInv /\ FabricsInv

\* The inductive invariant: what the objects, the SDK's data model, the handlers
\* and the calls owe each other in every reachable state, for any ids, numbers
\* of handlers and fabrics.
THEOREM MatterCorrect == Spec => []IInv
  <1>1. Init => IInv
    BY ObjectsInit, CallsInit, FabricsInit DEF IInv
  <1>2. IInv /\ [Next]_vars => IInv'
    BY ObjectsNext, CallsNext, FabricsNext DEF IInv
  <1>3. QED
    BY <1>1, <1>2, PTL DEF Spec

\* A cluster has an object exactly when the SDK's endpoint has it, only clusters
\* with an object have attributes, and every variable keeps its type.
THEOREM MatterTypes == Spec => []TypeOK
  <1>1. IInv => TypeOK
    <2> SUFFICES ASSUME IInv PROVE TypeOK
      OBVIOUS
    <2>1. {started, crash, window, openFailed} \subseteq BOOLEAN
          /\ fabrics \in 0..MaxFabrics /\ removals \in 0..MaxFabrics
      BY DEF IInv, FabricsInv
    <2>2. \A i \in DOMAIN calls : Len(calls[i]) \in {1, 4}
      <3>1. \A call \in Call : Len(call) \in {1, 4}
        BY DEF Call
      <3>2. QED
        BY <3>1 DEF IInv, CallsInv
    <2>3. DOMAIN handlersMap \union DOMAIN identifyMap \subseteq Endpoints
      BY DEF IInv, CallsInv
    <2>4. QED
      BY <2>1, <2>2, <2>3 DEF IInv, ObjectsInv, TypeOK
  <1>2. QED
    BY <1>1, MatterCorrect, PTL

\* Every attribute of the data model has an object and every object an
\* attribute, except those looked up before they existed (matterCluster.cpp:67,
\* 36), in whatever order endpoints, clusters, features and attributes come.
THEOREM PopulatedHolds == Spec => []PopulatedUnlessAskedEarly
  <1>1. IInv => PopulatedUnlessAskedEarly
    BY Objects DEF IInv, ObjectsInv, EntryOK, PopulatedUnlessAskedEarly, At, Has
  <1>2. QED
    BY <1>1, MatterCorrect, PTL

-------------------------------------------------------------------------------
(* The vector of a MatterMap acts as the function *)

Entries(V) == [id : Nat, value : V]

Vectors(V) == {m \in Seq(Entries(V)) : Ordered(m)}

\* A set of naturals that is not empty has a least element.
LEMMA Least ==
  ASSUME NEW S \in SUBSET Nat, S # {}
  PROVE  \E x \in S : \A y \in S : x <= y
  <1> DEFINE Less == {ss \in Nat \X Nat : ss[1] < ss[2]}
  <1>1. IsWellFoundedOn(Less, Nat)
    BY NatLessThanWellFounded DEF OpToRel
  <1>2. PICK x \in S : \A y \in S : ~(<<y, x>> \in Less)
    <2> HIDE DEF Less
    <2> QED
      BY <1>1, WFMin
  <1>3. ASSUME NEW y \in S PROVE x <= y
    <2>1. x \in Nat /\ y \in Nat
      OBVIOUS
    <2>2. ~(<<y, x>> \in Less)
      BY <1>2
    <2>3. QED
      BY <2>1, <2>2
  <1>4. QED
    BY <1>3

\* A vector is a sequence, and its ids are numbers.
LEMMA VectorIs ==
  ASSUME NEW V, NEW m \in Vectors(V)
  PROVE  /\ m \in Seq(Entries(V)) /\ Len(m) \in Nat /\ DOMAIN m = 1 .. Len(m)
         /\ \A i \in 1 .. Len(m) : m[i].id \in Nat
         /\ \A i, j \in 1 .. Len(m) : i < j => m[i].id < m[j].id
  <1>1. m \in Seq(Entries(V)) /\ Ordered(m)
    BY DEF Vectors
  <1>2. Len(m) \in Nat /\ DOMAIN m = 1 .. Len(m) /\ \A i \in 1 .. Len(m) : m[i] \in Entries(V)
    BY <1>1
  <1>3. \A e \in Entries(V) : e.id \in Nat
    BY DEF Entries
  <1>4. QED
    BY <1>1, <1>2, <1>3 DEF Ordered

\* lower_bound finds the first entry that is not below the id.
LEMMA LowerBoundIs ==
  ASSUME NEW V, NEW m \in Vectors(V), NEW id \in Nat
  PROVE  /\ LowerBound(m, id) \in 1 .. Len(m) + 1
         /\ \A i \in 1 .. Len(m) : i < LowerBound(m, id) <=> m[i].id < id
  <1> DEFINE below == {i \in DOMAIN m : m[i].id < id}
             rest  == {i \in 1 .. Len(m) + 1 : i \notin below}
  <1>1. m \in Seq(Entries(V)) /\ Len(m) \in Nat /\ DOMAIN m = 1 .. Len(m)
    BY VectorIs
  <1>2. \A i \in 1 .. Len(m) : m[i].id \in Nat
    BY VectorIs
  <1>3. PICK l \in rest : \A i \in rest : l <= i
    <2>1. Len(m) + 1 \in rest
      BY <1>1
    <2>2. rest \in SUBSET Nat
      BY <1>1
    <2> HIDE DEF rest
    <2>3. QED
      BY <2>1, <2>2, Least
  <1>4. l \in 1 .. Len(m) + 1
    OBVIOUS
  <1>5. \A i \in 1 .. Len(m) : i < l => m[i].id < id
    BY <1>1, <1>3, <1>4
  <1>6. \A i \in 1 .. Len(m) : l <= i => ~(m[i].id < id)
    <2> SUFFICES ASSUME NEW i \in 1 .. Len(m), l <= i PROVE ~(m[i].id < id)
      OBVIOUS
    <2>1. l \in 1 .. Len(m) /\ ~(m[l].id < id)
      BY <1>1, <1>4
    <2>2. l = i \/ m[l].id < m[i].id
      BY <1>1, <2>1, VectorIs
    <2>3. QED
      BY <1>2, <2>1, <2>2
  <1>7. below = 1 .. (l - 1)
    BY <1>1, <1>4, <1>5, <1>6
  <1>8. Cardinality(below) = l - 1
    <2>1. l \in Int /\ l - 1 \in Int /\ 1 \in Int /\ l >= 1
      BY <1>1, <1>4
    <2>2. Cardinality(1 .. (l - 1)) = IF 1 > l - 1 THEN 0 ELSE l - 1 - 1 + 1
      BY <2>1, FS_Interval
    <2>3. IF 1 > l - 1 THEN l - 1 = 0 ELSE l - 1 - 1 + 1 = l - 1
      BY <2>1
    <2> HIDE DEF below
    <2>4. QED
      BY <1>7, <2>2, <2>3
  <1>9. LowerBound(m, id) = l
    BY <1>4, <1>8 DEF LowerBound, Quantify
  <1>10. QED
    BY <1>1, <1>4, <1>5, <1>6, <1>9

\* The id is found exactly where its entry is.
LEMMA Lookup ==
  ASSUME NEW V, NEW m \in Vectors(V), NEW id \in Nat
  PROVE  /\ ContainsId(m, id) <=> \E i \in 1 .. Len(m) : m[i].id = id
         /\ \A i \in 1 .. Len(m) : m[i].id = id <=> i = LowerBound(m, id) /\ ContainsId(m, id)
  <1> DEFINE l == LowerBound(m, id)
  <1>1. m \in Seq(Entries(V)) /\ Len(m) \in Nat /\ DOMAIN m = 1 .. Len(m)
    BY VectorIs
  <1>2. \A i \in 1 .. Len(m) : m[i].id \in Nat
    BY VectorIs
  <1>3. l \in 1 .. Len(m) + 1 /\ \A i \in 1 .. Len(m) : i < l <=> m[i].id < id
    BY LowerBoundIs
  <1>4. ContainsId(m, id) <=> l \in 1 .. Len(m) /\ m[l].id = id
    BY <1>1 DEF ContainsId
  <1> HIDE DEF l
  <1>5. ASSUME NEW i \in 1 .. Len(m), m[i].id = id
        PROVE  i = l
    <2>1. ~(i < l)
      BY <1>3, <1>5
    <2>2. CASE l < i
      <3>1. l \in 1 .. Len(m) /\ m[l].id < m[i].id
        BY <1>1, <1>3, <2>2, VectorIs
      <3>2. l < l
        BY <1>3, <1>5, <3>1
      <3>3. QED
        BY <1>3, <3>2
    <2>3. QED
      BY <1>1, <1>3, <2>1, <2>2
  <1>6. QED
    BY <1>4, <1>5 DEF l

\* The function of a vector, by its entries.
LEMMA FunctionIs ==
  ASSUME NEW V, NEW m \in Vectors(V)
  PROVE  /\ DOMAIN AsFunction(m) = {m[i].id : i \in 1 .. Len(m)}
         /\ \A i \in 1 .. Len(m) : AsFunction(m)[m[i].id] = m[i].value
  <1>1. m \in Seq(Entries(V)) /\ Len(m) \in Nat /\ DOMAIN m = 1 .. Len(m)
    BY VectorIs
  <1>2. DOMAIN AsFunction(m) = {m[i].id : i \in 1 .. Len(m)}
    BY <1>1 DEF AsFunction, Ids
  <1>3. ASSUME NEW i \in 1 .. Len(m)
        PROVE  AsFunction(m)[m[i].id] = m[i].value
    <2> DEFINE j == CHOOSE k \in DOMAIN m : m[k].id = m[i].id
    <2>1. j \in 1 .. Len(m) /\ m[j].id = m[i].id
      BY <1>1
    <2>2. m[i].id \in Nat
      BY VectorIs
    <2> HIDE DEF j
    <2>3. j = i
      BY <2>1, <2>2, Lookup
    <2>4. AsFunction(m)[m[i].id] = m[j].value
      BY <1>1 DEF AsFunction, Ids, j
    <2>5. QED
      BY <2>3, <2>4
  <1>4. QED
    BY <1>2, <1>3

\* Where the entries of a vector go when one is inserted.
LEMMA InsertAtIs ==
  ASSUME NEW S, NEW m \in Seq(S), NEW l \in 1 .. Len(m) + 1, NEW e \in S
  PROVE  /\ InsertAt(m, l, e) \in Seq(S)
         /\ Len(InsertAt(m, l, e)) = Len(m) + 1
         /\ \A i \in 1 .. Len(m) + 1 :
              InsertAt(m, l, e)[i] = IF i < l THEN m[i] ELSE IF i = l THEN e ELSE m[i - 1]
  <1> DEFINE first == SubSeq(m, 1, l - 1)
             last  == SubSeq(m, l, Len(m))
  <1>1. Len(m) \in Nat /\ l \in Nat /\ l >= 1 /\ l <= Len(m) + 1
    OBVIOUS
  <1>2. first \in Seq(S) /\ Len(first) = l - 1 /\ \A i \in 1 .. (l - 1) : first[i] = m[i]
    BY <1>1
  <1>3. last \in Seq(S) /\ Len(last) = Len(m) - l + 1
        /\ \A i \in 1 .. (Len(m) - l + 1) : last[i] = m[l + i - 1]
    BY <1>1
  <1>4. InsertAt(m, l, e) = first \o <<e>> \o last
    BY DEF InsertAt
  <1> HIDE DEF first, last
  <1>5. /\ first \o <<e>> \in Seq(S) /\ Len(first \o <<e>>) = l
        /\ \A i \in 1 .. l : (first \o <<e>>)[i] = IF i < l THEN m[i] ELSE e
    BY <1>1, <1>2
  <1> DEFINE front == first \o <<e>>
  <1>6. front \in Seq(S) /\ Len(front) = l /\ \A i \in 1 .. l : front[i] = IF i < l THEN m[i] ELSE e
    BY <1>5
  <1> HIDE DEF front
  <1>7. InsertAt(m, l, e) = front \o last
    BY <1>4 DEF front
  <1>8. front \o last \in Seq(S) /\ Len(front \o last) = Len(m) + 1
    <2>1. front \o last \in Seq(S) /\ Len(front \o last) = Len(front) + Len(last)
      BY <1>3, <1>6, ConcatProperties
    <2>2. QED
      BY <1>1, <1>3, <1>6, <2>1
  <1>9. ASSUME NEW i \in 1 .. Len(m) + 1
        PROVE  (front \o last)[i] = IF i < l THEN m[i] ELSE IF i = l THEN e ELSE m[i - 1]
    <2>1. CASE i <= l
      BY <1>1, <1>3, <1>6, <2>1
    <2>2. CASE i > l
      <3>1. (front \o last)[i] = last[i - l]
        BY <1>1, <1>3, <1>6, <2>2
      <3>2. i - l \in 1 .. (Len(m) - l + 1) /\ l + (i - l) - 1 = i - 1
        BY <1>1, <2>2
      <3>3. last[i - l] = m[l + (i - l) - 1]
        BY <1>3, <3>2
      <3>4. ~(i < l) /\ i # l
        BY <1>1, <2>2
      <3>5. QED
        BY <3>1, <3>2, <3>3, <3>4
    <2>3. i <= l \/ i > l
      BY <1>1
    <2>4. QED
      BY <2>1, <2>2, <2>3
  <1>10. QED
    BY <1>7, <1>8, <1>9

\* operator[] makes an entry in its place.
LEMMA SubscriptIs ==
  ASSUME NEW V, NEW m \in Vectors(V), NEW id \in Nat, NEW value \in V
  PROVE  /\ Subscript(m, id, value) \in Vectors(V)
         /\ AsFunction(Subscript(m, id, value)) = Touch(AsFunction(m), id, value)
  <1> DEFINE l == LowerBound(m, id)
             t == InsertAt(m, l, Entry(id, value))
             f == AsFunction(m)
  <1>1. /\ m \in Seq(Entries(V)) /\ Len(m) \in Nat /\ DOMAIN m = 1 .. Len(m)
        /\ \A i \in 1 .. Len(m) : m[i].id \in Nat
        /\ \A i, j \in 1 .. Len(m) : i < j => m[i].id < m[j].id
    BY VectorIs
  <1>2. l \in 1 .. Len(m) + 1 /\ \A i \in 1 .. Len(m) : i < l <=> m[i].id < id
    BY LowerBoundIs
  <1>3. DOMAIN f = {m[i].id : i \in 1 .. Len(m)} /\ \A i \in 1 .. Len(m) : f[m[i].id] = m[i].value
    BY FunctionIs
  <1>4. f = [x \in DOMAIN f |-> f[x]]
    BY DEF AsFunction
  <1>5. CASE ContainsId(m, id)
    <2>1. id \in DOMAIN f
      BY <1>3, <1>5, Lookup
    <2>2. Subscript(m, id, value) = m
      BY <1>5 DEF Subscript
    <2> HIDE DEF f
    <2>3. Touch(f, id, value) = f
      BY <1>4, <2>1 DEF Touch, Over
    <2>4. QED
      BY <2>2, <2>3 DEF f
  <1>6. CASE ~ContainsId(m, id)
    <2>1. \A i \in 1 .. Len(m) : m[i].id # id
      BY <1>6, Lookup
    <2>2. Subscript(m, id, value) = t
      BY <1>6 DEF Subscript
    <2>3. Entry(id, value) \in Entries(V) /\ Entry(id, value).id = id /\ Entry(id, value).value = value
      BY DEF Entry, Entries
    <2>4. /\ t \in Seq(Entries(V)) /\ Len(t) = Len(m) + 1
          /\ \A i \in 1 .. Len(m) + 1 :
               t[i] = IF i < l THEN m[i] ELSE IF i = l THEN Entry(id, value) ELSE m[i - 1]
      <3> HIDE DEF l
      <3> QED
        BY <1>1, <1>2, <2>3, InsertAtIs
    <2> HIDE DEF t, l, f
    <2>5. ASSUME NEW i \in 1 .. Len(m) + 1
          PROVE  \/ i < l /\ i \in 1 .. Len(m) /\ t[i] = m[i] /\ m[i].id < id
                 \/ i = l /\ t[i].id = id /\ t[i].value = value
                 \/ i > l /\ i - 1 \in 1 .. Len(m) /\ t[i] = m[i - 1] /\ id < m[i - 1].id
      <3>1. CASE i < l
        BY <1>1, <1>2, <2>4, <3>1
      <3>2. CASE i = l
        BY <2>3, <2>4, <3>2
      <3>3. CASE i > l
        <4>1. i - 1 \in 1 .. Len(m) /\ ~(i - 1 < l) /\ t[i] = m[i - 1]
          BY <1>1, <1>2, <2>4, <3>3
        <4>2. m[i - 1].id # id /\ ~(m[i - 1].id < id) /\ m[i - 1].id \in Nat
          BY <1>1, <1>2, <2>1, <4>1
        <4>3. QED
          BY <3>3, <4>1, <4>2
      <3>4. QED
        BY <1>1, <1>2, <3>1, <3>2, <3>3
    <2>6. Ordered(t)
      <3> SUFFICES ASSUME NEW i \in 1 .. Len(m) + 1, NEW j \in 1 .. Len(m) + 1, i < j
                   PROVE  t[i].id < t[j].id
        BY <2>4 DEF Ordered
      <3>1. CASE i < l /\ j < l
        <4>1. t[i] = m[i] /\ i \in 1 .. Len(m)
          BY <1>2, <2>5, <3>1
        <4>2. t[j] = m[j] /\ j \in 1 .. Len(m)
          BY <1>2, <2>5, <3>1
        <4>3. QED
          BY <1>1, <4>1, <4>2
      <3>2. CASE i < l /\ j = l
        BY <1>1, <2>5, <3>2
      <3>3. CASE i < l /\ j > l
        <4>1. t[i] = m[i] /\ m[i].id < id /\ i \in 1 .. Len(m)
          BY <1>2, <2>5, <3>3
        <4>2. t[j] = m[j - 1] /\ id < m[j - 1].id /\ j - 1 \in 1 .. Len(m)
          BY <1>2, <2>5, <3>3
        <4>3. QED
          BY <1>1, <4>1, <4>2
      <3>4. CASE i = l /\ j > l
        BY <1>1, <1>2, <2>5, <3>4
      <3>5. CASE i > l /\ j > l
        <4>1. t[i] = m[i - 1] /\ i - 1 \in 1 .. Len(m)
          BY <1>2, <2>5, <3>5
        <4>2. t[j] = m[j - 1] /\ j - 1 \in 1 .. Len(m)
          BY <1>2, <2>5, <3>5
        <4>3. QED
          BY <1>1, <4>1, <4>2
      <3>6. QED
        BY <1>1, <1>2, <3>1, <3>2, <3>3, <3>4, <3>5
    <2>7. t \in Vectors(V)
      BY <2>4, <2>6 DEF Vectors
    <2>13. /\ DOMAIN AsFunction(t) = {t[i].id : i \in 1 .. Len(t)}
           /\ \A i \in 1 .. Len(t) : AsFunction(t)[t[i].id] = t[i].value
      BY <2>7, FunctionIs
    <2>8. DOMAIN AsFunction(t) = DOMAIN f \union {id}
      <3>1. \A i \in 1 .. Len(t) : t[i].id \in DOMAIN f \union {id}
        BY <1>3, <2>4, <2>5
      <3>2. id \in DOMAIN AsFunction(t)
        <4>1. l \in 1 .. Len(t) /\ t[l].id = id
          BY <1>1, <1>2, <2>4, <2>5
        <4>2. QED
          BY <2>13, <4>1
      <3>3. ASSUME NEW i \in 1 .. Len(m) PROVE m[i].id \in DOMAIN AsFunction(t)
        <4>1. CASE i < l
          <5>1. i \in 1 .. Len(t) /\ t[i].id = m[i].id
            BY <1>1, <1>2, <2>4, <4>1
          <5>2. QED
            BY <2>13, <5>1
        <4>2. CASE ~(i < l)
          <5>1. i + 1 \in 1 .. Len(t) /\ t[i + 1].id = m[i].id
            BY <1>1, <1>2, <2>4, <4>2
          <5>2. QED
            BY <2>13, <5>1
        <4>3. QED
          BY <4>1, <4>2
      <3>4. DOMAIN f \union {id} \subseteq DOMAIN AsFunction(t)
        BY <1>3, <3>2, <3>3
      <3>5. DOMAIN AsFunction(t) \subseteq DOMAIN f \union {id}
        BY <2>13, <3>1
      <3>6. QED
        BY <3>4, <3>5
    <2>9. ASSUME NEW x \in DOMAIN f \union {id}
          PROVE  AsFunction(t)[x] = IF x \in DOMAIN f THEN f[x] ELSE value
      <3>1. PICK i \in 1 .. Len(t) : t[i].id = x
        BY <2>8, <2>13
      <3>2. AsFunction(t)[x] = t[i].value
        BY <2>13, <3>1
      <3>3. CASE i = l
        <4>1. x = id /\ t[i].value = value
          BY <2>4, <2>5, <3>1, <3>3
        <4>2. id \notin DOMAIN f
          BY <1>3, <2>1
        <4>3. QED
          BY <3>2, <4>1, <4>2
      <3>4. CASE i < l
        <4>1. i \in 1 .. Len(m) /\ t[i] = m[i]
          BY <1>2, <2>4, <2>5, <3>4
        <4>2. QED
          BY <1>3, <3>1, <3>2, <4>1
      <3>5. CASE i > l
        <4>1. i - 1 \in 1 .. Len(m) /\ t[i] = m[i - 1]
          BY <1>2, <2>4, <2>5, <3>5
        <4>2. QED
          BY <1>3, <3>1, <3>2, <4>1
      <3>6. QED
        BY <1>2, <2>4, <3>3, <3>4, <3>5
    <2>10. AsFunction(t) = [x \in DOMAIN f \union {id} |-> IF x \in DOMAIN f THEN f[x] ELSE value]
      <3>1. AsFunction(t) = [x \in DOMAIN AsFunction(t) |-> AsFunction(t)[x]]
        BY DEF AsFunction
      <3>2. QED
        BY <2>8, <2>9, <3>1
    <2>11. AsFunction(t) = Touch(f, id, value)
      BY <2>10 DEF Touch, Over
    <2>12. QED
      BY <2>2, <2>7, <2>11 DEF f
  <1>7. QED
    BY <1>5, <1>6

\* The assignment through operator[] changes the value of one entry.
LEMMA AssignIs ==
  ASSUME NEW V, NEW t \in Vectors(V), NEW l \in 1 .. Len(t), NEW value \in V
  PROVE  /\ [t EXCEPT ![l].value = value] \in Vectors(V)
         /\ AsFunction([t EXCEPT ![l].value = value]) = Put(AsFunction(t), t[l].id, value)
  <1> DEFINE u == [t EXCEPT ![l].value = value]
             f == AsFunction(t)
  <1>1. /\ t \in Seq(Entries(V)) /\ Len(t) \in Nat /\ DOMAIN t = 1 .. Len(t)
        /\ \A i \in 1 .. Len(t) : t[i].id \in Nat
        /\ \A i, j \in 1 .. Len(t) : i < j => t[i].id < t[j].id
    BY VectorIs
  <1>2. t[l] \in Entries(V)
    BY <1>1
  <1>3. [t[l] EXCEPT !.value = value] \in Entries(V)
        /\ [t[l] EXCEPT !.value = value].id = t[l].id
        /\ [t[l] EXCEPT !.value = value].value = value
    BY <1>2 DEF Entries
  <1>4. u = [t EXCEPT ![l] = [t[l] EXCEPT !.value = value]]
    BY <1>1
  <1> DEFINE e == [t[l] EXCEPT !.value = value]
  <1> HIDE DEF e, u
  <1>5. /\ u \in Seq(Entries(V)) /\ Len(u) = Len(t)
        /\ u[l] = e /\ \A i \in 1 .. Len(t) : i # l => u[i] = t[i]
    <2>1. u = [t EXCEPT ![l] = e] /\ e \in Entries(V)
      BY <1>3, <1>4 DEF e
    <2>2. QED
      BY <1>1, <2>1
  <1>6. \A i \in 1 .. Len(t) : u[i].id = t[i].id
    BY <1>3, <1>5 DEF e
  <1>7. u \in Vectors(V)
    <2>1. Ordered(u)
      BY <1>1, <1>5, <1>6 DEF Ordered
    <2>2. QED
      BY <1>5, <2>1 DEF Vectors
  <1>8. /\ DOMAIN AsFunction(u) = {u[i].id : i \in 1 .. Len(t)}
        /\ \A i \in 1 .. Len(t) : AsFunction(u)[u[i].id] = u[i].value
    BY <1>5, <1>7, FunctionIs
  <1>9. DOMAIN f = {t[i].id : i \in 1 .. Len(t)} /\ \A i \in 1 .. Len(t) : f[t[i].id] = t[i].value
    <2>1. DOMAIN f = {t[i].id : i \in 1 .. Len(t)}
      BY FunctionIs
    <2>2. \A i \in 1 .. Len(t) : f[t[i].id] = t[i].value
      BY FunctionIs
    <2> HIDE DEF f
    <2>3. QED
      BY <2>1, <2>2
  <1> HIDE DEF f
  <1>10. DOMAIN AsFunction(u) = DOMAIN f
    BY <1>6, <1>8, <1>9
  <1>11. ASSUME NEW x \in DOMAIN f
         PROVE  AsFunction(u)[x] = IF x = t[l].id THEN value ELSE f[x]
    <2>1. PICK i \in 1 .. Len(t) : t[i].id = x
      BY <1>9
    <2>2. AsFunction(u)[x] = u[i].value
      BY <1>6, <1>8, <2>1
    <2>3. CASE i = l
      BY <1>3, <1>5, <2>1, <2>2, <2>3 DEF e
    <2>4. CASE i # l
      <3>1. x # t[l].id
        BY <1>1, <2>1, <2>4
      <3>2. u[i] = t[i] /\ f[x] = t[i].value
        BY <1>5, <1>9, <2>1, <2>4
      <3>3. QED
        BY <2>2, <3>1, <3>2
    <2>5. QED
      BY <2>3, <2>4
  <1>12. AsFunction(u) = [x \in DOMAIN AsFunction(u) |-> AsFunction(u)[x]]
    BY DEF AsFunction
  <1>13. t[l].id \in DOMAIN f
    BY <1>9
  <1>14. AsFunction(u) = [x \in DOMAIN f |-> IF x = t[l].id THEN value ELSE f[x]]
    BY <1>10, <1>11, <1>12
  <1>15. AsFunction(u) = Put(f, t[l].id, value)
    <2>1. {t[l].id} \union DOMAIN f = DOMAIN f
      BY <1>13
    <2>2. QED
      BY <1>14, <2>1 DEF Put, Over
  <1>16. QED
    BY <1>7, <1>15 DEF u, f

LEMMA StoreIs ==
  ASSUME NEW V, NEW m \in Vectors(V), NEW id \in Nat, NEW value \in V
  PROVE  /\ Store(m, id, value) \in Vectors(V)
         /\ AsFunction(Store(m, id, value)) = Put(AsFunction(m), id, value)
  <1> DEFINE l == LowerBound(m, id)
             t == Subscript(m, id, value)
  <1>1. t \in Vectors(V) /\ AsFunction(t) = Touch(AsFunction(m), id, value)
    BY SubscriptIs
  <1>2. l \in 1 .. Len(t) /\ t[l].id = id
    <2>1. CASE ContainsId(m, id)
      BY <2>1, VectorIs DEF Subscript, ContainsId
    <2>2. CASE ~ContainsId(m, id)
      <3>1. t = InsertAt(m, l, Entry(id, value))
        BY <2>2 DEF Subscript
      <3>2. m \in Seq(Entries(V)) /\ Len(m) \in Nat /\ l \in 1 .. Len(m) + 1
        BY VectorIs, LowerBoundIs
      <3>3. Entry(id, value) \in Entries(V) /\ Entry(id, value).id = id
        BY DEF Entry, Entries
      <3> HIDE DEF t, l
      <3>4. /\ Len(t) = Len(m) + 1
            /\ \A i \in 1 .. Len(m) + 1 :
                 t[i] = IF i < l THEN m[i] ELSE IF i = l THEN Entry(id, value) ELSE m[i - 1]
        BY <3>1, <3>2, <3>3, InsertAtIs, SMTT(30)
      <3>5. ~(l < l)
        BY <3>2
      <3>6. t[l] = Entry(id, value)
        BY <3>2, <3>4, <3>5
      <3>7. QED
        BY <3>2, <3>3, <3>4, <3>6
    <2>3. QED
      BY <2>1, <2>2
  <1>3. Store(m, id, value) = [t EXCEPT ![l].value = value]
    BY DEF Store
  <1> HIDE DEF t, l
  <1>4. Store(m, id, value) \in Vectors(V)
        /\ AsFunction(Store(m, id, value)) = Put(Touch(AsFunction(m), id, value), id, value)
    <2>1. [t EXCEPT ![l].value = value] \in Vectors(V)
          /\ AsFunction([t EXCEPT ![l].value = value]) = Put(AsFunction(t), t[l].id, value)
      BY <1>1, <1>2, AssignIs
    <2>2. QED
      BY <1>1, <1>2, <1>3, <2>1
  <1>5. Put(Touch(AsFunction(m), id, value), id, value) = Put(AsFunction(m), id, value)
    BY DEF Put, Touch, Over
  <1>6. QED
    BY <1>4, <1>5

\* MatterMap is the function IdMap promises (matterMap.h), for any vector that is
\* in order, any id and any type of values: it is looked up, extended and
\* overwritten as the function is, and stays in order.
THEOREM MapActsAsFunction ==
  ASSUME NEW V, NEW m \in Vectors(V), NEW id \in Nat, NEW value \in V
  PROVE  /\ ContainsId(m, id) <=> Has(AsFunction(m), id)
         /\ Get(m, id, value) = At(AsFunction(m), id, value)
         /\ Subscript(m, id, value) \in Vectors(V)
         /\ AsFunction(Subscript(m, id, value)) = Touch(AsFunction(m), id, value)
         /\ Store(m, id, value) \in Vectors(V)
         /\ AsFunction(Store(m, id, value)) = Put(AsFunction(m), id, value)
  <1>1. ContainsId(m, id) <=> Has(AsFunction(m), id)
    <2>1. ContainsId(m, id) <=> \E i \in 1 .. Len(m) : m[i].id = id
      BY Lookup
    <2>2. DOMAIN AsFunction(m) = {m[i].id : i \in 1 .. Len(m)}
      BY FunctionIs
    <2>3. QED
      BY <2>1, <2>2 DEF Has
  <1>2. Get(m, id, value) = At(AsFunction(m), id, value)
    <2>1. CASE ContainsId(m, id)
      <3>1. LowerBound(m, id) \in 1 .. Len(m) /\ m[LowerBound(m, id)].id = id
        BY <2>1, VectorIs DEF ContainsId
      <3>2. AsFunction(m)[id] = m[LowerBound(m, id)].value
        BY <3>1, FunctionIs
      <3>3. QED
        BY <1>1, <2>1, <3>2 DEF Get, At
    <2>2. CASE ~ContainsId(m, id)
      BY <1>1, <2>2 DEF Get, At
    <2>3. QED
      BY <2>1, <2>2
  <1>3. QED
    BY <1>1, <1>2, SubscriptIs, StoreIs

-------------------------------------------------------------------------------
(* insert_block *)

\* The ids of a block of values, and the function it stands for.
BlockIds(start, values) == start .. (start + Len(values) - 1)
BlockOf(start, values) == [id \in BlockIds(start, values) |-> values[id - start + 1]]

\* The map has the first k ids of the block and none of the others.
Continues(m, start, values, k) ==
    \A j \in 1 .. Len(values) : (\E i \in 1 .. Len(m) : m[i].id = start + j - 1) <=> j <= k

\* The j-th place from the block's lower bound on has the block's j-th id.
Meets(m, start, j) == /\ LowerBound(m, start) + j - 1 \in 1 .. Len(m)
                      /\ m[LowerBound(m, start) + j - 1].id = start + j - 1

\* insert_block overwrites k entries.
Runs(m, start, values, k) == /\ \A j \in 1 .. k : Meets(m, start, j)
                             /\ k < Len(values) => ~Meets(m, start, k + 1)

\* The entries of a block's first ids follow each other from its lower bound on.
LEMMA RunIs ==
  ASSUME NEW V, NEW m \in Vectors(V), NEW start \in Nat, NEW values \in Seq(V),
         NEW k \in 0 .. Len(values), Continues(m, start, values, k)
  PROVE  \A j \in 1 .. k : /\ LowerBound(m, start) + j - 1 \in 1 .. Len(m)
                           /\ m[LowerBound(m, start) + j - 1].id = start + j - 1
  <1> DEFINE at  == LowerBound(m, start)
             bad == {j \in 1 .. k : ~(at + j - 1 \in 1 .. Len(m) /\ m[at + j - 1].id = start + j - 1)}
  <1>10. Len(values) \in Nat
    OBVIOUS
  <1>1. /\ Len(m) \in Nat /\ Len(values) \in Nat
        /\ \A i \in 1 .. Len(m) : m[i].id \in Nat
        /\ \A i, j \in 1 .. Len(m) : i < j => m[i].id < m[j].id
    BY <1>10, VectorIs
  <1>2. at \in 1 .. Len(m) + 1
    BY LowerBoundIs
  <1>3. \A i \in 1 .. Len(m) : m[i].id = start => i = at
    BY Lookup
  <1> HIDE DEF at
  <1>4. SUFFICES ASSUME bad # {} PROVE FALSE
    BY DEF at
  <1>5. PICK j \in bad : \A x \in bad : j <= x
    <2>1. bad \in SUBSET Nat
      BY <1>1
    <2> HIDE DEF bad
    <2>2. QED
      BY <1>4, <2>1, Least
  <1>6. j \in 1 .. k /\ j \in 1 .. Len(values)
    BY <1>1
  <1>7. PICK i \in 1 .. Len(m) : m[i].id = start + j - 1
    BY <1>1, <1>6 DEF Continues
  <1>8. i = at + j - 1
    <2>1. CASE j = 1
      BY <1>1, <1>2, <1>3, <1>7, <2>1
    <2>2. CASE j # 1
      <3>1. j - 1 \in 1 .. k /\ j - 1 \notin bad
        BY <1>1, <1>5, <1>6, <2>2
      <3>2. at + (j - 1) - 1 \in 1 .. Len(m) /\ m[at + (j - 1) - 1].id = start + (j - 1) - 1
        BY <3>1
      <3> DEFINE p == at + (j - 1) - 1
      <3>3. p \in 1 .. Len(m) /\ p + 1 = at + j - 1 /\ m[p].id + 1 = m[i].id
        <4>1. j \in Nat /\ p \in Nat /\ p + 1 = at + j - 1
          BY <1>1, <1>2, <1>6
        <4>2. p \in 1 .. Len(m) /\ m[p].id = start + (j - 1) - 1
          BY <3>2
        <4> HIDE DEF p
        <4>3. m[p].id + 1 = m[i].id
          BY <1>7, <4>1, <4>2
        <4>4. QED
          BY <4>1, <4>2, <4>3
      <3> HIDE DEF p
      <3>4. p < i
        BY <1>1, <3>3, SMTT(30)
      <3>5. ~(p + 1 < i)
        <4> SUFFICES ASSUME p + 1 < i PROVE FALSE
          OBVIOUS
        <4>1. p + 1 \in 1 .. Len(m) /\ m[p].id < m[p + 1].id /\ m[p + 1].id < m[i].id
          BY <1>1, <3>3, <3>4
        <4>2. m[p].id \in Nat /\ m[p + 1].id \in Nat
          BY <1>1, <3>3, <4>1
        <4>3. QED
          BY <3>3, <4>1, <4>2
      <3>6. QED
        BY <1>1, <3>3, <3>4, <3>5
    <2>3. QED
      BY <2>1, <2>2
  <1>9. QED
    BY <1>7, <1>8, <1>5

\* What comes after them lies behind the whole block.
LEMMA RestIs ==
  ASSUME NEW V, NEW m \in Vectors(V), NEW start \in Nat, NEW values \in Seq(V),
         NEW k \in 0 .. Len(values), Continues(m, start, values, k),
         NEW i \in 1 .. Len(m), LowerBound(m, start) + k <= i
  PROVE  start + Len(values) <= m[i].id
  <1> DEFINE at == LowerBound(m, start)
  <1>1. /\ Len(m) \in Nat /\ Len(values) \in Nat
        /\ \A x \in 1 .. Len(m) : m[x].id \in Nat
        /\ \A x, y \in 1 .. Len(m) : x < y => m[x].id < m[y].id
    BY VectorIs
  <1>2. at \in 1 .. Len(m) + 1 /\ \A x \in 1 .. Len(m) : x < at <=> m[x].id < start
    BY LowerBoundIs
  <1>3. \A j \in 1 .. k : at + j - 1 \in 1 .. Len(m) /\ m[at + j - 1].id = start + j - 1
    BY RunIs
  <1> HIDE DEF at
  <1>4. start + k <= m[i].id
    <2>1. CASE k = 0
      BY <1>1, <1>2, <2>1 DEF at
    <2>2. CASE k # 0
      <3>1. k \in 1 .. k
        BY <1>1, <2>2
      <3>2. at + k - 1 \in 1 .. Len(m) /\ m[at + k - 1].id = start + k - 1
        BY <1>3, <3>1
      <3>3. at + k - 1 < i
        BY <1>1, <1>2 DEF at
      <3>4. m[at + k - 1].id < m[i].id /\ m[i].id \in Nat
        BY <1>1, <3>2, <3>3
      <3>5. QED
        BY <1>1, <3>2, <3>4
    <2>3. QED
      BY <2>1, <2>2
  <1>5. SUFFICES ASSUME m[i].id < start + Len(values) PROVE FALSE
    BY <1>1
  <1> DEFINE j == m[i].id - start + 1
  <1>6. j \in 1 .. Len(values) /\ m[i].id = start + j - 1 /\ k < j
    BY <1>1, <1>4, <1>5
  <1> HIDE DEF j
  <1>7. j <= k
    BY <1>6 DEF Continues
  <1>8. QED
    BY <1>1, <1>6, <1>7

\* When the map has the block's first k ids, those are the entries it meets.
LEMMA RunOf ==
  ASSUME NEW V, NEW m \in Vectors(V), NEW start \in Nat, NEW values \in Seq(V),
         NEW k \in 0 .. Len(values), Continues(m, start, values, k)
  PROVE  Runs(m, start, values, k)
  <1> DEFINE at == LowerBound(m, start)
  <1>1. \A j \in 1 .. k : Meets(m, start, j)
    BY RunIs DEF Meets
  <1>2. SUFFICES ASSUME k < Len(values), Meets(m, start, k + 1) PROVE FALSE
    BY <1>1 DEF Runs
  <1>3. Len(values) \in Nat /\ k \in Nat /\ at \in Nat
    <2>1. Len(m) \in Nat
      BY VectorIs
    <2>2. at \in 1 .. Len(m) + 1
      BY LowerBoundIs
    <2>3. Len(values) \in Nat
      OBVIOUS
    <2> HIDE DEF at
    <2>4. QED
      BY <2>1, <2>2, <2>3
  <1>4. at + (k + 1) - 1 = at + k /\ start + (k + 1) - 1 = start + k
    BY <1>3
  <1>5. at + k \in 1 .. Len(m) /\ m[at + k].id = start + k
    BY <1>2, <1>4 DEF Meets
  <1> HIDE DEF at
  <1>6. start + Len(values) <= m[at + k].id
    BY <1>3, <1>5, RestIs DEF at
  <1>7. QED
    BY <1>2, <1>3, <1>5, <1>6

\* There is always a number of entries that the block meets.
LEMMA RunExists ==
  ASSUME NEW V, NEW m \in Vectors(V), NEW start \in Nat, NEW values \in Seq(V)
  PROVE  \E k \in 0 .. Len(values) : Runs(m, start, values, k)
  <1> DEFINE ends == {k \in 0 .. Len(values) : k < Len(values) => ~Meets(m, start, k + 1)}
  <1>1. Len(values) \in Nat
    OBVIOUS
  <1>2. PICK k \in ends : \A x \in ends : k <= x
    <2>1. Len(values) \in ends /\ ends \in SUBSET Nat
      BY <1>1
    <2> HIDE DEF ends
    <2>2. QED
      BY <2>1, Least
  <1>3. ASSUME NEW j \in 1 .. k PROVE Meets(m, start, j)
    <2>1. j - 1 \in 0 .. Len(values) /\ j - 1 < k /\ j - 1 < Len(values) /\ (j - 1) + 1 = j
      BY <1>1, <1>2
    <2>2. j - 1 \notin ends
      BY <1>1, <1>2, <2>1
    <2>3. QED
      BY <2>1, <2>2
  <1>4. QED
    BY <1>3 DEF Runs

\* insert_block counts the entries it meets.
LEMMA MatchesAre ==
  ASSUME NEW V, NEW m \in Vectors(V), NEW start \in Nat, NEW values \in Seq(V),
         NEW k \in 0 .. Len(values), Runs(m, start, values, k)
  PROVE  Quantify(DOMAIN values, LAMBDA n : \A x \in 1 .. n :
             LowerBound(m, start) + x - 1 \in DOMAIN m /\ m[LowerBound(m, start) + x - 1].id = start + x - 1) = k
  <1> DEFINE at  == LowerBound(m, start)
             hit(x) == at + x - 1 \in DOMAIN m /\ m[at + x - 1].id = start + x - 1
             run == {n \in DOMAIN values : \A x \in 1 .. n : hit(x)}
  <1>1. Len(values) \in Nat /\ DOMAIN values = 1 .. Len(values) /\ k \in Nat /\ k <= Len(values)
    <2>1. Len(values) \in Nat
      OBVIOUS
    <2>2. QED
      BY <2>1
  <1>2. DOMAIN m = 1 .. Len(m)
    BY VectorIs
  <1>3. \A x : hit(x) <=> Meets(m, start, x)
    BY <1>2 DEF Meets
  <1> HIDE DEF hit
  <1>4. run = 1 .. k
    <2>1. ASSUME NEW n \in run PROVE n \in 1 .. k
      <3>1. n \in 1 .. Len(values) /\ \A x \in 1 .. n : hit(x)
        BY <1>1
      <3>2. SUFFICES ASSUME k < n PROVE FALSE
        BY <1>1, <3>1
      <3>3. k + 1 \in 1 .. n /\ k < Len(values)
        BY <1>1, <3>1, <3>2
      <3>4. QED
        BY <1>3, <3>1, <3>3 DEF Runs
    <2>2. ASSUME NEW n \in 1 .. k PROVE n \in run
      <3>1. n \in DOMAIN values /\ \A x \in 1 .. n : x \in 1 .. k
        BY <1>1
      <3>2. QED
        BY <1>3, <3>1 DEF Runs
    <2>3. QED
      BY <2>1, <2>2
  <1>5. Cardinality(run) = k
    <2>1. k \in Int /\ k >= 0 /\ 1 \in Int
      BY <1>1
    <2>2. Cardinality(1 .. k) = IF 1 > k THEN 0 ELSE k - 1 + 1
      BY <2>1, FS_Interval
    <2>3. (IF 1 > k THEN 0 ELSE k - 1 + 1) = k
      BY <2>1
    <2> HIDE DEF run
    <2>4. QED
      BY <1>4, <2>2, <2>3
  <1>6. QED
    BY <1>5 DEF Quantify, hit

\* Where the entries of the map and of the block are afterwards.
LEMMA BlockIs ==
  ASSUME NEW V, NEW m \in Vectors(V), NEW start \in Nat, NEW values \in Seq(V),
         NEW k \in 0 .. Len(values), Runs(m, start, values, k)
  PROVE  LET at == LowerBound(m, start)
             n  == Len(values)
             u  == InsertBlock(m, start, values)
         IN  /\ u \in Seq(Entries(V))
             /\ Len(u) = Len(m) + n - k
             /\ \A i \in 1 .. Len(u) :
                  u[i] = IF i < at THEN m[i]
                         ELSE IF i < at + n THEN Entry(start + i - at, values[i - at + 1])
                         ELSE m[i - n + k]
  <1> DEFINE at    == LowerBound(m, start)
             n     == Len(values)
             block == [x \in DOMAIN values |-> Entry(start + x - 1, values[x])]
             first == SubSeq(m, 1, at - 1)
             last  == SubSeq(m, at + k, Len(m))
             u     == InsertBlock(m, start, values)
  <1>1. n \in Nat /\ DOMAIN values = 1 .. n /\ \A x \in 1 .. n : values[x] \in V
    OBVIOUS
  <1>2. /\ m \in Seq(Entries(V)) /\ Len(m) \in Nat /\ DOMAIN m = 1 .. Len(m)
        /\ \A i \in 1 .. Len(m) : m[i] \in Entries(V)
    BY VectorIs
  <1>3. at \in 1 .. Len(m) + 1
    BY LowerBoundIs
  <1>4. u = first \o block \o last
    BY MatchesAre DEF InsertBlock
  <1>5. at + k <= Len(m) + 1
    <2>1. CASE k = 0
      BY <1>2, <1>3, <2>1
    <2>2. CASE k # 0
      <3>1. k \in 1 .. k
        BY <1>1, <2>2
      <3>2. at + k - 1 \in 1 .. Len(m)
        BY <3>1 DEF Runs, Meets, at
      <3>3. QED
        BY <1>1, <1>2, <1>3, <3>2
    <2>3. QED
      BY <2>1, <2>2
  <1>6. k \in Nat /\ k <= n
    BY <1>1
  <1> HIDE DEF at, n, u
  <1>7. first \in Seq(Entries(V)) /\ Len(first) = at - 1 /\ \A i \in 1 .. (at - 1) : first[i] = m[i]
    <2>1. 1 \in Int /\ at - 1 \in Int /\ \A i \in 1 .. (at - 1) : m[i] \in Entries(V)
      BY <1>2, <1>3
    <2>2. /\ first \in Seq(Entries(V)) /\ Len(first) = IF 1 <= at - 1 THEN at - 1 - 1 + 1 ELSE 0
          /\ \A i \in 1 .. (at - 1) - 1 + 1 : first[i] = m[1 + i - 1]
      BY <2>1, SubSeqProperties
    <2> HIDE DEF first
    <2>3. QED
      BY <1>2, <1>3, <2>2
  <1>8. /\ last \in Seq(Entries(V)) /\ Len(last) = Len(m) - at - k + 1
        /\ \A i \in 1 .. (Len(m) - at - k + 1) : last[i] = m[at + k + i - 1]
    <2>1. at + k \in Int /\ Len(m) \in Int /\ \A i \in (at + k) .. Len(m) : m[i] \in Entries(V)
      BY <1>2, <1>3, <1>6
    <2>2. /\ last \in Seq(Entries(V)) /\ Len(last) = IF at + k <= Len(m) THEN Len(m) - (at + k) + 1 ELSE 0
          /\ \A i \in 1 .. Len(m) - (at + k) + 1 : last[i] = m[at + k + i - 1]
      BY <2>1, SubSeqProperties
    <2> HIDE DEF last
    <2>3. Len(m) - (at + k) + 1 = Len(m) - at - k + 1
      BY <1>2, <1>3, <1>6
    <2>4. QED
      BY <1>2, <1>3, <1>5, <1>6, <2>2, <2>3
  <1>9. /\ block \in Seq(Entries(V)) /\ Len(block) = n
        /\ \A x \in 1 .. n : block[x] = Entry(start + x - 1, values[x])
    <2>1. \A x \in 1 .. n : Entry(start + x - 1, values[x]) \in Entries(V)
      BY <1>1 DEF Entry, Entries, n
    <2>2. DOMAIN block = 1 .. n /\ block \in [1 .. n -> Entries(V)]
      BY <1>1, <2>1
    <2>3. QED
      BY <1>1, <2>2
  <1> HIDE DEF first, last, block
  <1> DEFINE front == first \o block
  <1>10. /\ front \in Seq(Entries(V)) /\ Len(front) = at - 1 + n
         /\ \A i \in 1 .. (at - 1 + n) : front[i] = IF i <= at - 1 THEN first[i] ELSE block[i - (at - 1)]
    <2>1. /\ front \in Seq(Entries(V)) /\ Len(front) = Len(first) + Len(block)
          /\ \A i \in 1 .. Len(first) + Len(block) :
               front[i] = IF i <= Len(first) THEN first[i] ELSE block[i - Len(first)]
      BY <1>7, <1>9, ConcatProperties
    <2>2. Len(first) = at - 1 /\ Len(block) = n
      BY <1>7, <1>9
    <2> HIDE DEF front
    <2>3. QED
      BY <2>1, <2>2
  <1>11. u = front \o last
    BY <1>4
  <1> HIDE DEF front
  <1>12. /\ u \in Seq(Entries(V)) /\ Len(u) = (at - 1 + n) + (Len(m) - at - k + 1)
         /\ \A i \in 1 .. (at - 1 + n) + (Len(m) - at - k + 1) :
              u[i] = IF i <= at - 1 + n THEN front[i] ELSE last[i - (at - 1 + n)]
    BY <1>8, <1>10, <1>11, ConcatProperties
  <1>13. (at - 1 + n) + (Len(m) - at - k + 1) = Len(m) + n - k
    BY <1>1, <1>2, <1>3, <1>6
  <1>14. ASSUME NEW i \in 1 .. Len(m) + n - k
         PROVE  u[i] = IF i < at THEN m[i]
                       ELSE IF i < at + n THEN Entry(start + i - at, values[i - at + 1])
                       ELSE m[i - n + k]
    <2>1. CASE i < at
      <3>1. i <= at - 1 /\ i <= at - 1 + n /\ i \in 1 .. (at - 1) /\ i \in 1 .. (at - 1 + n)
        BY <1>1, <1>2, <1>3, <2>1
      <3>2. QED
        BY <1>7, <1>10, <1>12, <1>13, <2>1, <3>1
    <2>2. CASE ~(i < at) /\ i < at + n
      <3>1. ~(i <= at - 1) /\ i <= at - 1 + n /\ i \in 1 .. (at - 1 + n)
        BY <1>1, <1>2, <1>3, <1>6, <2>2
      <3>2. i - (at - 1) \in 1 .. n /\ i - (at - 1) = i - at + 1 /\ start + (i - at + 1) - 1 = start + i - at
        BY <1>1, <1>2, <1>3, <1>6, <2>2
      <3>3. u[i] = block[i - (at - 1)]
        BY <1>10, <1>12, <1>13, <3>1
      <3>4. block[i - at + 1] = Entry(start + (i - at + 1) - 1, values[i - at + 1])
        BY <1>9, <3>2
      <3>5. QED
        BY <2>2, <3>2, <3>3, <3>4
    <2>3. CASE ~(i < at) /\ ~(i < at + n)
      <3>1. ~(i <= at - 1 + n) /\ i - (at - 1 + n) \in 1 .. (Len(m) - at - k + 1)
        BY <1>1, <1>2, <1>3, <1>6, <2>3
      <3>2. at + k + (i - (at - 1 + n)) - 1 = i - n + k
        BY <1>1, <1>2, <1>3, <1>6
      <3>3. u[i] = last[i - (at - 1 + n)]
        BY <1>12, <1>13, <3>1
      <3>4. last[i - (at - 1 + n)] = m[at + k + (i - (at - 1 + n)) - 1]
        BY <1>8, <3>1
      <3>5. QED
        BY <2>3, <3>2, <3>3, <3>4
    <2>4. QED
      BY <2>1, <2>2, <2>3
  <1>15. QED
    BY <1>12, <1>13, <1>14 DEF at, n, u

\* insert_block (matterMap.h) does what it is for, for any vector that is in
\* order, when the block continues it: the ids of the block the map has are its
\* first ones.  The block then goes over the function, and the vector stays in
\* order; of a block past a gap BlocksKeepTheMap finds it is not kept.
THEOREM BlockActsAsFunction ==
  ASSUME NEW V, NEW m \in Vectors(V), NEW start \in Nat, NEW values \in Seq(V),
         NEW k \in 0 .. Len(values), Continues(m, start, values, k)
  PROVE  /\ InsertBlock(m, start, values) \in Vectors(V)
         /\ AsFunction(InsertBlock(m, start, values)) = Over(BlockOf(start, values), AsFunction(m))
  <1> DEFINE at == LowerBound(m, start)
             n  == Len(values)
             u  == InsertBlock(m, start, values)
             f  == AsFunction(m)
             g  == BlockOf(start, values)
  <1>1. n \in Nat /\ k \in Nat /\ k <= n
    <2>1. n \in Nat
      OBVIOUS
    <2>2. QED
      BY <2>1
  <1>2. /\ Len(m) \in Nat
        /\ \A i \in 1 .. Len(m) : m[i].id \in Nat
        /\ \A i, j \in 1 .. Len(m) : i < j => m[i].id < m[j].id
    BY VectorIs
  <1>3. at \in 1 .. Len(m) + 1 /\ \A i \in 1 .. Len(m) : i < at <=> m[i].id < start
    BY LowerBoundIs
  <1>4. \A j \in 1 .. k : at + j - 1 \in 1 .. Len(m) /\ m[at + j - 1].id = start + j - 1
    BY RunIs
  <1>5. \A i \in 1 .. Len(m) : at + k <= i => start + n <= m[i].id
    BY RestIs
  <1>6. /\ u \in Seq(Entries(V)) /\ Len(u) = Len(m) + n - k
        /\ \A i \in 1 .. Len(u) :
             u[i] = IF i < at THEN m[i]
                    ELSE IF i < at + n THEN Entry(start + i - at, values[i - at + 1])
                    ELSE m[i - n + k]
    BY RunOf, BlockIs
  <1>7. at + k <= Len(m) + 1
    <2>1. CASE k = 0
      BY <1>2, <1>3, <2>1
    <2>2. CASE k # 0
      <3>1. k \in 1 .. k
        BY <1>1, <2>2
      <3>2. at + k - 1 \in 1 .. Len(m)
        BY <1>4, <3>1
      <3>3. QED
        BY <1>1, <1>2, <1>3, <3>2
    <2>3. QED
      BY <2>1, <2>2
  <1>8. /\ DOMAIN f = {m[i].id : i \in 1 .. Len(m)}
        /\ \A i \in 1 .. Len(m) : f[m[i].id] = m[i].value
    BY FunctionIs
  <1>9. /\ DOMAIN g = start .. (start + n - 1)
        /\ \A x \in DOMAIN g : g[x] = values[x - start + 1]
    BY DEF BlockOf, BlockIds
  <1> HIDE DEF at, n, u, f, g
  \* What is at a place afterwards: of the map, of the block, of the map.
  <1>10. ASSUME NEW i \in 1 .. Len(u), i < at
         PROVE  i \in 1 .. Len(m) /\ u[i] = m[i] /\ m[i].id < start
    <2>1. i \in 1 .. Len(m)
      BY <1>2, <1>3, <1>6, <1>10
    <2>2. QED
      BY <1>3, <1>6, <1>10, <2>1
  <1>11. ASSUME NEW i \in 1 .. Len(u), at <= i, i < at + n
         PROVE  u[i].id = start + i - at /\ u[i].value = values[i - at + 1]
    <2>1. ~(i < at)
      BY <1>2, <1>3, <1>6, <1>11
    <2>2. u[i] = Entry(start + i - at, values[i - at + 1])
      BY <1>6, <1>11, <2>1
    <2>3. QED
      BY <2>2 DEF Entry
  <1>12. ASSUME NEW i \in 1 .. Len(u), at + n <= i
         PROVE  /\ i - n + k \in 1 .. Len(m) /\ u[i] = m[i - n + k]
                /\ start + n <= m[i - n + k].id
    <2>1. ~(i < at) /\ ~(i < at + n)
      BY <1>1, <1>2, <1>3, <1>6, <1>12
    <2>2. i - n + k \in 1 .. Len(m) /\ at + k <= i - n + k
      BY <1>1, <1>2, <1>3, <1>6, <1>12
    <2>3. QED
      BY <1>5, <1>6, <2>1, <2>2
  <1>13. ASSUME NEW i \in 1 .. Len(u)
         PROVE  i < at \/ (at <= i /\ i < at + n) \/ at + n <= i
    BY <1>1, <1>2, <1>3, <1>6
  <1>14. u \in Vectors(V)
    <2> SUFFICES ASSUME NEW i \in 1 .. Len(u), NEW j \in 1 .. Len(u), i < j
                 PROVE  u[i].id < u[j].id
      BY <1>6 DEF Vectors, Ordered
    <2>1. CASE i < at /\ j < at
      BY <1>2, <1>10, <2>1
    <2>2. CASE i < at /\ at <= j /\ j < at + n
      <3>1. u[i].id < start /\ u[i].id \in Nat
        BY <1>2, <1>10, <2>2
      <3>2. u[j].id = start + j - at
        BY <1>11, <2>2
      <3>3. QED
        BY <1>2, <1>3, <1>6, <2>2, <3>1, <3>2
    <2>3. CASE i < at /\ at + n <= j
      <3>1. u[i].id < start /\ u[i].id \in Nat
        BY <1>2, <1>10, <2>3
      <3>2. start + n <= u[j].id /\ u[j].id \in Nat
        BY <1>2, <1>12, <2>3
      <3>3. QED
        BY <1>1, <3>1, <3>2
    <2>4. CASE at <= i /\ i < at + n /\ at <= j /\ j < at + n
      <3>1. u[i].id = start + i - at /\ u[j].id = start + j - at
        BY <1>11, <2>4
      <3>2. QED
        BY <1>2, <1>3, <1>6, <3>1
    <2>5. CASE at <= i /\ i < at + n /\ at + n <= j
      <3>1. u[i].id = start + i - at
        BY <1>11, <2>5
      <3>2. start + n <= u[j].id /\ u[j].id \in Nat
        BY <1>2, <1>12, <2>5
      <3>3. start + i - at < start + n /\ start + i - at \in Int /\ start + n \in Int
        BY <1>1, <1>2, <1>3, <2>5
      <3>4. QED
        BY <3>1, <3>2, <3>3
    <2>6. CASE at + n <= i /\ at + n <= j
      <3>1. i - n + k \in 1 .. Len(m) /\ u[i] = m[i - n + k]
        BY <1>12, <2>6
      <3>2. j - n + k \in 1 .. Len(m) /\ u[j] = m[j - n + k]
        BY <1>12, <2>6
      <3>3. i - n + k < j - n + k
        BY <1>1, <1>6
      <3>4. QED
        BY <1>2, <3>1, <3>2, <3>3
    <2>7. QED
      BY <1>1, <1>2, <1>3, <1>6, <1>13, <2>1, <2>2, <2>3, <2>4, <2>5, <2>6
  <1>15. /\ DOMAIN AsFunction(u) = {u[i].id : i \in 1 .. Len(u)}
         /\ \A i \in 1 .. Len(u) : AsFunction(u)[u[i].id] = u[i].value
    BY <1>14, FunctionIs
  \* Every entry of the block has its place, and every other one of the map.
  <1>16. \A x \in DOMAIN g : x - start + at \in 1 .. Len(u) /\ u[x - start + at].id = x
    <2> SUFFICES ASSUME NEW x \in DOMAIN g
                 PROVE  x - start + at \in 1 .. Len(u) /\ u[x - start + at].id = x
      OBVIOUS
    <2>1. /\ x \in Nat /\ x - start + at \in 1 .. Len(u)
          /\ at <= x - start + at /\ x - start + at < at + n
      BY <1>1, <1>2, <1>3, <1>6, <1>7, <1>9, SMTT(30)
    <2>2. u[x - start + at].id = start + (x - start + at) - at
      BY <1>11, <2>1
    <2>3. QED
      BY <1>3, <1>2, <2>1, <2>2
  <1>17. ASSUME NEW i \in 1 .. Len(m), m[i].id \notin DOMAIN g
         PROVE  \E j \in 1 .. Len(u) : u[j].id = m[i].id
    <2>1. CASE i < at
      <3>1. i \in 1 .. Len(u)
        BY <1>1, <1>2, <1>3, <1>6, <1>7, <2>1
      <3>2. QED
        BY <1>10, <2>1, <3>1
    <2>2. CASE ~(i < at)
      <3>1. ~(i < at + k)
        <4> SUFFICES ASSUME i < at + k PROVE FALSE
          OBVIOUS
        <4>1. i - at + 1 \in 1 .. k /\ at + (i - at + 1) - 1 = i
          BY <1>1, <1>2, <1>3, <2>2
        <4>2. m[i].id = start + (i - at + 1) - 1
          BY <1>4, <4>1
        <4>3. m[i].id \in start .. (start + n - 1)
          <5>1. i - at + 1 \in 1 .. n
            BY <1>1, <4>1
          <5>2. QED
            BY <1>1, <4>2, <5>1
        <4>4. QED
          BY <1>9, <1>17, <4>3
      <3>2. i - k + n \in 1 .. Len(u) /\ at + n <= i - k + n /\ (i - k + n) - n + k = i
        BY <1>1, <1>2, <1>3, <1>6, <3>1
      <3>3. u[i - k + n] = m[i]
        BY <1>12, <3>2
      <3>4. QED
        BY <3>2, <3>3
    <2>3. QED
      BY <2>1, <2>2
  <1>18. DOMAIN AsFunction(u) = DOMAIN g \union DOMAIN f
    <2>1. ASSUME NEW i \in 1 .. Len(u) PROVE u[i].id \in DOMAIN g \union DOMAIN f
      <3>1. CASE i < at
        BY <1>8, <1>10, <3>1
      <3>2. CASE at <= i /\ i < at + n
        BY <1>1, <1>2, <1>3, <1>6, <1>9, <1>11, <3>2
      <3>3. CASE at + n <= i
        <4>1. i - n + k \in 1 .. Len(m) /\ u[i] = m[i - n + k]
          BY <1>12, <3>3
        <4>2. QED
          BY <1>8, <4>1
      <3>4. QED
        BY <1>13, <3>1, <3>2, <3>3
    <2>2. DOMAIN AsFunction(u) \subseteq DOMAIN g \union DOMAIN f
      BY <1>15, <2>1
    <2>3. DOMAIN g \subseteq DOMAIN AsFunction(u)
      BY <1>15, <1>16
    <2>4. \A i \in 1 .. Len(m) : m[i].id \in DOMAIN AsFunction(u)
      BY <1>15, <1>17, <2>3
    <2>5. QED
      BY <1>8, <2>2, <2>3, <2>4
  <1>19. ASSUME NEW x \in DOMAIN g \union DOMAIN f
         PROVE  AsFunction(u)[x] = IF x \in DOMAIN g THEN g[x] ELSE f[x]
    <2>1. PICK i \in 1 .. Len(u) : u[i].id = x
      BY <1>15, <1>18
    <2>2. AsFunction(u)[x] = u[i].value
      BY <1>15, <2>1
    <2>3. CASE i < at
      <3>1. i \in 1 .. Len(m) /\ u[i] = m[i] /\ m[i].id < start /\ m[i].id \in Nat
        BY <1>2, <1>10, <2>3
      <3>2. x \notin DOMAIN g
        BY <1>1, <1>9, <2>1, <3>1
      <3>3. QED
        BY <1>8, <2>1, <2>2, <3>1, <3>2
    <2>4. CASE at <= i /\ i < at + n
      <3>1. x = start + i - at /\ u[i].value = values[i - at + 1]
        BY <1>11, <2>1, <2>4
      <3>2. x \in DOMAIN g /\ x - start + 1 = i - at + 1
        BY <1>1, <1>2, <1>3, <1>6, <1>9, <2>4, <3>1
      <3>3. QED
        BY <1>9, <2>2, <3>1, <3>2
    <2>5. CASE at + n <= i
      <3>1. i - n + k \in 1 .. Len(m) /\ u[i] = m[i - n + k] /\ start + n <= m[i - n + k].id
        BY <1>12, <2>5
      <3>2. m[i - n + k].id \in Nat
        BY <1>2, <3>1
      <3>3. x \notin DOMAIN g
        BY <1>1, <1>9, <2>1, <3>1, <3>2
      <3>4. QED
        BY <1>8, <2>1, <2>2, <3>1, <3>3
    <2>6. QED
      BY <1>13, <2>3, <2>4, <2>5
  <1>20. AsFunction(u) = Over(g, f)
    <2>1. AsFunction(u) = [x \in DOMAIN AsFunction(u) |-> AsFunction(u)[x]]
      BY DEF AsFunction
    <2>2. QED
      BY <1>18, <1>19, <2>1 DEF Over
  <1>21. QED
    BY <1>14, <1>20 DEF u, f, g

\* When the vector stays in order, the entries the block meets are all the ids
\* of it that the map has.
LEMMA OrderedRun ==
  ASSUME NEW V, NEW m \in Vectors(V), NEW start \in Nat, NEW values \in Seq(V),
         NEW k \in 0 .. Len(values), Runs(m, start, values, k),
         InsertBlock(m, start, values) \in Vectors(V)
  PROVE  Continues(m, start, values, k)
  <1> DEFINE at == LowerBound(m, start)
             n  == Len(values)
             u  == InsertBlock(m, start, values)
  <1>1. n \in Nat
    OBVIOUS
  <1>2. /\ Len(m) \in Nat
        /\ \A i \in 1 .. Len(m) : m[i].id \in Nat
        /\ \A i, j \in 1 .. Len(m) : i < j => m[i].id < m[j].id
    BY VectorIs
  <1>3. at \in 1 .. Len(m) + 1 /\ \A i \in 1 .. Len(m) : i < at <=> m[i].id < start
    BY LowerBoundIs
  <1>4. /\ u \in Seq(Entries(V))
        /\ Len(u) = Len(m) + n - k
        /\ \A i \in 1 .. Len(u) :
             u[i] = IF i < at THEN m[i]
                    ELSE IF i < at + n THEN Entry(start + i - at, values[i - at + 1])
                    ELSE m[i - n + k]
    BY BlockIs
  <1>5. \A j \in 1 .. k : at + j - 1 \in 1 .. Len(m) /\ m[at + j - 1].id = start + j - 1
    BY DEF Runs, Meets
  <1>6. \A i, j \in 1 .. Len(u) : i < j => u[i].id < u[j].id
    BY VectorIs
  <1> HIDE DEF at, n, u
  <1>7. SUFFICES ASSUME NEW j \in 1 .. n
                 PROVE  (\E i \in 1 .. Len(m) : m[i].id = start + j - 1) <=> j <= k
    BY DEF Continues, n
  <1>8. CASE j <= k
    <2>1. j \in 1 .. k
      BY <1>1, <1>8
    <2>2. QED
      BY <1>5, <1>8, <2>1
  <1>9. ASSUME k < j, NEW i \in 1 .. Len(m), m[i].id = start + j - 1
        PROVE  FALSE
    <2>1. ~(i < at)
      BY <1>1, <1>2, <1>3, <1>9
    <2>2. ~(i < at + k)
      <3> SUFFICES ASSUME i < at + k PROVE FALSE
        OBVIOUS
      <3>1. i - at + 1 \in 1 .. k /\ at + (i - at + 1) - 1 = i
        BY <1>1, <1>2, <1>3, <2>1
      <3>2. m[i].id = start + (i - at + 1) - 1
        BY <1>5, <3>1
      <3>3. i - at + 1 = j
        BY <1>1, <1>2, <1>3, <1>9, <3>2
      <3>4. QED
        BY <1>1, <1>9, <3>1, <3>3
    \* The entry of the block and the entry it has left behind.
    <2> DEFINE p == at + j - 1
               q == i + n - k
    <2>3. /\ p \in Int /\ q \in Int /\ 1 <= p /\ p < q /\ q <= Len(u)
          /\ at <= p /\ p < at + n /\ at + n <= q
      BY <1>1, <1>2, <1>3, <1>4, <1>9, <2>2
    <2>4. start + p - at = start + j - 1 /\ q - n + k = i
      BY <1>1, <1>2, <1>3
    <2> HIDE DEF p, q
    <2>5. p \in 1 .. Len(u) /\ q \in 1 .. Len(u) /\ ~(p < at) /\ ~(q < at) /\ ~(q < at + n)
      <3>1. Len(u) \in Int
        BY <1>1, <1>2, <1>4
      <3>2. QED
        BY <1>1, <1>2, <1>3, <2>3, <3>1
    <2>6. u[p] = Entry(start + p - at, values[p - at + 1])
      BY <1>4, <2>3, <2>5
    <2>7. u[p].id = start + j - 1
      BY <2>4, <2>6 DEF Entry
    <2>8. u[q] = m[i]
      BY <1>4, <2>4, <2>5
    <2>9. u[p].id < u[q].id
      BY <1>6, <2>3, <2>5
    <2>10. QED
      BY <1>1, <1>9, <2>7, <2>8, <2>9
  <1>10. QED
    BY <1>1, <1>8, <1>9

\* insert_block keeps the vector in order for no other block: when the map has
\* an id of the block behind one it does not have, the id is then there twice.
THEOREM BlockKeepsOrder ==
  ASSUME NEW V, NEW m \in Vectors(V), NEW start \in Nat, NEW values \in Seq(V)
  PROVE  InsertBlock(m, start, values) \in Vectors(V)
           <=> \E k \in 0 .. Len(values) : Continues(m, start, values, k)
  <1>1. ASSUME InsertBlock(m, start, values) \in Vectors(V)
        PROVE  \E k \in 0 .. Len(values) : Continues(m, start, values, k)
    BY <1>1, RunExists, OrderedRun
  <1>2. QED
    BY <1>1, BlockActsAsFunction

-------------------------------------------------------------------------------
(* A MatterValue gives back what was assigned to it *)

\* Values whose bytes are in B and whose tags are in T.
Values(T, B) == [tag : T, val : [1 .. 8 -> B], typeCreate : BOOLEAN]

\* Each kind is read by one type.
Reader ==
    [BOOLEAN |-> "bool", FLOAT |-> "float", UINT8 |-> "uint8", ENUM8 |-> "uint8",
     BITMAP8 |-> "uint8", UINT16 |-> "uint16", ENUM16 |-> "uint16", BITMAP16 |-> "uint16",
     UINT32 |-> "uint32", BITMAP32 |-> "uint32", UINT64 |-> "uint64", INT8 |-> "int8",
     INT16 |-> "int16", INTEGER |-> "int32", INT32 |-> "int32", INT64 |-> "int64",
     CHAR_STRING |-> "string", OCTET_STRING |-> "string"]

LEMMA ReaderIs ==
  ASSUME NEW type \in Value!CppTypes
  PROVE  /\ \A kind \in Value!Kinds[type] : Reader[kind] = type
         /\ Value!Assigned[type] \in Value!Kinds[type]
  BY DEF Value!CppTypes, Value!Kinds, Value!Assigned, Reader

\* The tag an assignment gives is one its own type accepts and no other.
LEMMA TagFits ==
  ASSUME NEW type \in Value!CppTypes, NEW other \in Value!CppTypes
  PROVE  Value!Tag[type] \in Value!Accepts[other] <=> other = type
  <1>1. Value!Tag[type] = [kind |-> Value!Assigned[type], nullable |-> FALSE]
    BY DEF Value!Tag, Value!Plain
  <1>2. Value!Tag[type] \in Value!Accepts[other] <=> Value!Assigned[type] \in Value!Kinds[other]
    BY <1>1 DEF Value!Accepts
  <1>3. QED
    BY <1>2, ReaderIs

LEMMA SizeIs ==
  ASSUME NEW type \in Value!CppTypes
  PROVE  Value!Size[type] \in 1 .. 8
  BY DEF Value!CppTypes, Value!Size, Value!Kinds

LEMMA PartIs ==
  ASSUME NEW B, NEW x \in [1 .. 8 -> B], NEW n \in 1 .. 8
  PROVE  SubSeq(x, 1, n) = [k \in 1 .. n |-> x[k]]
  OBVIOUS

\* An assignment writes the bytes of its type, and the tag it gives is read by it.
LEMMA AssignedIs ==
  ASSUME NEW T, NEW B, NEW v \in Values(T, B), NEW x \in [1 .. 8 -> B], NEW type \in Value!CppTypes
  PROVE  /\ Value!Assign(v, type, x).tag =
              IF v.typeCreate \/ type = "string" THEN Value!Tag[type] ELSE v.tag
         /\ \A k \in 1 .. Value!Size[type] : Value!Assign(v, type, x).val[k] = x[k]
  <1>1. \A k \in 1 .. Value!Size[type] : k \in 1 .. 8 /\ k <= Value!Size[type]
    BY SizeIs
  <1>2. /\ Value!Assign(v, type, x).tag =
              IF v.typeCreate \/ type = "string" THEN Value!Tag[type] ELSE v.tag
        /\ Value!Assign(v, type, x).val =
              [k \in 1 .. 8 |-> IF k <= Value!Size[type] THEN x[k] ELSE v.val[k]]
    BY DEF Value!Assign, Values
  <1>3. QED
    BY <1>1, <1>2

LEMMA ConvertIs ==
  ASSUME NEW v, NEW x, NEW type, v.tag \in Value!Accepts[type],
         \A k \in 1 .. Value!Size[type] : v.val[k] = x[k]
  PROVE  Value!Convert(v, type) = [k \in 1 .. Value!Size[type] |-> x[k]]
  BY DEF Value!Convert

\* What is assigned to a MatterValue is read back (matterValue.h), for every tag,
\* type and bytes: whole as the same type, as 0 by a type the value's new tag does
\* not fit, and the same through an attribute of the SDK that keeps its type.
THEOREM ValuesReadBack ==
  ASSUME NEW T, NEW B, 0 \in B, NEW v \in Values(T, B), NEW x \in [1 .. 8 -> B],
         NEW type \in Value!CppTypes, NEW other \in Value!CppTypes
  PROVE  Value!ReadsBack(v, type, x, other)
  <1> DEFINE w       == Value!Assign(v, type, x)
             part    == SubSeq(x, 1, Value!Size[type])
             kept    == Value!GetValue(Value!Raw(v))
             changed == Value!Assign(kept, type, x)
             empty   == Value!Empty(TRUE)
             fresh   == Value!Assign(empty, type, x)
             any     == T \union {Value!Plain("INVALID")}
  <1>1. empty \in Values(any, B) /\ empty.typeCreate = TRUE
    <2>1. Value!Bytes(0) \in [1 .. 8 -> B]
      BY DEF Value!Bytes
    <2>2. QED
      BY <2>1 DEF Values, Value!Empty
  <1>2. kept \in Values(any, B) /\ kept.tag = v.tag /\ kept.typeCreate = FALSE
    <2> DEFINE none == Value!Empty(FALSE)
    <2>1. none \in Values(any, B) /\ none.typeCreate = FALSE
      <3>1. Value!Bytes(0) \in [1 .. 8 -> B]
        BY DEF Value!Bytes
      <3>2. QED
        BY <3>1 DEF Values, Value!Empty
    <2>2. /\ Value!Raw(v).tag = v.tag /\ Value!Raw(v).val = v.val
          /\ v.tag \in any /\ v.val \in [1 .. 8 -> B]
      BY DEF Value!Raw, Values
    <2>3. kept = [none EXCEPT !.tag = v.tag, !.val = v.val]
      BY <2>2 DEF Value!GetValue, Value!SetRaw
    <2> HIDE DEF none, kept, any
    <2>4. QED
      BY <2>1, <2>2, <2>3 DEF Values
  <1> HIDE DEF any, empty
  <1>3. /\ w.tag = IF v.typeCreate \/ type = "string" THEN Value!Tag[type] ELSE v.tag
        /\ \A k \in 1 .. Value!Size[type] : w.val[k] = x[k]
    BY AssignedIs
  <1>4. /\ changed.tag = IF type = "string" THEN Value!Tag[type] ELSE v.tag
        /\ \A k \in 1 .. Value!Size[type] : changed.val[k] = x[k]
    <2> HIDE DEF kept
    <2>1. QED
      BY <1>2, AssignedIs
  <1>5. /\ fresh.tag = Value!Tag[type]
        /\ \A k \in 1 .. Value!Size[type] : fresh.val[k] = x[k]
    BY <1>1, AssignedIs
  <1>6. Value!Tag[type] \in Value!Accepts[type]
    BY TagFits
  <1>7. part = [k \in 1 .. Value!Size[type] |-> x[k]]
    BY SizeIs, PartIs
  <1> HIDE DEF w, part, kept, changed, fresh
  \* The value itself, as the type that was assigned and as another.
  <1>8. ASSUME v.typeCreate \/ type = "string" \/ v.tag \in Value!Accepts[type]
        PROVE  Value!Convert(w, type) = part
    <2>1. w.tag \in Value!Accepts[type]
      BY <1>3, <1>6, <1>8
    <2>2. \A k \in 1 .. Value!Size[type] : w.val[k] = x[k]
      BY <1>3
    <2>3. QED
      BY <1>7, <2>1, <2>2, ConvertIs
  <1>9. ASSUME v.typeCreate, other # type
        PROVE  Value!Convert(w, other) = SubSeq(Value!Bytes(0), 1, Value!Size[other])
    <2>1. w.tag \notin Value!Accepts[other]
      BY <1>3, <1>9, TagFits
    <2>2. Value!Convert(w, other) = [k \in 1 .. Value!Size[other] |-> 0]
      BY <2>1 DEF Value!Convert
    <2>3. Value!Bytes(0) \in [1 .. 8 -> {0}] /\ Value!Size[other] \in 1 .. 8
      BY SizeIs DEF Value!Bytes
    <2>4. SubSeq(Value!Bytes(0), 1, Value!Size[other])
            = [k \in 1 .. Value!Size[other] |-> Value!Bytes(0)[k]]
      BY <2>3, PartIs
    <2>5. \A k \in 1 .. Value!Size[other] : Value!Bytes(0)[k] = 0
      BY <2>3
    <2>6. QED
      BY <2>2, <2>4, <2>5
  \* An attribute of the type's own tag takes the value.
  <1>10. ASSUME v.tag = Value!Tag[type]
        PROVE  Value!Convert(Value!GetValue(Value!UpdateValue(Value!Raw(v), type, x)), type) = part
    <2> DEFINE seen == Value!GetValue(Value!Raw(fresh))
    <2>1. Value!UpdateValue(Value!Raw(v), type, x) = Value!Raw(fresh)
      BY <1>5, <1>10 DEF Value!UpdateValue, Value!SdkUpdate, Value!Raw, fresh, empty
    <2>2. seen.tag = fresh.tag /\ seen.val = fresh.val
      BY DEF Value!GetValue, Value!SetRaw, Value!Empty, Value!Raw
    <2> HIDE DEF seen
    <2>3. seen.tag \in Value!Accepts[type] /\ \A k \in 1 .. Value!Size[type] : seen.val[k] = x[k]
      BY <1>5, <1>6, <2>2
    <2>4. Value!Convert(seen, type) = part
      BY <1>7, <2>3, ConvertIs
    <2>5. QED
      BY <2>1, <2>4 DEF seen
  \* A value taken from an attribute and changed fits the attribute.
  <1>11. ASSUME v.tag \in Value!Accepts[type], v.tag # Value!Plain("OCTET_STRING")
         PROVE  changed.tag = v.tag
    <2>1. CASE type = "string"
      <3>1. /\ v.tag \in [kind : {"CHAR_STRING", "OCTET_STRING"}, nullable : BOOLEAN]
            /\ ~v.tag.nullable
        BY <1>11, <2>1 DEF Value!Accepts, Value!Kinds, Value!CppTypes
      <3>2. /\ v.tag = [kind |-> v.tag.kind, nullable |-> FALSE]
            /\ v.tag.kind \in {"CHAR_STRING", "OCTET_STRING"}
        BY <3>1
      <3>3. v.tag = Value!Plain("CHAR_STRING")
        BY <1>11, <3>2 DEF Value!Plain
      <3>4. Value!Tag[type] = Value!Plain("CHAR_STRING")
        BY <2>1 DEF Value!Tag, Value!Assigned
      <3>5. QED
        BY <1>4, <2>1, <3>3, <3>4
    <2>2. CASE type # "string"
      BY <1>4, <2>2
    <2>3. QED
      BY <2>1, <2>2
  <1>12. ASSUME v.tag \in Value!Accepts[type] \ {Value!Plain("OCTET_STRING")}
         PROVE  /\ Value!SdkUpdate(Value!Raw(v), Value!Raw(changed)) = Value!Raw(changed)
                /\ Value!Convert(Value!FromRaw(Value!Raw(changed)), type) = part
    <2> DEFINE again == Value!FromRaw(Value!Raw(changed))
    <2>1. changed.tag = v.tag
      BY <1>11, <1>12
    <2>2. Value!SdkUpdate(Value!Raw(v), Value!Raw(changed)) = Value!Raw(changed)
      BY <2>1 DEF Value!SdkUpdate, Value!Raw
    <2>3. again.tag = v.tag /\ again.val = changed.val
      BY <2>1 DEF Value!FromRaw, Value!Raw
    <2> HIDE DEF again
    <2>4. again.tag \in Value!Accepts[type] /\ \A k \in 1 .. Value!Size[type] : again.val[k] = x[k]
      BY <1>4, <1>12, <2>3
    <2>5. Value!Convert(again, type) = part
      BY <1>7, <2>4, ConvertIs
    <2>6. QED
      BY <2>2, <2>5 DEF again
  <1>13. QED
    BY <1>8, <1>9, <1>10, <1>12 DEF Value!ReadsBack, w, part, kept, changed

\* ValueReadsBack, the instances of it that the run checks, in every state.
THEOREM ValueReadsBackHolds == Spec => []ValueReadsBack
  <1>1. ValueReadsBack
    <2>1. SUFFICES ASSUME NEW tag \in (UNION {Value!Accepts[t] : t \in Value!CppTypes})
                                        \union {Value!Plain("INVALID")},
                          NEW t \in Value!CppTypes, NEW other \in Value!CppTypes,
                          NEW creates \in BOOLEAN
                   PROVE  Value!ReadsBack([tag |-> tag, val |-> Value!Bytes(3),
                                           typeCreate |-> creates], t, Value!Bytes(5), other)
      BY DEF ValueReadsBack
    <2>2. [tag |-> tag, val |-> Value!Bytes(3), typeCreate |-> creates] \in Values({tag}, Nat)
      BY DEF Values, Value!Bytes
    <2>3. Value!Bytes(5) \in [1 .. 8 -> Nat] /\ 0 \in Nat
      BY DEF Value!Bytes
    <2>4. QED
      BY <2>2, <2>3, ValuesReadBack
  <1>2. QED
    BY <1>1, PTL

-------------------------------------------------------------------------------
(* Every function has one vector, so that MapIsFunction holds of every map *)

\* Two vectors that act as the same function are the same.
LEMMA VectorsEqual ==
  ASSUME NEW V, NEW m \in Vectors(V), NEW t \in Vectors(V), AsFunction(m) = AsFunction(t)
  PROVE  m = t
  <1> DEFINE Same(i) == i \in 1 .. Len(m) /\ i \in 1 .. Len(t) /\ m[i] = t[i]
             apart   == {i \in Nat : i \in 1 .. Len(m) \union 1 .. Len(t) /\ ~Same(i)}
  <1>1. /\ Len(m) \in Nat /\ Len(t) \in Nat
        /\ \A i \in 1 .. Len(m) : m[i] \in Entries(V) /\ m[i].id \in Nat
        /\ \A i \in 1 .. Len(t) : t[i] \in Entries(V) /\ t[i].id \in Nat
        /\ \A i, j \in 1 .. Len(m) : i < j => m[i].id < m[j].id
        /\ \A i, j \in 1 .. Len(t) : i < j => t[i].id < t[j].id
    BY VectorIs
  \* The same ids, with the same values.
  <1>2. {m[i].id : i \in 1 .. Len(m)} = {t[i].id : i \in 1 .. Len(t)}
    <2>1. DOMAIN AsFunction(m) = {m[i].id : i \in 1 .. Len(m)}
      BY FunctionIs
    <2>2. DOMAIN AsFunction(t) = {t[i].id : i \in 1 .. Len(t)}
      BY FunctionIs
    <2>3. QED
      BY <2>1, <2>2
  <1>3. ASSUME NEW i \in 1 .. Len(m), NEW j \in 1 .. Len(t), m[i].id = t[j].id
        PROVE  m[i] = t[j]
    <2>1. m[i].value = t[j].value
      BY <1>3, FunctionIs
    <2>2. \A e \in Entries(V) : e = Entry(e.id, e.value)
      BY DEF Entries, Entry
    <2>3. m[i] = Entry(m[i].id, m[i].value) /\ t[j] = Entry(t[j].id, t[j].value)
      BY <1>1, <2>2
    <2>4. QED
      BY <1>3, <2>1, <2>3
  <1>4. ASSUME apart # {} PROVE FALSE
    <2>1. PICK p \in apart : \A q \in apart : p <= q
      <3>1. apart \in SUBSET Nat
        OBVIOUS
      <3> HIDE DEF apart
      <3>2. QED
        BY <1>4, <3>1, Least
    <2>2. p \in Nat /\ p >= 1 /\ (p <= Len(m) \/ p <= Len(t))
      BY <1>1
    <2>3. \A q \in 1 .. (p - 1) : Same(q)
      <3> SUFFICES ASSUME NEW q \in 1 .. (p - 1), ~Same(q) PROVE FALSE
        OBVIOUS
      <3>1. q \in Nat /\ q < p /\ q \in 1 .. Len(m) \union 1 .. Len(t)
        BY <1>1, <2>2
      <3>2. q \in apart
        BY <3>1
      <3>3. p <= q
        BY <2>1, <3>2
      <3>4. QED
        BY <2>2, <3>1, <3>3
    <2>4. ~Same(p)
      OBVIOUS
    \* The entry at p of one vector is behind p in the other.
    <2>5. CASE p <= Len(m)
      <3>1. p \in 1 .. Len(m)
        BY <1>1, <2>2, <2>5
      <3>2. PICK q \in 1 .. Len(t) : t[q].id = m[p].id
        BY <1>2, <3>1
      <3>3. m[p] = t[q]
        BY <1>3, <3>1, <3>2
      <3>4. ~(q < p)
        <4> SUFFICES ASSUME q < p PROVE FALSE
          OBVIOUS
        <4>1. q \in 1 .. (p - 1)
          BY <1>1, <2>2
        <4>2. q \in 1 .. Len(m) /\ m[q] = t[q]
          BY <2>3, <4>1
        <4>3. m[q].id < m[p].id
          BY <1>1, <3>1, <4>2
        <4>4. QED
          BY <1>1, <3>1, <3>2, <4>2, <4>3
      <3>5. p # q
        BY <2>4, <3>1, <3>3
      <3>6. p \in 1 .. Len(t) /\ p < q
        BY <1>1, <2>2, <3>4, <3>5
      <3>7. t[p].id < m[p].id
        BY <1>1, <3>2, <3>6
      \* Nor does m have the entry t has at p.
      <3>8. PICK r \in 1 .. Len(m) : m[r].id = t[p].id
        BY <1>2, <3>6
      <3>9. r < p
        <4>1. ~(p < r) /\ p # r
          BY <1>1, <3>1, <3>6, <3>7, <3>8
        <4>2. QED
          BY <1>1, <2>2, <4>1
      <3>10. r \in 1 .. (p - 1)
        BY <1>1, <2>2, <3>9
      <3>11. r \in 1 .. Len(t) /\ m[r] = t[r]
        BY <2>3, <3>10
      <3>12. t[r].id < t[p].id
        BY <1>1, <3>6, <3>9, <3>11
      <3>13. QED
        BY <1>1, <3>6, <3>8, <3>11, <3>12
    <2>6. CASE ~(p <= Len(m))
      <3>1. p \in 1 .. Len(t) /\ Len(m) < p
        BY <1>1, <2>2, <2>6
      <3>2. PICK r \in 1 .. Len(m) : m[r].id = t[p].id
        BY <1>2, <3>1
      <3>3. r \in 1 .. (p - 1) /\ r < p
        BY <1>1, <2>2, <3>1
      <3>4. r \in 1 .. Len(t) /\ m[r] = t[r]
        BY <2>3, <3>3
      <3>5. t[r].id < t[p].id
        BY <1>1, <3>1, <3>3, <3>4
      <3>6. QED
        BY <1>1, <3>1, <3>2, <3>4, <3>5
    <2>7. QED
      BY <2>5, <2>6
  <1>5. \A i \in 1 .. Len(m) \union 1 .. Len(t) : Same(i)
    <2>1. 1 .. Len(m) \union 1 .. Len(t) \subseteq Nat
      BY <1>1
    <2>2. QED
      BY <1>4, <2>1
  <1>6. Len(m) = Len(t)
    <2>1. ~(Len(m) < Len(t))
      <3> SUFFICES ASSUME Len(m) < Len(t) PROVE FALSE
        OBVIOUS
      <3>1. Len(t) \in 1 .. Len(t) /\ ~(Len(t) \in 1 .. Len(m))
        BY <1>1
      <3>2. QED
        BY <1>5, <3>1
    <2>2. ~(Len(t) < Len(m))
      <3> SUFFICES ASSUME Len(t) < Len(m) PROVE FALSE
        OBVIOUS
      <3>1. Len(m) \in 1 .. Len(m) /\ ~(Len(m) \in 1 .. Len(t))
        BY <1>1
      <3>2. QED
        BY <1>5, <3>1
    <2>3. QED
      BY <1>1, <2>1, <2>2
  <1>7. \A i \in 1 .. Len(m) : m[i] = t[i]
    BY <1>5
  <1>8. QED
    <2>1. m \in Seq(Entries(V)) /\ t \in Seq(Entries(V))
      BY VectorIs
    <2>2. QED
      BY <1>6, <1>7, <2>1, SeqEqual

\* A vector has one entry of each id of its function.
LEMMA IdsOf ==
  ASSUME NEW V, NEW m \in Vectors(V)
  PROVE  /\ IsFiniteSet(DOMAIN AsFunction(m)) /\ DOMAIN AsFunction(m) \in SUBSET Nat
         /\ Cardinality(DOMAIN AsFunction(m)) = Len(m)
  <1> DEFINE ids == DOMAIN AsFunction(m)
             b   == [i \in 1 .. Len(m) |-> m[i].id]
  <1>1. Len(m) \in Nat /\ \A i \in 1 .. Len(m) : m[i].id \in Nat
    BY VectorIs
  <1>2. ids = {m[i].id : i \in 1 .. Len(m)}
    BY FunctionIs
  <1>3. ASSUME NEW i \in 1 .. Len(m), NEW j \in 1 .. Len(m), b[i] = b[j] PROVE i = j
    BY <1>1, <1>3, VectorIs
  <1>4. b \in Bijection(1 .. Len(m), ids)
    <2>1. b \in [1 .. Len(m) -> ids] /\ \A x \in ids : \E i \in 1 .. Len(m) : b[i] = x
      BY <1>2
    <2>2. IsInjective(b)
      BY <1>3 DEF IsInjective
    <2> HIDE DEF b, ids
    <2>3. QED
      BY <2>1, <2>2 DEF Bijection, Injection, Surjection
  <1>5. ExistsBijection(1 .. Len(m), ids)
    BY <1>4 DEF ExistsBijection
  <1> HIDE DEF ids, b
  <1>6. IsFiniteSet(ids) /\ Cardinality(ids) = Len(m)
    BY <1>1, <1>5, FS_CountingElements, FS_NatBijection
  <1>7. ids \in SUBSET Nat
    BY <1>1, <1>2
  <1>8. QED
    BY <1>6, <1>7 DEF ids

\* MapOf finds the vector of a function.
LEMMA MapOfIs ==
  ASSUME NEW V, NEW m \in Vectors(V)
  PROVE  MapOf(AsFunction(m)) = m
  <1> DEFINE f       == AsFunction(m)
             entries == {Entry(id, f[id]) : id \in DOMAIN f}
             t       == MapOf(f)
  <1>1. /\ m \in Seq(Entries(V)) /\ Len(m) \in Nat /\ DOMAIN m = 1 .. Len(m) /\ Ordered(m)
        /\ \A i \in 1 .. Len(m) : m[i] \in Entries(V)
    BY VectorIs DEF Vectors
  <1>2. Cardinality(DOMAIN f) = Len(m)
    BY IdsOf
  <1>3. DOMAIN f = {m[i].id : i \in 1 .. Len(m)} /\ \A i \in 1 .. Len(m) : f[m[i].id] = m[i].value
    BY FunctionIs
  <1>4. \A i \in 1 .. Len(m) : Entry(m[i].id, f[m[i].id]) = m[i]
    BY <1>1, <1>3 DEF Entry, Entries
  <1>5. entries = {m[i] : i \in 1 .. Len(m)}
    <2> HIDE DEF f
    <2>1. QED
      BY <1>3, <1>4
  <1>6. entries \subseteq Entries(V)
    BY <1>1, <1>5
  <1>7. m \in [1 .. Len(m) -> entries]
    <2> HIDE DEF entries
    <2>1. QED
      BY <1>1, <1>5
  <1>8. t \in [1 .. Len(m) -> entries] /\ Ordered(t)
    <2>1. t = CHOOSE u \in [1 .. Len(m) -> entries] : Ordered(u)
      BY <1>2 DEF MapOf
    <2> HIDE DEF t, entries
    <2>2. QED
      BY <1>1, <1>7, <2>1
  <1> HIDE DEF t, entries, f
  <1>9. t \in Vectors(V) /\ Len(t) = Len(m)
    <2>1. t \in [1 .. Len(m) -> Entries(V)]
      BY <1>6, <1>8
    <2>2. t \in Seq(Entries(V)) /\ Len(t) = Len(m)
      BY <1>1, <2>1
    <2>3. QED
      BY <1>8, <2>2 DEF Vectors
  \* Each of its entries is one of m, and it has as many.
  <1>10. ASSUME NEW i \in 1 .. Len(t)
         PROVE  t[i].id \in DOMAIN f /\ t[i].value = f[t[i].id]
    <2>1. t[i] \in entries
      BY <1>8, <1>9
    <2>2. QED
      BY <2>1 DEF entries, Entry
  <1>11. DOMAIN AsFunction(t) = {t[i].id : i \in 1 .. Len(t)}
         /\ \A i \in 1 .. Len(t) : AsFunction(t)[t[i].id] = t[i].value
    BY <1>9, FunctionIs
  <1>12. DOMAIN AsFunction(t) = DOMAIN f
    <2>1. DOMAIN AsFunction(t) \subseteq DOMAIN f
      BY <1>10, <1>11
    <2>2. Cardinality(DOMAIN AsFunction(t)) = Len(m)
      BY <1>9, IdsOf
    <2>3. IsFiniteSet(DOMAIN f)
      BY IdsOf DEF f
    <2>4. QED
      BY <1>2, <2>1, <2>2, <2>3, FS_Subset
  <1>13. \A x \in DOMAIN f : AsFunction(t)[x] = f[x]
    BY <1>10, <1>11, <1>12
  <1>14. AsFunction(t) = f
    <2>1. f = [x \in DOMAIN f |-> f[x]]
      BY DEF f, AsFunction
    <2>2. AsFunction(t) = [x \in DOMAIN AsFunction(t) |-> AsFunction(t)[x]]
      BY DEF AsFunction
    <2>3. QED
      BY <1>12, <1>13, <2>1, <2>2
  <1>15. QED
    BY <1>9, <1>14, VectorsEqual DEF f, t

\* Every function over finitely many ids has a vector.
LEMMA VectorExists ==
  ASSUME NEW V, NEW S \in SUBSET Nat, IsFiniteSet(S), NEW f \in [S -> V]
  PROVE  \E m \in Vectors(V) : AsFunction(m) = f
  <1> DEFINE Kept(g)   == \E m \in Vectors(V) : AsFunction(m) = g
             Sets(n)   == {T \in SUBSET Nat : IsFiniteSet(T) /\ Cardinality(T) = n}
             missing   == {n \in Nat : \E T \in Sets(n) : \E g \in [T -> V] : ~Kept(g)}
  <1>1. SUFFICES missing = {}
    <2>1. Cardinality(S) \in Nat
      BY FS_CardinalityType
    <2>2. S \in Sets(Cardinality(S))
      OBVIOUS
    <2> HIDE DEF Kept, Sets
    <2>3. ASSUME missing = {}, ~Kept(f) PROVE FALSE
      BY <2>1, <2>2, <2>3
    <2>4. QED
      BY <2>3 DEF Kept
  <1>2. SUFFICES ASSUME missing # {} PROVE FALSE
    OBVIOUS
  <1>3. PICK n \in missing : \A k \in missing : n <= k
    <2>1. missing \in SUBSET Nat
      OBVIOUS
    <2> HIDE DEF missing
    <2>2. QED
      BY <1>2, <2>1, Least
  <1>4. PICK T \in Sets(n) : \E g \in [T -> V] : ~Kept(g)
    OBVIOUS
  <1>5. PICK g \in [T -> V] : ~Kept(g)
    BY <1>4
  <1>6. n \in Nat /\ T \in SUBSET Nat /\ IsFiniteSet(T) /\ Cardinality(T) = n
    OBVIOUS
  <1> HIDE DEF Kept
  <1>7. T # {}
    <2>1. SUFFICES ASSUME T = {} PROVE Kept(g)
      BY <1>5
    <2>2. << >> \in Seq(Entries(V)) /\ Len(<< >>) = 0 /\ DOMAIN << >> = {}
      OBVIOUS
    <2>3. << >> \in Vectors(V)
      BY <2>2 DEF Vectors, Ordered
    <2>4. DOMAIN AsFunction(<< >>) = {}
      BY <2>2 DEF AsFunction, Ids
    <2>5. AsFunction(<< >>) = [x \in {} |-> g[x]]
      BY <2>2 DEF AsFunction, Ids
    <2>6. g = [x \in {} |-> g[x]]
      BY <2>1
    <2>7. QED
      BY <2>3, <2>5, <2>6 DEF Kept
  <1>8. PICK x \in T : TRUE
    BY <1>7
  <1> DEFINE R == T \ {x}
             h == [y \in R |-> g[y]]
  <1>9. R \in SUBSET Nat /\ IsFiniteSet(R) /\ Cardinality(R) = n - 1 /\ n - 1 \in Nat
    BY <1>6, FS_RemoveElement, FS_CardinalityType
  <1>10. h \in [R -> V]
    OBVIOUS
  <1>11. Kept(h)
    <2>1. n - 1 \notin missing
      <3>1. ~(n <= n - 1)
        BY <1>6
      <3> HIDE DEF missing
      <3>2. QED
        BY <1>3, <3>1
    <2>2. R \in Sets(n - 1)
      BY <1>9
    <2> HIDE DEF R, h, Sets
    <2>3. QED
      BY <1>9, <1>10, <2>1, <2>2
  <1>12. PICK m \in Vectors(V) : AsFunction(m) = h
    BY <1>11 DEF Kept
  <1>13. x \in Nat /\ g[x] \in V
    BY <1>6, <1>8
  <1>14. Put(h, x, g[x]) = g
    <2>1. DOMAIN h = R /\ {x} \union R = T
      OBVIOUS
    <2>2. \A y \in T : Put(h, x, g[x])[y] = g[y]
      BY <2>1 DEF Put, Over
    <2>3. Put(h, x, g[x]) = [y \in T |-> Put(h, x, g[x])[y]]
      BY <2>1 DEF Put, Over
    <2>4. QED
      BY <2>2, <2>3
  <1> HIDE DEF h, R
  <1>15. Kept(g)
    BY <1>12, <1>13, <1>14, StoreIs DEF Kept
  <1>16. QED
    BY <1>5, <1>15

\* The ids of a block the function has are an interval from its start exactly when
\* they are the first ones of the block.
LEMMA ContinuesIs ==
  ASSUME NEW V, NEW m \in Vectors(V), NEW start \in Nat, NEW values \in Seq(V),
         NEW k \in Nat
  PROVE  k \in 0 .. Len(values) /\ Continues(m, start, values, k)
           <=> DOMAIN AsFunction(m) \intersect BlockIds(start, values) = start .. (start + k - 1)
  <1> DEFINE n   == Len(values)
             ids == DOMAIN AsFunction(m)
             old == ids \intersect BlockIds(start, values)
  <1>1. n \in Nat
    OBVIOUS
  <1>2. ids = {m[i].id : i \in 1 .. Len(m)}
    BY FunctionIs
  <1>3. BlockIds(start, values) = start .. (start + n - 1)
    BY DEF BlockIds
  <1>4. Continues(m, start, values, k) <=> \A j \in 1 .. n : start + j - 1 \in ids <=> j <= k
    BY <1>2 DEF Continues
  <1> HIDE DEF n, ids
  <1>5. \A j \in 1 .. n : start + j - 1 \in start .. (start + n - 1)
    BY <1>1
  <1>6. \A x \in start .. (start + n - 1) :
          x - start + 1 \in 1 .. n /\ start + (x - start + 1) - 1 = x
    BY <1>1
  <1>7. ASSUME k \in 0 .. n, Continues(m, start, values, k)
        PROVE  old = start .. (start + k - 1)
    <2>1. ASSUME NEW x \in old PROVE x \in start .. (start + k - 1)
      <3>1. x \in ids /\ x \in start .. (start + n - 1)
        BY <1>3
      <3>2. x - start + 1 <= k
        BY <1>4, <1>6, <1>7, <3>1
      <3>3. QED
        BY <1>1, <3>1, <3>2
    <2>2. ASSUME NEW x \in start .. (start + k - 1) PROVE x \in old
      <3>1. x \in start .. (start + n - 1) /\ x - start + 1 <= k
        BY <1>1, <1>7
      <3>2. x \in ids
        BY <1>4, <1>6, <1>7, <3>1
      <3>3. QED
        BY <1>3, <3>1, <3>2
    <2> HIDE DEF old
    <2>3. QED
      BY <2>1, <2>2
  <1>8. ASSUME old = start .. (start + k - 1)
        PROVE  k \in 0 .. n /\ Continues(m, start, values, k)
    <2>1. k <= n
      <3>1. CASE k = 0
        BY <1>1, <3>1
      <3>2. CASE k # 0
        <4>1. start + k - 1 \in start .. (start + k - 1)
          BY <3>2
        <4>2. start + k - 1 \in start .. (start + n - 1)
          BY <1>3, <1>8, <4>1
        <4>3. QED
          BY <1>1, <4>2
      <3>3. QED
        BY <3>1, <3>2
    <2>2. ASSUME NEW j \in 1 .. n PROVE start + j - 1 \in ids <=> j <= k
      <3>1. start + j - 1 \in ids <=> start + j - 1 \in old
        BY <1>3, <1>5
      <3>2. start + j - 1 \in start .. (start + k - 1) <=> j <= k
        BY <1>1
      <3>3. QED
        BY <1>8, <3>1, <3>2
    <2>3. QED
      BY <1>1, <1>4, <2>1, <2>2
  <1>9. QED
    BY <1>7, <1>8 DEF n, ids

\* MatterMap is the function IdMap promises (matterMap.h), for every function over
\* finitely many ids, every id, value and block: what MapIsFunction checks of small
\* ones.  Of insert_block it speaks when the ids of the block the map has are its
\* first ones; BlockKeepsOrder says what is lost otherwise.
THEOREM EveryMapActsAsFunction ==
  ASSUME NEW V, NEW S \in SUBSET Nat, IsFiniteSet(S), NEW f \in [S -> V],
         NEW id \in Nat, NEW value \in V, NEW start \in Nat, NEW values \in Seq(V)
  PROVE  ActsAsFunction(f, id, value, <<start, values>>)
  <1> DEFINE m      == MapOf(f)
             new    == BlockOf(start, values)
             over   == Over(new, f)
             old    == DOMAIN f \intersect DOMAIN new
             result == InsertBlock(m, start, values)
  <1>1. m \in Vectors(V) /\ AsFunction(m) = f
    <2>1. PICK v \in Vectors(V) : AsFunction(v) = f
      BY VectorExists
    <2>2. QED
      BY <2>1, MapOfIs
  <1>2. DOMAIN new = BlockIds(start, values)
    BY DEF BlockOf
  <1>3. MapOf(over) \in Vectors(V) /\ AsFunction(MapOf(over)) = over
    <2> DEFINE T == DOMAIN new \union S
    <2>1. Len(values) \in Nat
      OBVIOUS
    <2>2. DOMAIN new \in SUBSET Nat /\ IsFiniteSet(DOMAIN new)
      <3>1. start \in Int /\ start + Len(values) - 1 \in Int
        BY <2>1
      <3>2. IsFiniteSet(start .. (start + Len(values) - 1))
        BY <3>1, FS_Interval
      <3>3. QED
        BY <1>2, <2>1, <3>2 DEF BlockIds
    <2>3. T \in SUBSET Nat /\ IsFiniteSet(T)
      BY <2>2, FS_Union
    <2>4. \A x \in DOMAIN new : new[x] \in V
      <3> SUFFICES ASSUME NEW x \in BlockIds(start, values) PROVE new[x] \in V
        BY <1>2
      <3>1. x - start + 1 \in 1 .. Len(values)
        BY <2>1 DEF BlockIds
      <3>2. QED
        BY <3>1 DEF BlockOf
    <2> HIDE DEF new
    <2>5. over \in [T -> V]
      BY <2>4 DEF Over
    <2> HIDE DEF T, over
    <2>6. PICK v \in Vectors(V) : AsFunction(v) = over
      BY <2>3, <2>5, VectorExists
    <2>7. QED
      BY <2>6, MapOfIs
  <1> HIDE DEF m
  <1>4. /\ Ordered(m)
        /\ ContainsId(m, id) <=> Has(f, id)
        /\ Get(m, id, value) = At(f, id, value)
    <2>1. Ordered(m)
      BY <1>1 DEF Vectors
    <2>2. /\ ContainsId(m, id) <=> Has(AsFunction(m), id)
          /\ Get(m, id, value) = At(AsFunction(m), id, value)
      BY <1>1, MapActsAsFunction
    <2>3. QED
      BY <1>1, <2>1, <2>2
  <1>5. Store(m, id, value) = MapOf(Put(f, id, value))
    <2>1. Store(m, id, value) \in Vectors(V) /\ AsFunction(Store(m, id, value)) = Put(f, id, value)
      BY <1>1, MapActsAsFunction
    <2>2. QED
      BY <2>1, MapOfIs
  <1>6. Subscript(m, id, value) = MapOf(Touch(f, id, value))
    <2>1. /\ Subscript(m, id, value) \in Vectors(V)
          /\ AsFunction(Subscript(m, id, value)) = Touch(f, id, value)
      BY <1>1, MapActsAsFunction
    <2>2. QED
      BY <2>1, MapOfIs
  <1>7. \A k \in Nat : k \in 0 .. Len(values) /\ Continues(m, start, values, k)
                         <=> old = start .. (start + k - 1)
    <2> SUFFICES ASSUME NEW k \in Nat
                 PROVE  k \in 0 .. Len(values) /\ Continues(m, start, values, k)
                          <=> old = start .. (start + k - 1)
      OBVIOUS
    <2>1. old = DOMAIN AsFunction(m) \intersect BlockIds(start, values)
      BY <1>1, <1>2
    <2> HIDE DEF old
    <2>2. QED
      BY <1>1, <2>1, ContinuesIs
  <1> HIDE DEF new, over, old
  <1>8. ASSUME NEW k \in 0 .. Len(values), Continued(f, start, values, k)
        PROVE  result = MapOf(over)
    <2>1. old = start .. (start + k - 1)
      BY <1>2, <1>8 DEF Continued, BlockIds, old
    <2>2. k \in Nat
      OBVIOUS
    <2>3. Continues(m, start, values, k)
      BY <1>7, <2>1, <2>2
    <2>4. result \in Vectors(V) /\ AsFunction(result) = over
      BY <1>1, <2>3, BlockActsAsFunction DEF over, new
    <2>5. QED
      BY <2>4, MapOfIs
  <1>9. over = WithBlock(f, start, values)
    BY DEF over, new, BlockOf, BlockIds, WithBlock
  <1>10. QED
    <2> DEFINE block == <<start, values>>
    <2>1. block[1] = start /\ block[2] = values
      OBVIOUS
    <2> HIDE DEF block
    <2>2. (\E k \in 0 .. Len(block[2]) : Continued(f, block[1], block[2], k)) =>
            InsertBlock(m, block[1], block[2]) = MapOf(WithBlock(f, block[1], block[2]))
      BY <1>8, <1>9, <2>1
    <2>3. ActsAsFunction(f, id, value, block)
      BY <1>1, <1>4, <1>5, <1>6, <2>2 DEF ActsAsFunction, m
    <2>4. QED
      BY <2>3 DEF block

\* MapIsFunction, the instances of it that the run checks, in every state.
THEOREM MapIsFunctionHolds == Spec => []MapIsFunction
  <1>1. MapIsFunction
    <2>1. SUFFICES ASSUME NEW ids \in SUBSET (0 .. 3), NEW f \in [ids -> {"v", "w"}],
                          NEW id \in 0 .. 3,
                          NEW vals \in {<<"w">>, <<"w", "w">>, <<"w", "v", "w">>}
                   PROVE  ActsAsFunction(f, id, "w", <<id, vals>>)
      BY DEF MapIsFunction
    <2>2. ids \in SUBSET Nat /\ IsFiniteSet(ids) /\ id \in Nat
      <3>1. IsFiniteSet(0 .. 3)
        <4>1. \A a, b \in Int : IsFiniteSet(a .. b)
          BY FS_Interval
        <4>2. 0 \in Int /\ 3 \in Int
          OBVIOUS
        <4>3. QED
          BY <4>1, <4>2
      <3>2. IsFiniteSet(ids)
        BY <3>1, FS_Subset
      <3>3. QED
        BY <3>2
    <2>3. vals \in Seq({"v", "w"})
      <3> DEFINE W == {"v", "w"}
      <3>1. "v" \in W /\ "w" \in W
        OBVIOUS
      <3> HIDE DEF W
      <3>2. <<"w">> \in Seq(W) /\ <<"w", "w">> \in Seq(W) /\ <<"w", "v", "w">> \in Seq(W)
        BY <3>1
      <3>3. vals \in Seq(W)
        BY <2>1, <3>2
      <3>4. QED
        BY <3>3 DEF W
    <2>4. QED
      BY <2>2, <2>3, EveryMapActsAsFunction
  <1>2. QED
    BY <1>1, PTL

===============================================================================
