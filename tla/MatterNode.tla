------------------------------ MODULE MatterNode ------------------------------
(***************************************************************************)
(* src/matter: the objects that stand for the endpoints, clusters and      *)
(* attributes of the Matter SDK's data model, the update and identify      *)
(* handlers, and the node's reaction to fabrics that are removed.          *)
(*   - the application builds the data model, registers handlers and then  *)
(*     starts the node;                                                    *)
(*   - the Matter task calls the callbacks of the node;                    *)
(*   - the task of the node's EventLoop runs the queued handlers.          *)
(* The SDK (data model, fabrics, commissioning window) is external.  There *)
(* is the root endpoint 0, which has no object, and one endpoint to make.  *)
(* The node's maps are the functions that MatterMaps act as.               *)
(***************************************************************************)
EXTENDS Naturals, Sequences, FiniteSets, IdMap

CONSTANTS Clusters, Attributes,     \* ids the application uses
          MaxHandlers, MaxCalls,    \* bounds: handlers registered, calls queued
          MaxFabrics,               \* bound: fabrics in the table
          MaxAttributes             \* bound: attributes of a node that starts

ASSUME MatterAssumption == /\ Clusters \union Attributes \subseteq Nat
                           /\ {MaxHandlers, MaxCalls, MaxFabrics, MaxAttributes} \subseteq Nat \ {0}

Endpoint  == 1
Endpoints == {0, Endpoint}

VARIABLES
    started, crash,       \* start() has run; a null pointer was followed
    sdkClusters, sdkAttributes, \* the SDK's data model of the endpoint
    endpointsMap,         \* of the node
    clustersMap,          \* of the endpoint's object
    attributesMap,        \* of the object each cluster has in clustersMap
    asked,                \* history: attributes looked up before they existed
    handlersMap,          \* endpoint, cluster, attribute: number of handlers
    identifyMap,          \* endpoint: has a handler
    calls,                \* of _eventLoop
    fabrics, window, removals, \* the SDK's table, window and kFabricRemoved events
    openFailed            \* history: OpenBasicCommissioningWindow failed

dataVars    == <<sdkClusters, sdkAttributes, endpointsMap, clustersMap, attributesMap, asked>>
handlerVars == <<handlersMap, identifyMap>>
fabricVars  == <<fabrics, window, removals, openFailed>>
vars == <<started, crash, dataVars, handlerVars, calls, fabricVars>>

\* A pointer: nullptr, or an object with the ids it took from its parents.
Null              == <<>>
NewEndpoint       == <<Endpoint>>
NewCluster(c)     == <<Endpoint, c>>
NewAttribute(c, a) == <<Endpoint, c, a>>

HasEndpoint   == At(endpointsMap, Endpoint, Null) # Null
HasCluster(c) == At(clustersMap, c, Null) # Null

Init == /\ started = FALSE /\ crash = FALSE
        /\ sdkClusters = {} /\ sdkAttributes = {}
        /\ endpointsMap = NoIds /\ clustersMap = NoIds
        /\ attributesMap = [c \in Clusters |-> NoIds] /\ asked = {}
        /\ handlersMap = NoIds /\ identifyMap = NoIds /\ calls = <<>>
        /\ fabrics \in 0..1 /\ window = (fabrics = 0)
        /\ removals = 0 /\ openFailed = FALSE

-------------------------------------------------------------------------------
(* The data model and its objects *)

Building == ~started /\ UNCHANGED <<started, crash, handlerVars, calls, fabricVars>>

\* populateAttributes gives an object to every attribute the map does not contain.
Populate(m, c, attributes) == Over(m, [a \in attributes |-> NewAttribute(c, a)])

\* populateCluster, over what the SDK put into a new endpoint.
PopulateCluster(clusters) == [c \in clusters |-> NewCluster(c)]

AttributesIn(set, c) == {a \in Attributes : <<c, a>> \in set}

CreateEndpoint(clusters, attributes) ==
    /\ Building /\ ~HasEndpoint
    /\ sdkClusters' = clusters
    /\ sdkAttributes' = clusters \X attributes
    /\ endpointsMap' = Put(endpointsMap, Endpoint, NewEndpoint)
    /\ clustersMap' = PopulateCluster(clusters)
    /\ attributesMap' = [c \in Clusters |-> Populate(NoIds, c, AttributesIn(sdkAttributes', c))]
    /\ UNCHANGED asked

\* Mutant: the SDK's answer is not looked at.
CreateClusterUnchecked(c, attributes, ok) ==
    /\ Building /\ HasEndpoint
    /\ clustersMap' = Put(clustersMap, c, NewCluster(c))
    /\ UNCHANGED <<sdkClusters, sdkAttributes, endpointsMap, attributesMap, asked>>

\* createCluster.  The SDK gives the cluster there is, or a new one; the object
\* is a new one in both cases, with a map of its own.
CreateCluster(c, attributes, ok) ==
    /\ Building /\ HasEndpoint
    /\ IF ok
         THEN /\ sdkClusters' = sdkClusters \union {c}
              /\ sdkAttributes' = sdkAttributes \union ({c} \X attributes)
              /\ clustersMap' = Put(clustersMap, c, NewCluster(c))
              /\ attributesMap' = [attributesMap EXCEPT
                                     ![c] = Populate(NoIds, c, AttributesIn(sdkAttributes', c))]
              /\ asked' = {p \in asked : p[1] # c}
         ELSE UNCHANGED <<sdkClusters, sdkAttributes, clustersMap, attributesMap, asked>>
    /\ UNCHANGED endpointsMap

\* Mutant: the attributes of the feature get no objects.
AddFeatureOnly(c, attributes) ==
    /\ Building /\ HasCluster(c)
    /\ sdkAttributes' = sdkAttributes \union ({c} \X attributes)
    /\ UNCHANGED <<sdkClusters, endpointsMap, clustersMap, attributesMap, asked>>

\* A feature that cannot be added adds no attributes.
AddFeature(c, attributes) ==
    /\ Building /\ HasCluster(c)
    /\ sdkAttributes' = sdkAttributes \union ({c} \X attributes)
    /\ attributesMap' = [attributesMap EXCEPT ![c] = Populate(@, c, AttributesIn(sdkAttributes', c))]
    /\ UNCHANGED <<sdkClusters, endpointsMap, clustersMap, asked>>

\* An attribute that has an object is left as it is.
AddAttribute(c, a) ==
    /\ Building /\ HasCluster(c)
    /\ At(attributesMap[c], a, Null) = Null
    /\ sdkAttributes' = sdkAttributes \union {<<c, a>>}
    /\ attributesMap' = [attributesMap EXCEPT ![c] = Put(@, a, NewAttribute(c, a))]
    /\ UNCHANGED <<sdkClusters, endpointsMap, clustersMap, asked>>

\* The three lookups go through the operator[] that makes entries.
GetEndpoint ==
    /\ Building
    /\ endpointsMap' = Touch(endpointsMap, Endpoint, Null)
    /\ UNCHANGED <<sdkClusters, sdkAttributes, clustersMap, attributesMap, asked>>

GetCluster(c) ==
    /\ Building /\ HasEndpoint
    /\ clustersMap' = Touch(clustersMap, c, Null)
    /\ UNCHANGED <<sdkClusters, sdkAttributes, endpointsMap, attributesMap, asked>>

GetAttribute(c, a) ==
    /\ Building /\ HasCluster(c)
    /\ attributesMap' = [attributesMap EXCEPT ![c] = Touch(@, a, Null)]
    /\ asked' = IF Has(attributesMap[c], a) THEN asked ELSE asked \union {<<c, a>>}
    /\ UNCHANGED <<sdkClusters, sdkAttributes, endpointsMap, clustersMap>>

-------------------------------------------------------------------------------
(* Handlers *)

Registered == {p \in Endpoints \X Clusters \X Attributes :
                  At(At(At(handlersMap, p[1], NoIds), p[2], NoIds), p[3], 0) > 0}

HandlersWith(new) == Cardinality(Registered \union new) + Cardinality(DOMAIN identifyMap)

RegisterAttrUpdateHandler(e, c, a) ==
    /\ ~started /\ HandlersWith({<<e, c, a>>}) <= MaxHandlers
    /\ LET clusters   == At(handlersMap, e, NoIds)
           attributes == At(clusters, c, NoIds)
       IN  At(attributes, a, 0) < MaxHandlers /\ handlersMap' = Put(handlersMap, e,
                            Put(clusters, c, Put(attributes, a, At(attributes, a, 0) + 1)))
    /\ UNCHANGED <<started, crash, dataVars, identifyMap, calls, fabricVars>>

RegisterIdentifyHandler(e) ==
    /\ ~started /\ HandlersWith({}) < MaxHandlers
    /\ identifyMap' = Put(identifyMap, e, TRUE)
    /\ UNCHANGED <<started, crash, dataVars, handlersMap, calls, fabricVars>>

Start == /\ ~started /\ Cardinality(sdkAttributes) <= MaxAttributes
         /\ started' = TRUE
         /\ UNCHANGED <<crash, dataVars, handlerVars, calls, fabricVars>>

Running == started /\ ~crash

\* factoryReset: the SDK forgets the fabrics and restarts the chip (external).
FactoryReset ==
    /\ Running
    /\ started' = FALSE /\ crash' = FALSE
    /\ sdkClusters' = {} /\ sdkAttributes' = {}
    /\ endpointsMap' = NoIds /\ clustersMap' = NoIds
    /\ attributesMap' = [c \in Clusters |-> NoIds] /\ asked' = {}
    /\ handlersMap' = NoIds /\ identifyMap' = NoIds /\ calls' = <<>>
    /\ fabrics' = 0 /\ window' = TRUE /\ removals' = 0 /\ openFailed' = FALSE

\* attribute_update_cb, for an update of any attribute of the node.  The last of
\* its three lookups is not tested.
AttributeUpdate(e, c, a) ==
    LET clusters   == At(handlersMap, e, NoIds)
        attributes == At(clusters, c, NoIds)
    IN  /\ Running /\ Len(calls) < MaxCalls
        /\ IF ~Has(handlersMap, e) \/ ~Has(clusters, c) THEN UNCHANGED <<calls, crash>>
           ELSE IF ~Has(attributes, a) THEN crash' = TRUE /\ UNCHANGED calls
           ELSE /\ calls' = calls \o [i \in 1..At(attributes, a, 0) |-> <<e, c, a, i>>]
                /\ UNCHANGED crash
        /\ UNCHANGED <<started, dataVars, handlerVars, fabricVars>>

Identification(e) ==
    /\ Running /\ Len(calls) < MaxCalls
    /\ calls' = IF Has(identifyMap, e) THEN Append(calls, <<e>>) ELSE calls
    /\ UNCHANGED <<started, crash, dataVars, handlerVars, fabricVars>>

RunHandler == /\ Running /\ calls # <<>> /\ calls' = Tail(calls)
              /\ UNCHANGED <<started, crash, dataVars, handlerVars, fabricVars>>

-------------------------------------------------------------------------------
(* Fabrics and the commissioning window: the SDK, then matter_event_cb *)

Fabric == Running /\ UNCHANGED <<started, crash, dataVars, handlerVars, calls>>

Commissioned ==
    /\ Fabric /\ window /\ fabrics < MaxFabrics
    /\ fabrics' = fabrics + 1 /\ window' = FALSE /\ UNCHANGED <<removals, openFailed>>

AdministratorOpens ==
    /\ Fabric /\ fabrics > 0
    /\ window' = TRUE /\ UNCHANGED <<fabrics, removals, openFailed>>

WindowTimesOut ==
    /\ Fabric /\ window
    /\ window' = FALSE /\ UNCHANGED <<fabrics, removals, openFailed>>

FabricRemoved ==
    /\ Fabric /\ fabrics > 0 /\ removals < MaxFabrics
    /\ fabrics' = fabrics - 1 /\ removals' = removals + 1
    /\ openFailed' = FALSE /\ UNCHANGED window

\* Mutant: the test of the window is inverted.
HandleFabricRemovedInverted(ok) ==
    /\ Fabric /\ removals > 0
    /\ removals' = removals - 1
    /\ IF fabrics = 0 /\ window THEN window' = ok /\ openFailed' = ~ok
                                ELSE UNCHANGED <<window, openFailed>>
    /\ UNCHANGED fabrics

\* kFabricRemoved; the table is counted when the event is handled.
HandleFabricRemoved(ok) ==
    /\ Fabric /\ removals > 0
    /\ removals' = removals - 1
    /\ IF fabrics = 0 /\ ~window THEN window' = ok /\ openFailed' = ~ok
                                 ELSE UNCHANGED <<window, openFailed>>
    /\ UNCHANGED fabrics

-------------------------------------------------------------------------------
Next ==
    \/ \E cs \in SUBSET Clusters, as \in SUBSET Attributes : CreateEndpoint(cs, as)
    \/ \E c \in Clusters :
         \/ \E as \in SUBSET Attributes, ok \in BOOLEAN : CreateCluster(c, as, ok)
         \/ \E as \in SUBSET Attributes : AddFeature(c, as)
         \/ \E a \in Attributes : AddAttribute(c, a)
         \/ GetCluster(c)
         \/ \E a \in Attributes : GetAttribute(c, a)
    \/ GetEndpoint
    \/ \E e \in Endpoints, c \in Clusters, a \in Attributes :
         RegisterAttrUpdateHandler(e, c, a) \/ AttributeUpdate(e, c, a)
    \/ \E e \in Endpoints : RegisterIdentifyHandler(e) \/ Identification(e)
    \/ Start \/ FactoryReset \/ RunHandler
    \/ Commissioned \/ AdministratorOpens \/ WindowTimesOut \/ FabricRemoved
    \/ \E ok \in BOOLEAN : HandleFabricRemoved(ok)

\* The Matter task handles its events.
Fairness == WF_vars(\E ok \in BOOLEAN : HandleFabricRemoved(ok))

Spec == Init /\ [][Next]_vars /\ Fairness

-------------------------------------------------------------------------------
(* Properties *)

TypeOK ==
    /\ {started, crash, window, openFailed} \subseteq BOOLEAN
    /\ fabrics \in 0..MaxFabrics /\ removals \in 0..MaxFabrics
    /\ DOMAIN endpointsMap \subseteq {Endpoint} /\ DOMAIN clustersMap \subseteq Clusters
    /\ DOMAIN handlersMap \union DOMAIN identifyMap \subseteq Endpoints
    /\ \A c \in Clusters : HasCluster(c) <=> c \in sdkClusters
    /\ \A c \in Clusters : /\ DOMAIN attributesMap[c] \subseteq Attributes
                          /\ attributesMap[c] # NoIds => HasCluster(c)
    /\ \A i \in DOMAIN calls : Len(calls[i]) \in {1, 4}

\* Every attribute of the SDK's data model has an object in its cluster's map,
\* and every object an attribute, however endpoints, clusters, features and
\* attributes were added; the exception are attributes somebody had looked up
\* before they existed: getAttribute leaves an entry (matterCluster.cpp:67)
\* that populateAttributes then takes for the object (matterCluster.cpp:36).
PopulatedUnlessAskedEarly ==
    \A c \in sdkClusters, a \in Attributes :
        LET object == At(attributesMap[c], a, Null)
        IN  /\ object # Null => object = NewAttribute(c, a) /\ <<c, a>> \in sdkAttributes
            /\ <<c, a>> \in sdkAttributes => object # Null \/ <<c, a>> \in asked

\* When the last fabric is removed a commissioning window gets open, unless the
\* SDK refuses or a new fabric comes first: the test is made when the event is
\* handled (matterNode.cpp:113), after further fabrics came and went.
LastFabricReopens ==
    started /\ fabrics = 0 /\ removals > 0 ~> window \/ openFailed \/ fabrics > 0 \/ crash
===============================================================================
