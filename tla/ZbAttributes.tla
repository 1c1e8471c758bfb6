------------------------------ MODULE ZbAttributes ------------------------------
(***************************************************************************)
(* How the clusters of src/zigbee are put together before the device is    *)
(* registered: an object collects attributes in a list (zbCluster.cpp), is *)
(* copied, and is mounted on an endpoint (zbEndpoint.cpp).  Of the wrapper *)
(* classes the Time cluster, which stands for those of the standard, and   *)
(* the custom cluster.                                                     *)
(***************************************************************************)
EXTENDS Naturals, Sequences, SequencesExt

CONSTANT Short    \* 2^16, what a uint16_t holds

Roles == {"client", "server"}

Standard == {"time", "status", "zone"}    \* attributes of the Time cluster

\* type "zcl": the type and access of the standard; "null": ZCL_ATTR_TYPE_NULL
\* and ACCESS_INTERNAL; "own": what addCustomAttribute was given.
Attr(id, value, type) == [id |-> id, value |-> value, type |-> type]

None == <<>>

Cluster(kind, role, list) ==
    [kind |-> kind, role |-> role, list |-> list, mounted |-> FALSE]

-------------------------------------------------------------------------------
(* Attributes *)

Find(list, id) == LET at == SelectInSeq(list, LAMBDA a : a.id = id)
                  IN  IF at = 0 THEN None ELSE list[at]

\* A mounted object asks the stack, always for the server of its cluster id and
\* endpoint.  stack[role] is the list registered for the role.
GetAttribute(c, stack, id) == Find(IF c.mounted THEN stack["server"] ELSE c.list, id)

\* The SDK's functions refuse an attribute that is not of their cluster, and
\* ESP_ERROR_CHECK stops the program.
CanAdd(kind, id) == kind = "custom" \/ id \in Standard

AddAttribute(kind, list, id, value) ==
    Append(list, Attr(id, value, IF kind = "custom" THEN "null" ELSE "zcl"))

AddCustomAttribute(list, id, value) == Append(list, Attr(id, value, "own"))

-------------------------------------------------------------------------------
(* Constructors.  The time of the standard has 32 bits, the parameters 16. *)

NewTime(role, time, status) ==
    Cluster("time", role, <<Attr("time", time % Short, "zcl"), Attr("status", status % Short, "zcl")>>)

NewCustom(role) == Cluster("custom", role, <<>>)

\* Mutant: attributes that are there already are added again.
CopyAllAttributes(kind, list, other) ==
    FoldLeft(LAMBDA l, a : AddAttribute(kind, l, a.id, a.value), list, other)

\* _copyAttributes
CopyAttributes(kind, list, other) ==
    FoldLeft(LAMBDA l, a : IF Find(l, a.id) = None THEN AddAttribute(kind, l, a.id, a.value) ELSE l,
             list, other)

\* What the copy constructor starts from: the Time cluster looks up what the
\* other was constructed with.
Start(c, stack) ==
    IF c.kind = "custom" THEN NewCustom(c.role)
    ELSE NewTime(c.role, GetAttribute(c, stack, "time").value, GetAttribute(c, stack, "status").value)

Copy(c, stack) == LET new == Start(c, stack)
                  IN  [new EXCEPT !.list = CopyAttributes(c.kind, @, c.list)]

\* It does not look at the result of the lookups, nor at what it may add.
CopyStops(c, stack) ==
    \/ c.kind = "time" /\ None \in {GetAttribute(c, stack, id) : id \in {"time", "status"}}
    \/ \E i \in DOMAIN c.list : ~CanAdd(c.kind, c.list[i].id)

-------------------------------------------------------------------------------
(* ZbEndPoint: one object per role *)

NoClusters == [r \in Roles |-> None]

\* addCluster and setEndPoint
AddCluster(endpoint, c) == [endpoint EXCEPT ![c.role] = [c EXCEPT !.mounted = TRUE]]

GetCluster(endpoint, isClient) == endpoint[IF isClient THEN "client" ELSE "server"]

\* esp_zb_device_register (external): before it the stack knows no attribute.
Unregistered == [r \in Roles |-> <<>>]

Register(endpoint) ==
    [r \in Roles |-> IF endpoint[r] = None THEN <<>> ELSE endpoint[r].list]

-------------------------------------------------------------------------------
(* Properties of the operators *)

IdsOf(list) == {list[i].id : i \in DOMAIN list}

OnceEach(list) == \A i, j \in DOMAIN list : list[i].id = list[j].id => i = j

\* A cluster that is not mounted, with attributes that its addAttribute takes, can
\* be copied (zbCluster.cpp:50-61): the copy has them all, once each, with their
\* values, and the role.
CopyKeepsAttributes(c) ==
    LET copy == Copy(c, Unregistered)
    IN  (\A id \in IdsOf(c.list) : CanAdd(c.kind, id)) =>
          /\ ~CopyStops(c, Unregistered)
          /\ IdsOf(copy.list) = IdsOf(c.list) /\ OnceEach(copy.list) /\ copy.role = c.role
          /\ \A id \in IdsOf(c.list) : Find(copy.list, id).value = Find(c.list, id).value

\* "a pointer tp attribute struct", "nullptr if attr does not exist"
\* (zbCluster.h:139-141): an object on an endpoint of a registered device finds
\* the attributes it was mounted with.
MountedFindsItsOwn(c) ==
    LET endpoint == AddCluster(NoClusters, c)
        mounted  == GetCluster(endpoint, c.role = "client")
    IN  \A id \in IdsOf(c.list) :
            GetAttribute(mounted, Register(endpoint), id) = Find(c.list, id)
===============================================================================
