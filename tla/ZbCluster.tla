-------------------------------- MODULE ZbCluster -------------------------------
(***************************************************************************)
(* src/zigbee/zbCluster.cpp and the ZCL callbacks of zbNode.cpp: a cluster *)
(* id mounted on one endpoint both as a client and as a server object      *)
(* (ZbEndPoint keeps the two roles in two maps).  The stack keeps one      *)
(* attribute store per role.                                               *)
(*   - any task reads attributes of a remote server (readAttribute) and    *)
(*     writes its own (setAttribute);                                      *)
(*   - the Zigbee task hands read responses to the client object, remote   *)
(*     writes and default responses to the server object;                  *)
(*   - both post events that the event loop task runs later, one call per  *)
(*     registered handler.  The calls carry pointers: into the store after *)
(*     a read, so that a handler sees the values of the moment it runs;    *)
(*     into the stack's message after a remote write, which may be gone.   *)
(* A value is a version number: remote[a] counts the changes of a remote   *)
(* attribute.  The stack, the radio and the remote device are external;    *)
(* messages may be lost and overtake each other.                           *)
(***************************************************************************)
EXTENDS Naturals, Sequences, FiniteSets, SequencesExt

CONSTANTS Attrs,        \* the attributes of the remote server
          Known,        \* those the local cluster has, with the same type
          NumHandlers,  \* size of _clusterEventHandlers, for each role
          NoAttr,       \* the attribute_t {0, nullptr} of ATTR_REPORTED
          MaxCalls,     \* bound: readAttribute calls of the application
          MaxLosses,    \* bound: lost requests and responses, error responses
          MaxChanges    \* bound: changes of remote, local writes, remote writes,
                        \*        default responses, together

ASSUME ClusterAssumption ==
    /\ Known \subseteq Attrs /\ NoAttr \notin Attrs
    /\ NumHandlers \in Nat \ {0}
    /\ MaxCalls \in Nat /\ MaxLosses \in Nat /\ MaxChanges \in Nat

Roles == {"client", "server"}
Handlers == 1 .. NumHandlers

\* 0 is a default; remote servers start at 1; local writes use numbers of their own.
Versions == 0 .. (2 * MaxChanges + 1)

VARIABLES
    remote,     \* the remote server's values
    store,      \* the stack's local values, per role
    requests,   \* read requests in the air
    messages,   \* on their way to handleZbActions
    queue,      \* the event loop's pending calls
    seen,       \* history: the value each handler last saw, per role and attribute
    writer,     \* history: who wrote each local value last
    calls, lost, changes

air == <<requests, messages>>
Written == MaxChanges + 2 + changes
bounds == <<calls, lost, changes>>
clusterVars == <<remote, store, air, queue, seen, writer, bounds>>

ClusterInit ==
    /\ remote = [a \in Attrs |-> 1]
    /\ store = [r \in Roles |-> [a \in Known |-> 0]]
    /\ requests = <<>> /\ messages = <<>> /\ queue = <<>>
    /\ seen = [r \in Roles |-> [h \in Handlers |-> [a \in Known |-> 0]]]
    /\ writer = [r \in Roles |-> [a \in Known |-> "nobody"]]
    /\ calls = 0 /\ lost = 0 /\ changes = 0

-------------------------------------------------------------------------------
(* postEvent *)

\* One call per handler.  The loop moves attrs into the first call: the later
\* ones get the moved-from, empty vector.
CallsFor(r, event, attrs) ==
    [h \in Handlers |-> [role    |-> r,
                         handler |-> h,
                         event   |-> event,
                         attrs   |-> IF h = 1 THEN attrs ELSE {}]]

Post(r, event, attrs) == queue' = queue \o CallsFor(r, event, attrs)

-------------------------------------------------------------------------------
(* The remote device and the radio (external) *)

RemoteChanges(a) ==
    /\ changes < MaxChanges
    /\ changes' = changes + 1
    /\ remote' = [remote EXCEPT ![a] = @ + 1]
    /\ UNCHANGED <<store, air, queue, seen, writer, calls, lost>>

\* The answer carries the values of the attributes the server supports.
Answer(i, answered) ==
    /\ answered \subseteq requests[i]
    /\ requests' = RemoveAt(requests, i)
    /\ messages' = Append(messages, [kind   |-> "READ_RESP",
                                     values |-> [a \in answered |-> remote[a]]])
    /\ UNCHANGED <<remote, store, queue, seen, writer, bounds>>

LoseRequest(i) ==
    /\ lost < MaxLosses
    /\ lost' = lost + 1
    /\ requests' = RemoveAt(requests, i)
    /\ UNCHANGED <<remote, store, messages, queue, seen, writer, calls, changes>>

\* A response is lost, or has an error status and is dropped by
\* handlingCmdReadAttribute.
LoseResponse(i) ==
    /\ messages[i].kind = "READ_RESP"
    /\ lost < MaxLosses
    /\ lost' = lost + 1
    /\ messages' = RemoveAt(messages, i)
    /\ UNCHANGED <<remote, store, requests, queue, seen, writer, calls, changes>>

\* A remote client writes an attribute of the server object.
RemoteWrites(a) ==
    /\ changes < MaxChanges
    /\ changes' = changes + 1
    /\ messages' = Append(messages, [kind   |-> "SET_ATTR",
                                     values |-> [b \in {a} |-> Written]])
    /\ UNCHANGED <<remote, store, requests, queue, seen, writer, calls, lost>>

\* The answer to a report the server object sent.
ReportConfirmed ==
    /\ changes < MaxChanges
    /\ changes' = changes + 1
    /\ messages' = Append(messages, [kind   |-> "DEFAULT_RESP",
                                     values |-> <<>>])
    /\ UNCHANGED <<remote, store, requests, queue, seen, writer, calls, lost>>

-------------------------------------------------------------------------------
(* readAttribute and setAttribute, by any task under the Zigbee lock *)

Request(attrs) == requests' = Append(requests, attrs)

ReadAttribute(attrs) ==
    /\ calls < MaxCalls
    /\ calls' = calls + 1
    /\ Request(attrs)
    /\ UNCHANGED <<remote, store, messages, queue, seen, writer, lost, changes>>

\* No event is posted for the application's own write.
SetAttribute(r, a) ==
    /\ changes < MaxChanges
    /\ changes' = changes + 1
    /\ store' = [store EXCEPT ![r][a] = Written]
    /\ writer' = [writer EXCEPT ![r][a] = "application"]
    /\ UNCHANGED <<remote, air, queue, seen, calls, lost>>

-------------------------------------------------------------------------------
(* handleZbActions, in the Zigbee task *)

\* Mutant: an attribute the cluster does not have is not sorted out.
UsableUnchecked(m) == DOMAIN m.values

\* The attributes of a message that the local cluster can take over.
Usable(m) == DOMAIN m.values \intersect Known

StoreValues(r, m) ==
    /\ store' = [store EXCEPT ![r] =
                    [a \in Known |-> IF a \in Usable(m) THEN m.values[a] ELSE @[a]]]
    /\ writer' = [writer EXCEPT ![r] =
                    [a \in Known |-> IF a \in Usable(m) THEN "remote" ELSE @[a]]]

Take(i, kind) == /\ messages[i].kind = kind
                 /\ messages' = RemoveAt(messages, i)
                 /\ UNCHANGED <<remote, requests, seen, bounds>>

\* Mutant: only values that go up are posted.
HandleReadIfChanged(i) ==
    /\ Take(i, "READ_RESP")
    /\ StoreValues("client", messages[i])
    /\ Post("client", "ATTR_UPDATED_AFTER_READ",
            {a \in Usable(messages[i]) : messages[i].values[a] > store["client"][a]})

\* handlingCmdReadAttribute and attributesWereRead: the event is posted even
\* when no attribute could be used.
HandleReadAttribute(i) ==
    /\ Take(i, "READ_RESP")
    /\ StoreValues("client", messages[i])
    /\ Post("client", "ATTR_UPDATED_AFTER_READ", Usable(messages[i]))

\* The stack has stored the value, attributeWasSet posts.
HandleSetAttribute(i) ==
    /\ Take(i, "SET_ATTR")
    /\ StoreValues("server", messages[i])
    /\ Post("server", "ATTR_UPDATED_REMOTELY", Usable(messages[i]))

\* defaultCommandTriggered: only the answer to a report makes an event.
HandleDefaultResp(i) ==
    /\ Take(i, "DEFAULT_RESP")
    /\ Post("server", "ATTR_REPORTED", {NoAttr})
    /\ UNCHANGED <<store, writer>>

-------------------------------------------------------------------------------
(* The event loop task *)

\* What a handler can find at the pointer to a: attributeWasSet queues the
\* address of a message that the stack has freed since.
Sight(call, a) ==
    IF a \notin call.attrs THEN {seen[call.role][call.handler][a]}
    ELSE IF call.event = "ATTR_UPDATED_REMOTELY" THEN Versions
    ELSE {store[call.role][a]}

\* A handler dereferences the pointers it is given now.
RunHandler ==
    /\ queue # <<>>
    /\ LET call == Head(queue)
       IN  \E view \in [Known -> Versions] :
              /\ \A a \in Known : view[a] \in Sight(call, a)
              /\ seen' = [seen EXCEPT ![call.role][call.handler] = view]
    /\ queue' = Tail(queue)
    /\ UNCHANGED <<remote, store, air, writer, bounds>>

-------------------------------------------------------------------------------
Deliver == \E i \in DOMAIN messages :
              \/ HandleReadAttribute(i)
              \/ HandleSetAttribute(i)
              \/ HandleDefaultResp(i)

Reply == \E i \in DOMAIN requests :
            \E answered \in SUBSET requests[i] : Answer(i, answered)

ClusterEnvironment ==
    \/ \E a \in Attrs : RemoteChanges(a)
    \/ \E i \in DOMAIN requests : LoseRequest(i)
    \/ \E i \in DOMAIN messages : LoseResponse(i)
    \/ \E a \in Known : RemoteWrites(a)
    \/ ReportConfirmed
    \/ \E r \in Roles, a \in Known : SetAttribute(r, a)

-------------------------------------------------------------------------------
(* Properties *)

Message == [kind : {"READ_RESP", "SET_ATTR", "DEFAULT_RESP"},
            values : UNION {[S -> Versions] : S \in SUBSET Attrs}]
Call == [role : Roles, handler : Handlers,
         event : {"ATTR_UPDATED_AFTER_READ", "ATTR_UPDATED_REMOTELY", "ATTR_REPORTED"},
         attrs : SUBSET (Known \union {NoAttr})]

ClusterTypeOK ==
    /\ remote \in [Attrs -> Versions]
    /\ store \in [Roles -> [Known -> Versions]]
    /\ requests \in Seq(SUBSET Attrs)
    /\ messages \in Seq(Message)
    /\ queue \in Seq(Call)
    /\ seen \in [Roles -> [Handlers -> [Known -> Versions]]]
    /\ writer \in [Roles -> [Known -> {"nobody", "application", "remote"}]]
    /\ calls \in 0 .. MaxCalls /\ lost \in 0 .. MaxLosses
    /\ changes \in 0 .. MaxChanges

\* However responses and the application's own writes overtake each other and
\* the event loop lags behind, once its queue is empty the first handler of the
\* client has seen the very value that the network stored last: the live
\* pointers of attributesWereRead never leave it with an old value.
FirstHandlerUpToDate ==
    queue = <<>> =>
        \A a \in Known :
            writer["client"][a] = "remote" => seen["client"][1][a] = store["client"][a]

\* Every handler registered on a client is told what every event of it is
\* about (postEvent: "Call all the registered callback Id", zbCluster.cpp:381).
\* The moved-from vector breaks it.
AllHandlersUpToDate ==
    queue = <<>> =>
        \A h \in Handlers, a \in Known :
            writer["client"][a] = "remote" => seen["client"][h][a] = store["client"][a]
===============================================================================
