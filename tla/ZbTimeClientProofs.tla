--------------------------- MODULE ZbTimeClientProofs ---------------------------
(***************************************************************************)
(* The Time cluster client and its cluster object, for any attributes,     *)
(* number of handlers, calls, losses and changes:                          *)
(*   - the types need that the remote server counts no more than the       *)
(*     changes made (RemoteBound);                                         *)
(*   - a sync is at one place of its round at a time, so that syncs are    *)
(*     conserved: SyncsConserved is inductive, given how many calls of     *)
(*     processSync each action queues;                                     *)
(*   - an attribute that the network wrote and the first handler has not   *)
(*     seen is told by a call still queued (PendingInv).                   *)
(***************************************************************************)
EXTENDS ZbTimeClient, SequenceCounts

Kinds == {"READ_RESP", "SET_ATTR", "DEFAULT_RESP"}
CallEvents == {"ATTR_UPDATED_AFTER_READ", "ATTR_UPDATED_REMOTELY", "ATTR_REPORTED"}

RemoteBound == \A a \in Attrs : remote[a] <= 1 + changes

-------------------------------------------------------------------------------
(* Types *)

LEMMA VersionsAre ==
  /\ MaxChanges \in Nat /\ 0 \in Versions /\ 1 \in Versions
  /\ \A v \in Versions : v \in Nat
  /\ \A c \in 0 .. MaxChanges : c < MaxChanges => MaxChanges + 2 + c \in Versions
  BY ClusterAssumption DEF Versions

LEMMA ClusterInitTypes == ClusterInit => ClusterTypeOK /\ RemoteBound
  <1> SUFFICES ASSUME ClusterInit PROVE ClusterTypeOK /\ RemoteBound
    OBVIOUS
  <1>1. /\ remote = [a \in Attrs |-> 1]
        /\ store = [r \in Roles |-> [a \in Known |-> 0]]
        /\ requests = <<>> /\ messages = <<>> /\ queue = <<>>
        /\ seen = [r \in Roles |-> [h \in Handlers |-> [a \in Known |-> 0]]]
        /\ writer = [r \in Roles |-> [a \in Known |-> "nobody"]]
        /\ calls = 0 /\ lost = 0 /\ changes = 0
    BY DEF ClusterInit
  <1>2. [a \in Known |-> 0] \in [Known -> Versions]
    BY VersionsAre
  <1>3. remote \in [Attrs -> Versions] /\ store \in [Roles -> [Known -> Versions]]
        /\ seen \in [Roles -> [Handlers -> [Known -> Versions]]]
    BY <1>1, <1>2, VersionsAre
  <1>4. writer \in [Roles -> [Known -> {"nobody", "application", "remote"}]]
    BY <1>1
  <1>5. calls \in 0 .. MaxCalls /\ lost \in 0 .. MaxLosses /\ changes \in 0 .. MaxChanges
    BY <1>1, ClusterAssumption
  <1>6. requests \in Seq(SUBSET Attrs) /\ messages \in Seq(Message) /\ queue \in Seq(Call)
    BY <1>1
  <1>7. RemoteBound
    BY <1>1 DEF RemoteBound
  <1>8. QED
    BY <1>3, <1>4, <1>5, <1>6, <1>7 DEF ClusterTypeOK

LEMMA MessageIs ==
  ASSUME NEW kind \in Kinds, NEW S \in SUBSET Attrs, NEW values \in [S -> Versions]
  PROVE  [kind |-> kind, values |-> values] \in Message
  BY DEF Message, Kinds

LEMMA NothingIsMessage == [kind |-> "DEFAULT_RESP", values |-> <<>>] \in Message
  <1>1. <<>> \in Seq(Versions) /\ Len(<<>>) = 0 /\ 1 .. 0 = {}
    BY EmptySeq
  <1>2. <<>> \in [1 .. 0 -> Versions]
    BY <1>1, LenProperties
  <1>3. <<>> \in [{} -> Versions] /\ {} \in SUBSET Attrs /\ "DEFAULT_RESP" \in Kinds
    BY <1>1, <1>2 DEF Kinds
  <1>4. QED
    BY <1>3, MessageIs

\* What postEvent queues.
LEMMA CallsForIs ==
  ASSUME NEW r \in Roles, NEW event \in CallEvents, NEW attrs \in SUBSET (Known \union {NoAttr})
  PROVE  /\ CallsFor(r, event, attrs) \in Seq(Call)
         /\ Len(CallsFor(r, event, attrs)) = NumHandlers
         /\ \A h \in Handlers : /\ CallsFor(r, event, attrs)[h].role = r
                                /\ CallsFor(r, event, attrs)[h].handler = h
                                /\ CallsFor(r, event, attrs)[h].event = event
         /\ CallsFor(r, event, attrs)[1].attrs = attrs
  <1> DEFINE About(h) == IF h = 1 THEN attrs ELSE {}
             c == CallsFor(r, event, attrs)
  <1>1. NumHandlers \in Nat /\ 1 \in Handlers /\ Handlers = 1 .. NumHandlers
    BY ClusterAssumption DEF Handlers
  <1>2. \A h \in Handlers : About(h) \in SUBSET (Known \union {NoAttr})
    OBVIOUS
  <1>3. c = [h \in Handlers |-> [role |-> r, handler |-> h, event |-> event, attrs |-> About(h)]]
    BY DEF CallsFor
  <1>4. About(1) = attrs
    OBVIOUS
  <1> HIDE DEF About, c
  <1>5. \A h \in Handlers : [role |-> r, handler |-> h, event |-> event, attrs |-> About(h)] \in Call
    BY <1>2 DEF Call, CallEvents
  <1>6. c \in [1 .. NumHandlers -> Call]
    BY <1>1, <1>3, <1>5
  <1>7. c \in Seq(Call)
    BY <1>1, <1>6, SeqDef
  <1>8. Len(c) = NumHandlers
    BY <1>1, <1>6, <1>7, LenProperties
  <1>9. \A h \in Handlers : c[h].role = r /\ c[h].handler = h /\ c[h].event = event
    BY <1>3
  <1>10. c[1].attrs = attrs
    BY <1>1, <1>3, <1>4
  <1>11. QED
    BY <1>7, <1>8, <1>9, <1>10 DEF c

LEMMA EnvironmentTypes ==
  ASSUME ClusterTypeOK, RemoteBound, ClusterEnvironment
  PROVE  ClusterTypeOK' /\ RemoteBound'
  <1> USE ClusterAssumption DEF ClusterTypeOK, air, bounds
  <1>1. ASSUME NEW a \in Attrs, RemoteChanges(a)
        PROVE  ClusterTypeOK' /\ RemoteBound'
    <2>1. remote' = [remote EXCEPT ![a] = remote[a] + 1] /\ changes' = changes + 1
          /\ changes \in 0 .. MaxChanges /\ changes < MaxChanges
      BY <1>1 DEF RemoteChanges
    <2>2. remote[a] \in Nat /\ remote[a] + 1 <= 1 + changes'
          /\ \A b \in Attrs : remote[b] \in Nat /\ remote[b] <= 1 + changes
      BY <2>1, VersionsAre DEF RemoteBound
    <2>3. remote[a] + 1 \in Versions
      BY <2>1, <2>2 DEF Versions
    <2>4. remote' \in [Attrs -> Versions]
      BY <2>1, <2>3
    <2>5. changes' \in 0 .. MaxChanges
      BY <2>1
    <2>6. RemoteBound'
      BY <2>1, <2>2 DEF RemoteBound
    <2>7. QED
      BY <1>1, <2>4, <2>5, <2>6 DEF RemoteChanges
  <1>2. ASSUME NEW i \in DOMAIN requests, LoseRequest(i)
        PROVE  ClusterTypeOK' /\ RemoteBound'
    <2>1. i \in 1 .. Len(requests)
      BY LenProperties
    <2>2. requests' \in Seq(SUBSET Attrs)
      BY <1>2, <2>1, RemoveAtIs DEF LoseRequest
    <2>3. lost' \in 0 .. MaxLosses
      BY <1>2 DEF LoseRequest
    <2>4. QED
      BY <1>2, <2>2, <2>3 DEF LoseRequest, RemoteBound
  <1>3. ASSUME NEW i \in DOMAIN messages, LoseResponse(i)
        PROVE  ClusterTypeOK' /\ RemoteBound'
    <2>1. i \in 1 .. Len(messages)
      BY LenProperties
    <2>2. messages' \in Seq(Message)
      BY <1>3, <2>1, RemoveAtIs DEF LoseResponse
    <2>3. lost' \in 0 .. MaxLosses
      BY <1>3 DEF LoseResponse
    <2>4. QED
      BY <1>3, <2>2, <2>3 DEF LoseResponse, RemoteBound
  <1>4. ASSUME NEW a \in Known, RemoteWrites(a)
        PROVE  ClusterTypeOK' /\ RemoteBound'
    <2>1. Written \in Versions
      BY <1>4, VersionsAre DEF RemoteWrites, Written
    <2>2. [b \in {a} |-> Written] \in [{a} -> Versions] /\ {a} \in SUBSET Attrs
          /\ "SET_ATTR" \in Kinds
      BY <2>1 DEF Kinds
    <2>3. [kind |-> "SET_ATTR", values |-> [b \in {a} |-> Written]] \in Message
      BY <2>2, MessageIs
    <2>4. messages' \in Seq(Message)
      BY <1>4, <2>3, AppendProperties DEF RemoteWrites
    <2>5. changes' \in 0 .. MaxChanges
      BY <1>4 DEF RemoteWrites
    <2>6. RemoteBound'
      BY <1>4, VersionsAre DEF RemoteWrites, RemoteBound
    <2>7. QED
      BY <1>4, <2>4, <2>5, <2>6 DEF RemoteWrites
  <1>5. CASE ReportConfirmed
    <2>1. messages' \in Seq(Message)
      BY <1>5, NothingIsMessage, AppendProperties DEF ReportConfirmed
    <2>2. changes' \in 0 .. MaxChanges
      BY <1>5 DEF ReportConfirmed
    <2>3. RemoteBound'
      BY <1>5, VersionsAre DEF ReportConfirmed, RemoteBound
    <2>4. QED
      BY <1>5, <2>1, <2>2, <2>3 DEF ReportConfirmed
  <1>6. ASSUME NEW r \in Roles, NEW a \in Known, SetAttribute(r, a)
        PROVE  ClusterTypeOK' /\ RemoteBound'
    <2>1. Written \in Versions
      BY <1>6, VersionsAre DEF SetAttribute, Written
    <2>2. store' \in [Roles -> [Known -> Versions]]
      BY <1>6, <2>1 DEF SetAttribute
    <2>3. writer' \in [Roles -> [Known -> {"nobody", "application", "remote"}]]
      BY <1>6 DEF SetAttribute
    <2>4. changes' \in 0 .. MaxChanges
      BY <1>6 DEF SetAttribute
    <2>5. RemoteBound'
      BY <1>6, VersionsAre DEF SetAttribute, RemoteBound
    <2>6. QED
      BY <1>6, <2>2, <2>3, <2>4, <2>5 DEF SetAttribute
  <1>7. QED
    BY <1>1, <1>2, <1>3, <1>4, <1>5, <1>6 DEF ClusterEnvironment

\* An event is queued behind the others.
LEMMA PostType ==
  ASSUME ClusterTypeOK, NEW r \in Roles, NEW event \in CallEvents,
         NEW attrs \in SUBSET (Known \union {NoAttr}), Post(r, event, attrs)
  PROVE  queue' \in Seq(Call)
  BY CallsForIs, ConcatProperties DEF Post, ClusterTypeOK

LEMMA StoreType ==
  ASSUME ClusterTypeOK, NEW r \in Roles, NEW m \in Message, StoreValues(r, m)
  PROVE  /\ store' \in [Roles -> [Known -> Versions]]
         /\ writer' \in [Roles -> [Known -> {"nobody", "application", "remote"}]]
         /\ \A a \in Known : /\ store'[r][a] = IF a \in Usable(m) THEN m.values[a] ELSE store[r][a]
                             /\ writer'[r][a] = IF a \in Usable(m) THEN "remote" ELSE writer[r][a]
         /\ \A q \in Roles \ {r} : store'[q] = store[q] /\ writer'[q] = writer[q]
  <1> DEFINE values == [a \in Known |-> IF a \in Usable(m) THEN m.values[a] ELSE store[r][a]]
             writers == [a \in Known |-> IF a \in Usable(m) THEN "remote" ELSE writer[r][a]]
  <1>1. PICK S \in SUBSET Attrs : m.values \in [S -> Versions]
    BY DEF Message
  <1>2. \A a \in Usable(m) : m.values[a] \in Versions
    BY <1>1 DEF Usable
  <1>3. store[r] \in [Known -> Versions]
        /\ writer[r] \in [Known -> {"nobody", "application", "remote"}]
    BY DEF ClusterTypeOK
  <1>4. values \in [Known -> Versions]
    BY <1>2, <1>3
  <1>5. writers \in [Known -> {"nobody", "application", "remote"}]
    BY <1>3
  <1>6. store' = [store EXCEPT ![r] = values] /\ writer' = [writer EXCEPT ![r] = writers]
    BY DEF StoreValues
  <1>7. \A a \in Known : /\ values[a] = IF a \in Usable(m) THEN m.values[a] ELSE store[r][a]
                         /\ writers[a] = IF a \in Usable(m) THEN "remote" ELSE writer[r][a]
    OBVIOUS
  <1> HIDE DEF values, writers
  <1>8. store'[r] = values /\ writer'[r] = writers
        /\ \A q \in Roles \ {r} : store'[q] = store[q] /\ writer'[q] = writer[q]
    BY <1>6 DEF ClusterTypeOK
  <1>9. /\ store' \in [Roles -> [Known -> Versions]]
        /\ writer' \in [Roles -> [Known -> {"nobody", "application", "remote"}]]
    BY <1>4, <1>5, <1>6 DEF ClusterTypeOK
  <1>10. QED
    BY <1>7, <1>8, <1>9

LEMMA UsableType ==
  ASSUME NEW m
  PROVE  Usable(m) \in SUBSET (Known \union {NoAttr}) /\ Usable(m) \in SUBSET Known
  BY DEF Usable

LEMMA TakeIs ==
  ASSUME ClusterTypeOK, RemoteBound, NEW i \in DOMAIN messages, NEW kind, Take(i, kind)
  PROVE  /\ i \in 1 .. Len(messages) /\ messages[i] \in Message /\ messages[i].kind = kind
         /\ messages' = RemoveAt(messages, i) /\ messages' \in Seq(Message)
         /\ remote' = remote /\ requests' = requests /\ seen' = seen
         /\ calls' = calls /\ lost' = lost /\ changes' = changes
         /\ RemoteBound'
  <1>1. messages \in Seq(Message)
    BY DEF ClusterTypeOK
  <1>2. i \in 1 .. Len(messages)
    BY <1>1, LenProperties
  <1>3. messages[i] \in Message
    BY <1>1, <1>2, ElementOfSeq
  <1>4. messages' = RemoveAt(messages, i) /\ messages[i].kind = kind
        /\ remote' = remote /\ requests' = requests /\ seen' = seen
        /\ calls' = calls /\ lost' = lost /\ changes' = changes
    BY DEF Take, bounds
  <1>5. messages' \in Seq(Message)
    BY <1>1, <1>2, <1>4, RemoveAtIs
  <1>6. RemoteBound'
    BY <1>4 DEF RemoteBound
  <1>7. QED
    BY <1>2, <1>3, <1>4, <1>5, <1>6

LEMMA DeliverTypes ==
  ASSUME ClusterTypeOK, RemoteBound, Deliver
  PROVE  ClusterTypeOK' /\ RemoteBound'
  <1>1. ASSUME NEW i \in DOMAIN messages, NEW kind, NEW r \in Roles, NEW event \in CallEvents,
               Take(i, kind), StoreValues(r, messages[i]), Post(r, event, Usable(messages[i]))
        PROVE  ClusterTypeOK' /\ RemoteBound'
    <2>1. messages[i] \in Message
      BY <1>1, TakeIs
    <2>2. /\ store' \in [Roles -> [Known -> Versions]]
          /\ writer' \in [Roles -> [Known -> {"nobody", "application", "remote"}]]
      BY <1>1, <2>1, StoreType
    <2>3. queue' \in Seq(Call)
      BY <1>1, UsableType, PostType
    <2>4. QED
      BY <1>1, <2>2, <2>3, TakeIs DEF ClusterTypeOK
  <1>2. ASSUME NEW i \in DOMAIN messages, HandleReadAttribute(i)
        PROVE  ClusterTypeOK' /\ RemoteBound'
    <2>1. "client" \in Roles /\ "ATTR_UPDATED_AFTER_READ" \in CallEvents
      BY DEF Roles, CallEvents
    <2>2. QED
      BY <1>1, <1>2, <2>1 DEF HandleReadAttribute
  <1>3. ASSUME NEW i \in DOMAIN messages, HandleSetAttribute(i)
        PROVE  ClusterTypeOK' /\ RemoteBound'
    <2>1. "server" \in Roles /\ "ATTR_UPDATED_REMOTELY" \in CallEvents
      BY DEF Roles, CallEvents
    <2>2. QED
      BY <1>1, <1>3, <2>1 DEF HandleSetAttribute
  <1>4. ASSUME NEW i \in DOMAIN messages, HandleDefaultResp(i)
        PROVE  ClusterTypeOK' /\ RemoteBound'
    <2>1. "server" \in Roles /\ "ATTR_REPORTED" \in CallEvents
          /\ {NoAttr} \in SUBSET (Known \union {NoAttr})
      BY DEF Roles, CallEvents
    <2>2. Take(i, "DEFAULT_RESP") /\ Post("server", "ATTR_REPORTED", {NoAttr})
          /\ UNCHANGED <<store, writer>>
      BY <1>4 DEF HandleDefaultResp
    <2>3. queue' \in Seq(Call)
      BY <2>1, <2>2, PostType
    <2>4. QED
      BY <2>2, <2>3, TakeIs DEF ClusterTypeOK
  <1>5. QED
    BY <1>2, <1>3, <1>4 DEF Deliver

\* What the event loop task does to the cluster's state.
LEMMA RunHandlerIs ==
  ASSUME ClusterTypeOK, RunHandler
  PROVE  /\ queue # <<>> /\ Head(queue) \in Call /\ Head(queue) = queue[1]
         /\ Len(queue) \in Nat \ {0} /\ 1 \in 1 .. Len(queue)
         /\ queue' = Tail(queue) /\ queue' \in Seq(Call) /\ Len(queue') = Len(queue) - 1
         /\ \A i \in 1 .. Len(queue') : queue'[i] = queue[i + 1]
         /\ UNCHANGED <<remote, store, requests, messages, writer, calls, lost, changes>>
         /\ \E view \in [Known -> Versions] :
              /\ \A a \in Known : view[a] \in Sight(Head(queue), a)
              /\ seen' = [seen EXCEPT ![Head(queue).role][Head(queue).handler] = view]
  <1>1. queue \in Seq(Call) /\ queue # <<>> /\ queue' = Tail(queue)
    BY DEF ClusterTypeOK, RunHandler
  <1>2. /\ Head(queue) \in Call /\ Head(queue) = queue[1] /\ Len(queue) \in Nat \ {0}
        /\ Tail(queue) \in Seq(Call) /\ Len(Tail(queue)) = Len(queue) - 1
        /\ \A i \in 1 .. Len(Tail(queue)) : Tail(queue)[i] = queue[i + 1]
    BY <1>1, HeadTailProperties, EmptySeq, LenProperties
  <1>3. UNCHANGED <<remote, store, requests, messages, writer, calls, lost, changes>>
    BY DEF RunHandler, air, bounds
  <1>4. \E view \in [Known -> Versions] :
              /\ \A a \in Known : view[a] \in Sight(Head(queue), a)
              /\ seen' = [seen EXCEPT ![Head(queue).role][Head(queue).handler] = view]
    BY DEF RunHandler
  <1>5. 1 \in 1 .. Len(queue) /\ queue' \in Seq(Call) /\ Len(queue') = Len(queue) - 1
    BY <1>1, <1>2
  <1>6. \A i \in 1 .. Len(queue') : queue'[i] = queue[i + 1]
    BY <1>1, <1>2
  <1>7. QED
    BY <1>1, <1>2, <1>3, <1>4, <1>5, <1>6, Zenon

LEMMA RunTypes ==
  ASSUME ClusterTypeOK, RemoteBound, RunHandler
  PROVE  ClusterTypeOK' /\ RemoteBound'
  <1>1. PICK view \in [Known -> Versions] :
           seen' = [seen EXCEPT ![Head(queue).role][Head(queue).handler] = view]
    BY RunHandlerIs
  <1>2. Head(queue).role \in Roles /\ Head(queue).handler \in Handlers
    BY RunHandlerIs DEF Call
  <1>3. seen' \in [Roles -> [Handlers -> [Known -> Versions]]]
    BY <1>1, <1>2 DEF ClusterTypeOK
  <1>4. UNCHANGED <<remote, store, requests, messages, writer, calls, lost, changes>>
        /\ queue' \in Seq(Call)
    BY RunHandlerIs
  <1>5. QED
    BY <1>3, <1>4 DEF ClusterTypeOK, RemoteBound

LEMMA RequestType ==
  ASSUME ClusterTypeOK, NEW attrs \in SUBSET Attrs, Request(attrs)
  PROVE  requests' \in Seq(SUBSET Attrs)
  BY AppendProperties DEF ClusterTypeOK, Request

LEMMA ReadTypes ==
  ASSUME ClusterTypeOK, RemoteBound, NEW attrs \in SUBSET Attrs, ReadAttribute(attrs)
  PROVE  ClusterTypeOK' /\ RemoteBound'
  <1>1. requests' \in Seq(SUBSET Attrs)
    BY RequestType DEF ReadAttribute
  <1>2. calls' \in 0 .. MaxCalls
    BY ClusterAssumption DEF ReadAttribute, ClusterTypeOK
  <1>3. QED
    BY <1>1, <1>2 DEF ReadAttribute, ClusterTypeOK, RemoteBound

LEMMA ReplyTypes ==
  ASSUME ClusterTypeOK, RemoteBound, Reply
  PROVE  ClusterTypeOK' /\ RemoteBound'
  <1>1. PICK i \in DOMAIN requests : \E answered \in SUBSET requests[i] : Answer(i, answered)
    BY DEF Reply
  <1>2. PICK answered \in SUBSET requests[i] : Answer(i, answered)
    BY <1>1
  <1>3. requests \in Seq(SUBSET Attrs) /\ i \in 1 .. Len(requests)
    BY LenProperties DEF ClusterTypeOK
  <1>4. requests[i] \in SUBSET Attrs
    BY <1>3, ElementOfSeq
  <1>5. [a \in answered |-> remote[a]] \in [answered -> Versions] /\ answered \in SUBSET Attrs
        /\ "READ_RESP" \in Kinds
    BY <1>4 DEF ClusterTypeOK, Kinds
  <1>6. [kind |-> "READ_RESP", values |-> [a \in answered |-> remote[a]]] \in Message
    BY <1>5, MessageIs
  <1>7. messages' \in Seq(Message)
    BY <1>2, <1>6, AppendProperties DEF Answer, ClusterTypeOK
  <1>8. requests' \in Seq(SUBSET Attrs)
    BY <1>2, <1>3, RemoveAtIs DEF Answer
  <1>9. QED
    BY <1>2, <1>7, <1>8 DEF Answer, ClusterTypeOK, RemoteBound, bounds

LEMMA TypeInit == Init => TypeOK /\ RemoteBound
  <1> SUFFICES ASSUME Init PROVE TypeOK /\ RemoteBound
    OBVIOUS
  <1>1. ClusterTypeOK /\ RemoteBound
    BY ClusterInitTypes DEF Init
  <1>2. isSync \in BOOLEAN /\ clock \in Versions /\ tz \in {"unset", "empty", "set"} /\ armed \in Nat
    BY VersionsAre DEF Init
  <1>3. QED
    BY <1>1, <1>2 DEF TypeOK

LEMMA TypeStep ==
  ASSUME TypeOK, RemoteBound, [Next]_vars
  PROVE  TypeOK' /\ RemoteBound'
  <1>1. ClusterTypeOK
    BY DEF TypeOK
  <1>2. CASE UNCHANGED timeVars /\ ClusterTypeOK' /\ RemoteBound'
    BY <1>2 DEF TypeOK, timeVars
  <1>3. CASE SyncRTC
    <2>1. ReadAttribute(Attrs) /\ Attrs \in SUBSET Attrs
      BY <1>3 DEF SyncRTC
    <2>2. ClusterTypeOK' /\ RemoteBound'
      BY <1>1, <2>1, ReadTypes
    <2>3. QED
      BY <1>2, <1>3, <2>2 DEF SyncRTC
  <1>4. ASSUME NEW a \in Attrs, ReadOne(a)
        PROVE  TypeOK' /\ RemoteBound'
    <2>1. ReadAttribute({a}) /\ {a} \in SUBSET Attrs
      BY <1>4 DEF ReadOne
    <2>2. ClusterTypeOK' /\ RemoteBound'
      BY <1>1, <2>1, ReadTypes
    <2>3. QED
      BY <1>2, <1>4, <2>2 DEF ReadOne
  <1>5. CASE TimerFires
    <2>1. requests' \in Seq(SUBSET Attrs)
      <3>1. Attrs \in SUBSET Attrs /\ Request(Attrs)
        BY <1>5 DEF TimerFires
      <3>2. QED
        BY <1>1, <3>1, RequestType
    <2>2. armed' \in Nat
      BY <1>5 DEF TimerFires, TypeOK
    <2>3. QED
      BY <1>5, <2>1, <2>2 DEF TimerFires, TypeOK, ClusterTypeOK, RemoteBound, bounds
  <1>6. CASE ProcessSync
    <2>1. ClusterTypeOK' /\ RemoteBound'
      BY <1>1, <1>6, RunTypes DEF ProcessSync
    <2>2. clock' \in Versions
      <3>1. store["client"][Time] \in Versions
        BY <1>1, TimeAssumption DEF ClusterTypeOK, Roles
      <3>2. QED
        BY <1>6, <3>1 DEF ProcessSync, TypeOK
    <2>3. isSync' \in BOOLEAN /\ tz' \in {"unset", "empty", "set"} /\ armed' \in Nat
      BY <1>6 DEF ProcessSync, TypeOK
    <2>4. QED
      BY <2>1, <2>2, <2>3 DEF TypeOK
  <1>7. CASE RunOther
    <2>1. ClusterTypeOK' /\ RemoteBound'
      BY <1>1, <1>7, RunTypes DEF RunOther
    <2>2. QED
      BY <1>2, <1>7, <2>1 DEF RunOther
  <1>8. CASE (Deliver \/ Reply \/ ClusterEnvironment) /\ UNCHANGED timeVars
    <2>1. ClusterTypeOK' /\ RemoteBound'
      BY <1>1, <1>8, DeliverTypes, ReplyTypes, EnvironmentTypes
    <2>2. QED
      BY <1>2, <1>8, <2>1
  <1>9. CASE UNCHANGED vars
    BY <1>9 DEF vars, timeVars, clusterVars, air, bounds, TypeOK, ClusterTypeOK, RemoteBound
  <1>10. QED
    BY <1>3, <1>4, <1>5, <1>6, <1>7, <1>8, <1>9 DEF Next

-------------------------------------------------------------------------------
(* Syncs are conserved *)

Responses == {m \in Message : m.kind = "READ_RESP"}
SyncCalls == {c \in Call : ForClient(c)}

\* The syncs that are being served.
InProgress == Len(requests) + CountIn(Responses, messages) + CountIn(SyncCalls, queue)

ConservedInv == armed + InProgress + lost = calls

LEMMA InProgressType ==
  ASSUME ClusterTypeOK
  PROVE  /\ Len(requests) \in Nat /\ CountIn(Responses, messages) \in Nat
         /\ CountIn(SyncCalls, queue) \in Nat /\ InProgress \in Nat
         /\ calls \in Nat /\ lost \in Nat
  <1>1. Len(requests) \in Nat
    BY LenProperties DEF ClusterTypeOK
  <1>2. CountIn(Responses, messages) \in Nat
    BY CountInType DEF ClusterTypeOK
  <1>3. CountIn(SyncCalls, queue) \in Nat
    BY CountInType DEF ClusterTypeOK
  <1>4. calls \in Nat /\ lost \in Nat
    BY ClusterAssumption DEF ClusterTypeOK
  <1>5. QED
    BY <1>1, <1>2, <1>3, <1>4 DEF InProgress

\* An event of the client is one call of processSync, one of the server none.
LEMMA PostCount ==
  ASSUME ClusterTypeOK, NEW r \in Roles, NEW event \in CallEvents,
         NEW attrs \in SUBSET (Known \union {NoAttr}), Post(r, event, attrs)
  PROVE  CountIn(SyncCalls, queue') = CountIn(SyncCalls, queue) + IF r = "client" THEN 1 ELSE 0
  <1> DEFINE c == CallsFor(r, event, attrs)
  <1>1. /\ c \in Seq(Call) /\ Len(c) = NumHandlers
        /\ \A h \in Handlers : c[h].role = r /\ c[h].handler = h
    BY CallsForIs
  <1>2. queue \in Seq(Call) /\ queue' = queue \o c
    BY DEF ClusterTypeOK, Post
  <1> HIDE DEF c
  <1>3. Handlers = 1 .. Len(c) /\ 1 \in Handlers /\ \A h \in Handlers : c[h] \in Call
    BY <1>1, ClusterAssumption, ElementOfSeq DEF Handlers
  <1>4. \A h \in Handlers : c[h] \in SyncCalls <=> r = "client" /\ h = 1
    BY <1>1, <1>3 DEF SyncCalls, ForClient
  <1>5. CountIn(SyncCalls, c) = IF r = "client" THEN 1 ELSE 0
    <2>1. CASE r = "client"
      <3>1. Places(SyncCalls, c, Len(c)) = {1}
        BY <1>3, <1>4, <2>1 DEF Places
      <3>2. QED
        BY <2>1, <3>1, FS_Singleton DEF CountIn, CountTo
    <2>2. CASE r # "client"
      <3>1. Places(SyncCalls, c, Len(c)) = {}
        BY <1>3, <1>4, <2>2 DEF Places
      <3>2. QED
        BY <2>2, <3>1, FS_EmptySet DEF CountIn, CountTo
    <2>3. QED
      BY <2>1, <2>2
  <1>6. CountIn(SyncCalls, queue \o c) = CountIn(SyncCalls, queue) + CountIn(SyncCalls, c)
    BY <1>1, <1>2, CountConcat
  <1>7. QED
    BY <1>2, <1>5, <1>6

LEMMA ConservedDeliver ==
  ASSUME ClusterTypeOK, RemoteBound, Deliver
  PROVE  InProgress' = InProgress /\ calls' = calls /\ lost' = lost
  <1>1. /\ CountIn(Responses, messages) \in Nat /\ CountIn(SyncCalls, queue) \in Nat
        /\ Len(requests) \in Nat
    BY InProgressType
  <1>2. ASSUME NEW i \in DOMAIN messages, NEW kind, Take(i, kind)
        PROVE  /\ CountIn(Responses, messages)
                    = CountIn(Responses, messages') + IF kind = "READ_RESP" THEN 1 ELSE 0
               /\ CountIn(Responses, messages') \in Nat
               /\ requests' = requests /\ calls' = calls /\ lost' = lost
    <2>1. /\ i \in 1 .. Len(messages) /\ messages[i] \in Message /\ messages[i].kind = kind
          /\ messages' = RemoveAt(messages, i) /\ messages' \in Seq(Message)
          /\ requests' = requests /\ calls' = calls /\ lost' = lost
      BY <1>2, TakeIs
    <2>2. messages \in Seq(Message)
      BY DEF ClusterTypeOK
    <2>3. CountIn(Responses, messages) = CountIn(Responses, RemoveAt(messages, i)) + Hit(Responses, messages[i])
      BY <2>1, <2>2, CountRemoveAt
    <2>4. Hit(Responses, messages[i]) = IF kind = "READ_RESP" THEN 1 ELSE 0
      BY <2>1 DEF Hit, Responses
    <2>5. CountIn(Responses, messages') \in Nat
      BY <2>1, CountInType
    <2>6. QED
      BY <2>1, <2>3, <2>4, <2>5
  <1>3. ASSUME NEW i \in DOMAIN messages, HandleReadAttribute(i)
        PROVE  InProgress' = InProgress /\ calls' = calls /\ lost' = lost
    <2>1. Take(i, "READ_RESP") /\ Post("client", "ATTR_UPDATED_AFTER_READ", Usable(messages[i]))
      BY <1>3 DEF HandleReadAttribute
    <2>2. CountIn(SyncCalls, queue') = CountIn(SyncCalls, queue) + 1
      <3>1. "client" \in Roles /\ "ATTR_UPDATED_AFTER_READ" \in CallEvents
        BY DEF Roles, CallEvents
      <3>2. QED
        BY <2>1, <3>1, UsableType, PostCount
    <2>3. /\ CountIn(Responses, messages) = CountIn(Responses, messages') + 1
          /\ CountIn(Responses, messages') \in Nat
          /\ requests' = requests /\ calls' = calls /\ lost' = lost
      BY <1>2, <2>1
    <2>4. QED
      BY <1>1, <2>2, <2>3 DEF InProgress
  <1>4. ASSUME NEW i \in DOMAIN messages, HandleSetAttribute(i)
        PROVE  InProgress' = InProgress /\ calls' = calls /\ lost' = lost
    <2>1. Take(i, "SET_ATTR") /\ Post("server", "ATTR_UPDATED_REMOTELY", Usable(messages[i]))
      BY <1>4 DEF HandleSetAttribute
    <2>2. CountIn(SyncCalls, queue') = CountIn(SyncCalls, queue) + 0
      <3>1. "server" \in Roles /\ "ATTR_UPDATED_REMOTELY" \in CallEvents
        BY DEF Roles, CallEvents
      <3>2. QED
        BY <2>1, <3>1, UsableType, PostCount
    <2>3. /\ CountIn(Responses, messages) = CountIn(Responses, messages') + 0
          /\ CountIn(Responses, messages') \in Nat
          /\ requests' = requests /\ calls' = calls /\ lost' = lost
      BY <1>2, <2>1
    <2>4. QED
      BY <1>1, <2>2, <2>3 DEF InProgress
  <1>5. ASSUME NEW i \in DOMAIN messages, HandleDefaultResp(i)
        PROVE  InProgress' = InProgress /\ calls' = calls /\ lost' = lost
    <2>1. Take(i, "DEFAULT_RESP") /\ Post("server", "ATTR_REPORTED", {NoAttr})
      BY <1>5 DEF HandleDefaultResp
    <2>2. CountIn(SyncCalls, queue') = CountIn(SyncCalls, queue) + 0
      <3>1. "server" \in Roles /\ "ATTR_REPORTED" \in CallEvents
            /\ {NoAttr} \in SUBSET (Known \union {NoAttr})
        BY DEF Roles, CallEvents
      <3>2. QED
        BY <2>1, <3>1, PostCount
    <2>3. /\ CountIn(Responses, messages) = CountIn(Responses, messages') + 0
          /\ CountIn(Responses, messages') \in Nat
          /\ requests' = requests /\ calls' = calls /\ lost' = lost
      BY <1>2, <2>1
    <2>4. QED
      BY <1>1, <2>2, <2>3 DEF InProgress
  <1>6. QED
    BY <1>3, <1>4, <1>5 DEF Deliver

LEMMA ConservedReply ==
  ASSUME ClusterTypeOK, Reply
  PROVE  InProgress' = InProgress /\ calls' = calls /\ lost' = lost
  <1>1. PICK i \in DOMAIN requests : \E answered \in SUBSET requests[i] : Answer(i, answered)
    BY DEF Reply
  <1>2. PICK answered \in SUBSET requests[i] : Answer(i, answered)
    BY <1>1
  <1>3. requests \in Seq(SUBSET Attrs) /\ i \in 1 .. Len(requests)
    BY LenProperties DEF ClusterTypeOK
  <1>4. requests[i] \in SUBSET Attrs
    BY <1>3, ElementOfSeq
  <1> DEFINE m == [kind |-> "READ_RESP", values |-> [a \in answered |-> remote[a]]]
  <1>5. m \in Message
    <2>1. [a \in answered |-> remote[a]] \in [answered -> Versions] /\ answered \in SUBSET Attrs
          /\ "READ_RESP" \in Kinds
      BY <1>4 DEF ClusterTypeOK, Kinds
    <2>2. QED
      BY <2>1, MessageIs
  <1>6. Hit(Responses, m) = 1
    BY <1>5 DEF Responses, Hit
  <1>7. messages \in Seq(Message) /\ messages' = Append(messages, m)
    BY <1>2 DEF Answer, ClusterTypeOK
  <1> HIDE DEF m
  <1>8. CountIn(Responses, messages') = CountIn(Responses, messages) + 1
    BY <1>5, <1>6, <1>7, CountAppend
  <1>9. Len(requests') = Len(requests) - 1
    BY <1>2, <1>3, RemoveAtIs DEF Answer
  <1>10. queue' = queue /\ calls' = calls /\ lost' = lost
    BY <1>2 DEF Answer, bounds
  <1>11. QED
    BY <1>8, <1>9, <1>10, InProgressType DEF InProgress

LEMMA ConservedEnvironment ==
  ASSUME ClusterTypeOK, ClusterEnvironment
  PROVE  InProgress' + lost' = InProgress + lost /\ calls' = calls
  <1>1. /\ Len(requests) \in Nat /\ CountIn(Responses, messages) \in Nat
        /\ CountIn(SyncCalls, queue) \in Nat /\ lost \in Nat
    BY InProgressType
  <1>2. CASE \/ \E a \in Attrs : RemoteChanges(a)
             \/ \E r \in Roles, a \in Known : SetAttribute(r, a)
    BY <1>2 DEF RemoteChanges, SetAttribute, air, InProgress
  <1>3. ASSUME NEW i \in DOMAIN requests, LoseRequest(i)
        PROVE  InProgress' + lost' = InProgress + lost /\ calls' = calls
    <2>1. requests \in Seq(SUBSET Attrs) /\ i \in 1 .. Len(requests)
      BY LenProperties DEF ClusterTypeOK
    <2>2. Len(requests') = Len(requests) - 1
      BY <1>3, <2>1, RemoveAtIs DEF LoseRequest
    <2>3. UNCHANGED <<messages, queue, calls>> /\ lost' = lost + 1
      BY <1>3 DEF LoseRequest
    <2>4. InProgress' = InProgress - 1
      BY <1>1, <2>2, <2>3 DEF InProgress
    <2>5. QED
      BY <1>1, <2>3, <2>4, InProgressType
  <1>4. ASSUME NEW i \in DOMAIN messages, LoseResponse(i)
        PROVE  InProgress' + lost' = InProgress + lost /\ calls' = calls
    <2>1. messages \in Seq(Message) /\ i \in 1 .. Len(messages)
      BY LenProperties DEF ClusterTypeOK
    <2>2. messages[i] \in Message /\ messages[i].kind = "READ_RESP"
          /\ messages' = RemoveAt(messages, i)
      BY <1>4, <2>1, ElementOfSeq DEF LoseResponse
    <2>3. Hit(Responses, messages[i]) = 1
      BY <2>2 DEF Hit, Responses
    <2>4. CountIn(Responses, messages) = CountIn(Responses, messages') + 1
      BY <2>1, <2>2, <2>3, CountRemoveAt
    <2>5. CountIn(Responses, messages') \in Nat
      BY <2>1, <2>2, RemoveAtIs, CountInType
    <2>6. UNCHANGED <<requests, queue, calls>> /\ lost' = lost + 1
      BY <1>4 DEF LoseResponse
    <2>7. QED
      BY <1>1, <2>4, <2>5, <2>6 DEF InProgress
  <1>5. ASSUME NEW kind, NEW values, kind # "READ_RESP", [kind |-> kind, values |-> values] \in Message,
               messages' = Append(messages, [kind |-> kind, values |-> values]),
               UNCHANGED <<requests, queue, calls, lost>>
        PROVE  InProgress' + lost' = InProgress + lost /\ calls' = calls
    <2> DEFINE m == [kind |-> kind, values |-> values]
    <2>1. messages \in Seq(Message) /\ m \in Message /\ messages' = Append(messages, m)
      BY <1>5 DEF ClusterTypeOK
    <2>2. Hit(Responses, m) = 0
      BY <1>5 DEF Hit, Responses
    <2> HIDE DEF m
    <2>3. CountIn(Responses, messages') = CountIn(Responses, messages) + 0
      BY <2>1, <2>2, CountAppend
    <2>4. QED
      BY <1>1, <1>5, <2>3 DEF InProgress
  <1>6. ASSUME NEW a \in Known, RemoteWrites(a)
        PROVE  InProgress' + lost' = InProgress + lost /\ calls' = calls
    <2>1. Written \in Versions
      BY <1>6, VersionsAre DEF RemoteWrites, Written, ClusterTypeOK
    <2>2. [b \in {a} |-> Written] \in [{a} -> Versions] /\ {a} \in SUBSET Attrs
          /\ "SET_ATTR" \in Kinds
      BY <2>1, ClusterAssumption DEF Kinds
    <2>3. [kind |-> "SET_ATTR", values |-> [b \in {a} |-> Written]] \in Message
      BY <2>2, MessageIs
    <2>4. messages' = Append(messages, [kind |-> "SET_ATTR", values |-> [b \in {a} |-> Written]])
          /\ UNCHANGED <<requests, queue, calls, lost>>
      BY <1>6 DEF RemoteWrites
    <2>5. QED
      BY <1>5, <2>3, <2>4
  <1>7. CASE ReportConfirmed
    <2>1. messages' = Append(messages, [kind |-> "DEFAULT_RESP", values |-> <<>>])
          /\ UNCHANGED <<requests, queue, calls, lost>>
      BY <1>7 DEF ReportConfirmed
    <2>2. [kind |-> "DEFAULT_RESP", values |-> <<>>] \in Message
      BY NothingIsMessage
    <2>3. QED
      BY <1>5, <2>1, <2>2
  <1>8. QED
    BY <1>2, <1>3, <1>4, <1>6, <1>7 DEF ClusterEnvironment

LEMMA ConservedRun ==
  ASSUME ClusterTypeOK, RunHandler
  PROVE  /\ InProgress' = InProgress - (IF ForClient(Head(queue)) THEN 1 ELSE 0)
         /\ calls' = calls /\ lost' = lost
  <1>1. /\ queue \in Seq(Call) /\ queue # <<>> /\ Head(queue) \in Call /\ queue' = Tail(queue)
        /\ queue' \in Seq(Call)
        /\ UNCHANGED <<requests, messages, calls, lost>>
    BY RunHandlerIs DEF ClusterTypeOK
  <1>2. CountIn(SyncCalls, queue) = Hit(SyncCalls, Head(queue)) + CountIn(SyncCalls, Tail(queue))
    BY <1>1, CountTail
  <1>3. Hit(SyncCalls, Head(queue)) = IF ForClient(Head(queue)) THEN 1 ELSE 0
    BY <1>1 DEF Hit, SyncCalls
  <1>4. CountIn(SyncCalls, queue') \in Nat
    BY <1>1, CountInType
  <1>5. CountIn(SyncCalls, queue')
          = CountIn(SyncCalls, queue) - (IF ForClient(Head(queue)) THEN 1 ELSE 0)
    BY <1>1, <1>2, <1>3, <1>4, InProgressType
  <1>6. QED
    BY <1>1, <1>5, InProgressType DEF InProgress

LEMMA ConservedRead ==
  ASSUME ClusterTypeOK, NEW attrs \in SUBSET Attrs, Request(attrs), UNCHANGED <<messages, queue>>
  PROVE  InProgress' = InProgress + 1
  <1>1. Len(requests') = Len(requests) + 1
    BY AppendProperties DEF Request, ClusterTypeOK
  <1>2. QED
    BY <1>1, InProgressType DEF InProgress

LEMMA ConservedInit == Init => ConservedInv
  <1> SUFFICES ASSUME Init PROVE ConservedInv
    OBVIOUS
  <1>1. requests = <<>> /\ messages = <<>> /\ queue = <<>> /\ armed = 0 /\ calls = 0 /\ lost = 0
    BY DEF Init, ClusterInit
  <1>2. Len(<<>>) = 0
    BY EmptySeq
  <1>3. CountIn(Responses, messages) = 0 /\ CountIn(SyncCalls, queue) = 0
    BY <1>1, CountInEmpty
  <1>4. QED
    BY <1>1, <1>2, <1>3 DEF ConservedInv, InProgress

LEMMA ConservedStep ==
  ASSUME TypeOK, RemoteBound, ConservedInv, [Next]_vars
  PROVE  ConservedInv'
  <1>1. ClusterTypeOK /\ armed \in Nat /\ InProgress \in Nat /\ calls \in Nat /\ lost \in Nat
    BY InProgressType DEF TypeOK
  <1>2. armed + InProgress + lost = calls
    BY DEF ConservedInv
  <1>3. CASE SyncRTC \/ \E a \in Attrs : ReadOne(a)
    <2>1. PICK attrs \in SUBSET Attrs : ReadAttribute(attrs) /\ UNCHANGED timeVars
      BY <1>3 DEF SyncRTC, ReadOne
    <2>2. InProgress' = InProgress + 1 /\ calls' = calls + 1 /\ lost' = lost /\ armed' = armed
      BY <1>1, <2>1, ConservedRead DEF ReadAttribute, timeVars
    <2>3. QED
      BY <1>1, <1>2, <2>2 DEF ConservedInv
  <1>4. CASE TimerFires
    <2>1. Request(Attrs) /\ Attrs \in SUBSET Attrs /\ UNCHANGED <<messages, queue, calls, lost>>
          /\ armed' = armed - 1
      BY <1>4 DEF TimerFires, bounds
    <2>2. InProgress' = InProgress + 1
      BY <1>1, <2>1, ConservedRead
    <2>3. QED
      BY <1>1, <1>2, <2>1, <2>2 DEF ConservedInv
  <1>5. CASE ProcessSync
    <2>1. RunHandler /\ ForClient(Head(queue)) /\ armed' = armed + 1
      BY <1>5 DEF ProcessSync
    <2>2. InProgress' = InProgress - 1 /\ calls' = calls /\ lost' = lost
      BY <1>1, <2>1, ConservedRun
    <2>3. QED
      BY <1>1, <1>2, <2>1, <2>2 DEF ConservedInv
  <1>6. CASE RunOther
    <2>1. RunHandler /\ ~ForClient(Head(queue)) /\ armed' = armed
      BY <1>6 DEF RunOther, timeVars
    <2>2. InProgress' = InProgress - 0 /\ calls' = calls /\ lost' = lost
      BY <1>1, <2>1, ConservedRun
    <2>3. QED
      BY <1>1, <1>2, <2>1, <2>2 DEF ConservedInv
  <1>7. CASE (Deliver \/ Reply) /\ UNCHANGED timeVars
    <2>1. InProgress' = InProgress /\ calls' = calls /\ lost' = lost
      BY <1>1, <1>7, ConservedDeliver, ConservedReply
    <2>2. QED
      BY <1>2, <1>7, <2>1 DEF ConservedInv, timeVars
  <1>8. CASE ClusterEnvironment /\ UNCHANGED timeVars
    <2>1. InProgress' + lost' = InProgress + lost /\ calls' = calls /\ armed' = armed
      BY <1>1, <1>8, ConservedEnvironment DEF timeVars
    <2>2. lost' \in Nat /\ InProgress' \in Nat
      <3>1. ClusterTypeOK'
        BY <1>1, <1>8, EnvironmentTypes
      <3>2. Len(requests') \in Nat /\ lost' \in Nat
        BY <3>1, LenProperties, ClusterAssumption DEF ClusterTypeOK
      <3>3. CountIn(Responses, messages') \in Nat
        BY <3>1, CountInType DEF ClusterTypeOK
      <3>4. CountIn(SyncCalls, queue') \in Nat
        BY <3>1, CountInType DEF ClusterTypeOK
      <3>5. QED
        BY <3>2, <3>3, <3>4 DEF InProgress
    <2>3. armed \in Nat /\ InProgress \in Nat /\ lost \in Nat
      BY <1>1
    <2>4. InProgress' + lost' = InProgress + lost
      BY <2>1
    <2>5. \A x, y \in Nat : x + y = InProgress + lost => armed + x + y = armed + InProgress + lost
      BY <2>3
    <2>6. armed + InProgress' + lost' = armed + InProgress + lost
      BY <2>2, <2>4, <2>5
    <2>7. QED
      BY <1>2, <2>1, <2>6 DEF ConservedInv
  <1>9. CASE UNCHANGED vars
    BY <1>2, <1>9 DEF vars, timeVars, clusterVars, air, bounds, ConservedInv, InProgress
  <1>10. QED
    BY <1>3, <1>4, <1>5, <1>6, <1>7, <1>8, <1>9 DEF Next

LEMMA ConservedImplies == TypeOK /\ ConservedInv => SyncsConserved
  <1> SUFFICES ASSUME TypeOK, ConservedInv PROVE SyncsConserved
    OBVIOUS
  <1>1. messages \in Seq(Message) /\ queue \in Seq(Call)
    BY DEF TypeOK, ClusterTypeOK
  <1>2. NumWhere(messages, LAMBDA m : m.kind = "READ_RESP") = CountIn(Responses, messages)
    <2>1. {i \in DOMAIN messages : messages[i].kind = "READ_RESP"}
            = Places(Responses, messages, Len(messages))
      BY <1>1, LenProperties, ElementOfSeq DEF Places, Responses
    <2>2. QED
      BY <2>1 DEF NumWhere, CountIn, CountTo
  <1>3. NumWhere(queue, ForClient) = CountIn(SyncCalls, queue)
    <2>1. {i \in DOMAIN queue : ForClient(queue[i])} = Places(SyncCalls, queue, Len(queue))
      BY <1>1, LenProperties, ElementOfSeq DEF Places, SyncCalls
    <2>2. QED
      BY <2>1 DEF NumWhere, CountIn, CountTo
  <1>4. armed + Len(requests) + CountIn(Responses, messages) + CountIn(SyncCalls, queue)
          = calls - lost
    BY InProgressType DEF ConservedInv, InProgress, TypeOK
  <1>5. QED
    BY <1>2, <1>3, <1>4 DEF SyncsConserved

-------------------------------------------------------------------------------
(* What the network wrote and the first handler has not seen *)

\* A queued call will show the first client handler attribute a.
WillTell(a) == \E i \in 1 .. Len(queue) : ForClient(queue[i]) /\ a \in queue[i].attrs

\* The events of a client come from reads: the pointers are into the store.
ClientInv == \A i \in 1 .. Len(queue) :
                queue[i].role = "client" => queue[i].event = "ATTR_UPDATED_AFTER_READ"

UpToDate(a) == \/ writer["client"][a] # "remote"
               \/ seen["client"][1][a] = store["client"][a]
               \/ WillTell(a)

PendingInv == ClientInv /\ \A a \in Known : UpToDate(a)

LEMMA PendingSame ==
  ASSUME PendingInv, UNCHANGED <<queue, seen, store, writer>>
  PROVE  PendingInv'
  BY DEF PendingInv, ClientInv, UpToDate, WillTell

LEMMA PendingInit == Init => PendingInv
  <1> SUFFICES ASSUME Init PROVE PendingInv
    OBVIOUS
  <1>1. queue = <<>> /\ writer = [r \in Roles |-> [a \in Known |-> "nobody"]]
    BY DEF Init, ClusterInit
  <1>2. Len(queue) = 0 /\ 1 .. 0 = {}
    BY <1>1, EmptySeq
  <1>3. \A a \in Known : writer["client"][a] = "nobody"
    BY <1>1 DEF Roles
  <1>4. QED
    BY <1>2, <1>3 DEF PendingInv, ClientInv, UpToDate

\* Calls queued behind the others take none away.
LEMMA PostKeeps ==
  ASSUME ClusterTypeOK, NEW r \in Roles, NEW event \in CallEvents,
         NEW attrs \in SUBSET (Known \union {NoAttr}), Post(r, event, attrs)
  PROVE  /\ \A a \in Known : WillTell(a) => WillTell(a)'
         /\ r = "client" => \A a \in attrs : WillTell(a)'
         /\ (ClientInv /\ (r = "client" => event = "ATTR_UPDATED_AFTER_READ")) => ClientInv'
  <1> DEFINE c == CallsFor(r, event, attrs)
  <1>1. /\ c \in Seq(Call) /\ Len(c) = NumHandlers
        /\ \A h \in Handlers : c[h].role = r /\ c[h].handler = h /\ c[h].event = event
        /\ c[1].attrs = attrs
    BY CallsForIs
  <1>2. queue \in Seq(Call) /\ queue' = queue \o c
    BY DEF ClusterTypeOK, Post
  <1> HIDE DEF c
  <1>3. Handlers = 1 .. Len(c) /\ 1 \in Handlers /\ Len(c) \in Nat
    BY <1>1, ClusterAssumption DEF Handlers
  <1>4. /\ Len(queue) \in Nat /\ Len(queue') = Len(queue) + Len(c)
        /\ \A i \in 1 .. Len(queue) : queue'[i] = queue[i]
        /\ \A h \in Handlers : queue'[Len(queue) + h] = c[h]
    <2>1. /\ Len(queue') = Len(queue) + Len(c) /\ Len(queue) \in Nat
          /\ \A i \in 1 .. Len(queue) + Len(c) : queue'[i] =
                IF i <= Len(queue) THEN queue[i] ELSE c[i - Len(queue)]
      BY <1>1, <1>2, ConcatProperties, LenProperties
    <2>2. \A i \in 1 .. Len(queue) : queue'[i] = queue[i]
      BY <1>3, <2>1
    <2>3. ASSUME NEW h \in Handlers PROVE queue'[Len(queue) + h] = c[h]
      <3>1. Len(queue) + h \in 1 .. Len(queue) + Len(c) /\ ~(Len(queue) + h <= Len(queue))
            /\ (Len(queue) + h) - Len(queue) = h
        BY <1>3, <2>1
      <3>2. QED
        BY <2>1, <3>1
    <2>4. QED
      BY <2>1, <2>2, <2>3
  <1>5. ASSUME NEW a \in Known, WillTell(a) PROVE WillTell(a)'
    <2>1. PICK i \in 1 .. Len(queue) : ForClient(queue[i]) /\ a \in queue[i].attrs
      BY <1>5 DEF WillTell
    <2>2. i \in 1 .. Len(queue') /\ queue'[i] = queue[i]
      BY <1>3, <1>4
    <2>3. QED
      BY <2>1, <2>2 DEF WillTell
  <1>6. ASSUME r = "client", NEW a \in attrs PROVE WillTell(a)'
    <2>1. Len(queue) + 1 \in 1 .. Len(queue') /\ queue'[Len(queue) + 1] = c[1]
      BY <1>3, <1>4
    <2>2. ForClient(c[1]) /\ a \in c[1].attrs
      BY <1>1, <1>3, <1>6 DEF ForClient
    <2>3. QED
      BY <2>1, <2>2 DEF WillTell
  <1>7. ASSUME ClientInv, r = "client" => event = "ATTR_UPDATED_AFTER_READ" PROVE ClientInv'
    <2> SUFFICES ASSUME NEW i \in 1 .. Len(queue'), queue'[i].role = "client"
                 PROVE  queue'[i].event = "ATTR_UPDATED_AFTER_READ"
      BY DEF ClientInv
    <2>1. CASE i \in 1 .. Len(queue)
      BY <1>4, <1>7, <2>1 DEF ClientInv
    <2>2. CASE i \notin 1 .. Len(queue)
      <3>1. i - Len(queue) \in Handlers /\ Len(queue) + (i - Len(queue)) = i
        BY <1>3, <1>4, <2>2
      <3>2. queue'[i] = c[i - Len(queue)]
        BY <1>4, <3>1
      <3>3. QED
        BY <1>1, <1>7, <3>1, <3>2
    <2>3. QED
      BY <2>1, <2>2
  <1>8. QED
    BY <1>5, <1>6, <1>7

LEMMA PendingDeliver ==
  ASSUME ClusterTypeOK, RemoteBound, PendingInv, Deliver
  PROVE  PendingInv'
  <1>1. ClientInv /\ \A a \in Known : UpToDate(a)
    BY DEF PendingInv
  <1>2. ASSUME NEW i \in DOMAIN messages, HandleReadAttribute(i)
        PROVE  PendingInv'
    <2> DEFINE m == messages[i]
    <2>1. /\ Take(i, "READ_RESP") /\ StoreValues("client", m)
          /\ Post("client", "ATTR_UPDATED_AFTER_READ", Usable(m))
      BY <1>2 DEF HandleReadAttribute
    <2>2. m \in Message /\ seen' = seen
      BY <2>1, TakeIs
    <2>3. "client" \in Roles /\ "ATTR_UPDATED_AFTER_READ" \in CallEvents
      BY DEF Roles, CallEvents
    <2>4. /\ \A a \in Known : WillTell(a) => WillTell(a)'
          /\ \A a \in Usable(m) : WillTell(a)'
          /\ ClientInv'
      BY <1>1, <2>1, <2>3, UsableType, PostKeeps
    <2>5. \A a \in Known : a \notin Usable(m) =>
             store'["client"][a] = store["client"][a] /\ writer'["client"][a] = writer["client"][a]
      BY <2>1, <2>2, <2>3, StoreType
    <2> HIDE DEF m
    <2>6. ASSUME NEW a \in Known PROVE UpToDate(a)'
      <3>1. CASE a \in Usable(m)
        BY <2>4, <3>1 DEF UpToDate
      <3>2. CASE a \notin Usable(m)
        BY <1>1, <2>2, <2>4, <2>5, <3>2 DEF UpToDate
      <3>3. QED
        BY <3>1, <3>2
    <2>7. QED
      BY <2>4, <2>6 DEF PendingInv
  <1>3. ASSUME NEW event \in CallEvents, NEW attrs \in SUBSET (Known \union {NoAttr}),
               Post("server", event, attrs), seen' = seen,
               store'["client"] = store["client"], writer'["client"] = writer["client"]
        PROVE  PendingInv'
    <2>1. "server" \in Roles /\ "server" # "client"
      BY DEF Roles
    <2>2. (\A a \in Known : WillTell(a) => WillTell(a)') /\ ClientInv'
      BY <1>1, <1>3, <2>1, PostKeeps
    <2>3. \A a \in Known : UpToDate(a)'
      BY <1>1, <1>3, <2>2 DEF UpToDate
    <2>4. QED
      BY <2>2, <2>3 DEF PendingInv
  <1>4. ASSUME NEW i \in DOMAIN messages, HandleSetAttribute(i)
        PROVE  PendingInv'
    <2>1. /\ Take(i, "SET_ATTR") /\ StoreValues("server", messages[i])
          /\ Post("server", "ATTR_UPDATED_REMOTELY", Usable(messages[i]))
      BY <1>4 DEF HandleSetAttribute
    <2>2. messages[i] \in Message /\ seen' = seen
      BY <2>1, TakeIs
    <2>3. "server" \in Roles /\ "client" \in Roles \ {"server"} /\ "ATTR_UPDATED_REMOTELY" \in CallEvents
      BY DEF Roles, CallEvents
    <2>4. store'["client"] = store["client"] /\ writer'["client"] = writer["client"]
      BY <2>1, <2>2, <2>3, StoreType
    <2>5. QED
      BY <1>3, <2>1, <2>2, <2>3, <2>4, UsableType
  <1>5. ASSUME NEW i \in DOMAIN messages, HandleDefaultResp(i)
        PROVE  PendingInv'
    <2>1. Take(i, "DEFAULT_RESP") /\ Post("server", "ATTR_REPORTED", {NoAttr})
          /\ UNCHANGED <<store, writer>>
      BY <1>5 DEF HandleDefaultResp
    <2>2. seen' = seen
      BY <2>1, TakeIs
    <2>3. "ATTR_REPORTED" \in CallEvents /\ {NoAttr} \in SUBSET (Known \union {NoAttr})
      BY DEF CallEvents
    <2>4. QED
      BY <1>3, <2>1, <2>2, <2>3
  <1>6. QED
    BY <1>2, <1>4, <1>5 DEF Deliver

LEMMA PendingRun ==
  ASSUME ClusterTypeOK, PendingInv, RunHandler
  PROVE  PendingInv'
  <1>1. ClientInv /\ \A a \in Known : UpToDate(a)
    BY DEF PendingInv
  <1> DEFINE c == Head(queue)
  <1>2. /\ c \in Call /\ c = queue[1] /\ Len(queue) \in Nat \ {0} /\ 1 \in 1 .. Len(queue)
        /\ Len(queue') = Len(queue) - 1
        /\ \A i \in 1 .. Len(queue') : queue'[i] = queue[i + 1]
        /\ store' = store /\ writer' = writer
    BY RunHandlerIs
  <1>3. PICK view \in [Known -> Versions] :
           /\ \A a \in Known : view[a] \in Sight(c, a)
           /\ seen' = [seen EXCEPT ![c.role][c.handler] = view]
    BY RunHandlerIs
  <1>4. c.role \in Roles /\ c.handler \in Handlers
    BY <1>2 DEF Call
  <1> HIDE DEF c
  <1>5. ClientInv'
    <2> SUFFICES ASSUME NEW i \in 1 .. Len(queue'), queue'[i].role = "client"
                 PROVE  queue'[i].event = "ATTR_UPDATED_AFTER_READ"
      BY DEF ClientInv
    <2>1. i + 1 \in 1 .. Len(queue) /\ queue'[i] = queue[i + 1]
      BY <1>2
    <2>2. QED
      BY <1>1, <2>1 DEF ClientInv
  <1>6. ASSUME NEW a \in Known PROVE UpToDate(a)'
    <2>1. UpToDate(a)
      BY <1>1
    <2>2. "client" \in Roles /\ 1 \in Handlers
      BY ClusterAssumption DEF Roles, Handlers
    <2>3. CASE ForClient(c)
      <3>1. c.role = "client" /\ c.handler = 1
        BY <2>3 DEF ForClient
      <3>2. seen'["client"][1] = view
        BY <1>3, <2>2, <3>1 DEF ClusterTypeOK
      <3>3. c.event = "ATTR_UPDATED_AFTER_READ"
        BY <1>1, <1>2, <3>1 DEF ClientInv
      <3>4. CASE a \in c.attrs
        <4>1. view[a] = store["client"][a]
          BY <1>3, <3>1, <3>3, <3>4 DEF Sight
        <4>2. QED
          BY <1>2, <3>2, <4>1 DEF UpToDate
      <3>5. CASE a \notin c.attrs
        <4>1. view[a] = seen["client"][1][a]
          BY <1>3, <3>1, <3>5 DEF Sight
        <4>2. WillTell(a) => WillTell(a)'
          <5> SUFFICES ASSUME NEW i \in 1 .. Len(queue), ForClient(queue[i]), a \in queue[i].attrs
                       PROVE  WillTell(a)'
            BY DEF WillTell
          <5>1. i # 1
            BY <1>2, <3>5
          <5>2. i - 1 \in 1 .. Len(queue') /\ (i - 1) + 1 = i
            BY <1>2, <5>1
          <5>3. queue'[i - 1] = queue[i]
            BY <1>2, <5>2
          <5>4. QED
            BY <5>2, <5>3 DEF WillTell
        <4>3. QED
          BY <1>2, <2>1, <3>2, <4>1, <4>2 DEF UpToDate
      <3>6. QED
        BY <3>4, <3>5
    <2>4. CASE ~ForClient(c)
      <3>1. seen'["client"][1] = seen["client"][1]
        BY <1>3, <1>4, <2>2, <2>4 DEF ClusterTypeOK, ForClient
      <3>2. WillTell(a) => WillTell(a)'
        <4> SUFFICES ASSUME NEW i \in 1 .. Len(queue), ForClient(queue[i]), a \in queue[i].attrs
                     PROVE  WillTell(a)'
          BY DEF WillTell
        <4>1. i # 1
          BY <1>2, <2>4
        <4>2. i - 1 \in 1 .. Len(queue') /\ (i - 1) + 1 = i
          BY <1>2, <4>1
        <4>3. queue'[i - 1] = queue[i]
          BY <1>2, <4>2
        <4>4. QED
          BY <4>2, <4>3 DEF WillTell
      <3>3. QED
        BY <1>2, <2>1, <3>1, <3>2 DEF UpToDate
    <2>5. QED
      BY <2>3, <2>4
  <1>7. QED
    BY <1>5, <1>6 DEF PendingInv

LEMMA PendingEnvironment ==
  ASSUME ClusterTypeOK, PendingInv, ClusterEnvironment
  PROVE  PendingInv'
  <1>1. CASE UNCHANGED <<queue, seen, store, writer>>
    BY <1>1, PendingSame
  <1>2. ASSUME NEW r \in Roles, NEW b \in Known, SetAttribute(r, b)
        PROVE  PendingInv'
    <2>1. /\ store' = [store EXCEPT ![r][b] = Written]
          /\ writer' = [writer EXCEPT ![r][b] = "application"]
          /\ queue' = queue /\ seen' = seen
      BY <1>2 DEF SetAttribute
    <2>2. ClientInv'
      BY <2>1 DEF PendingInv, ClientInv
    <2>3. ASSUME NEW a \in Known PROVE UpToDate(a)'
      <3>1. "client" \in Roles
        BY DEF Roles
      <3>2. CASE r = "client" /\ a = b
        <4>1. writer'["client"][a] = "application"
          BY <2>1, <3>1, <3>2 DEF ClusterTypeOK
        <4>2. QED
          BY <4>1 DEF UpToDate
      <3>3. CASE ~(r = "client" /\ a = b)
        <4>1. writer'["client"][a] = writer["client"][a] /\ store'["client"][a] = store["client"][a]
          BY <2>1, <3>1, <3>3 DEF ClusterTypeOK
        <4>2. WillTell(a)' <=> WillTell(a)
          BY <2>1 DEF WillTell
        <4>3. QED
          BY <2>1, <4>1, <4>2 DEF UpToDate, PendingInv
      <3>4. QED
        BY <3>2, <3>3
    <2>4. QED
      BY <2>2, <2>3 DEF PendingInv
  <1>3. QED
    BY <1>1, <1>2
    DEF ClusterEnvironment, RemoteChanges, LoseRequest, LoseResponse, RemoteWrites, ReportConfirmed

LEMMA PendingStep ==
  ASSUME TypeOK, RemoteBound, PendingInv, [Next]_vars
  PROVE  PendingInv'
  <1>1. ClusterTypeOK
    BY DEF TypeOK
  <1>2. CASE UNCHANGED <<queue, seen, store, writer>>
    BY <1>2, PendingSame
  <1>3. CASE Deliver
    BY <1>1, <1>3, PendingDeliver
  <1>4. CASE RunHandler
    BY <1>1, <1>4, PendingRun
  <1>5. CASE ClusterEnvironment
    BY <1>1, <1>5, PendingEnvironment
  <1>6. QED
    BY <1>2, <1>3, <1>4, <1>5
    DEF Next, SyncRTC, ReadOne, ReadAttribute, TimerFires, ProcessSync, RunOther, Reply, Answer,
        vars, clusterVars

LEMMA PendingImplies == PendingInv => FirstHandlerUpToDate
  <1> SUFFICES ASSUME PendingInv, queue = <<>>, NEW a \in Known, writer["client"][a] = "remote"
               PROVE  seen["client"][1][a] = store["client"][a]
    BY DEF FirstHandlerUpToDate
  <1>1. Len(queue) = 0 /\ 1 .. 0 = {}
    BY EmptySeq
  <1>2. ~WillTell(a)
    BY <1>1 DEF WillTell
  <1>3. QED
    BY <1>2 DEF PendingInv, UpToDate

-------------------------------------------------------------------------------
(* The theorems *)

IInv == TypeOK /\ RemoteBound /\ ConservedInv /\ PendingInv

\* The inductive invariant holds in every state the client, its cluster, the
\* radio and the remote server can reach.
THEOREM TimeClientCorrect == Spec => []IInv
  <1>1. Init => IInv
    BY TypeInit, ConservedInit, PendingInit DEF IInv
  <1>2. IInv /\ [Next]_vars => IInv'
    BY TypeStep, ConservedStep, PendingStep DEF IInv
  <1>3. QED
    BY <1>1, <1>2, PTL DEF Spec

\* Every variable keeps its type: no message can put into the local cluster an
\* attribute it does not have or a value that was never written.
THEOREM TimeClientTypes == Spec => []TypeOK
  <1>1. IInv => TypeOK
    BY DEF IInv
  <1>2. QED
    BY <1>1, TimeClientCorrect, PTL

\* Every read the application ever makes becomes a sync that goes round until
\* one of its messages is lost: the syncs in progress or scheduled are the reads
\* made minus the messages lost (processSync schedules anew whatever it is told).
THEOREM SyncsConservedHolds == Spec => []SyncsConserved
  <1>1. IInv => SyncsConserved
    BY ConservedImplies DEF IInv
  <1>2. QED
    BY <1>1, TimeClientCorrect, PTL

\* When the event queue is empty, the first handler of the client has seen the
\* value that the network stored last, whatever overtook what (attributesWereRead).
THEOREM FirstHandlerUpToDateHolds == Spec => []FirstHandlerUpToDate
  <1>1. IInv => FirstHandlerUpToDate
    BY PendingImplies DEF IInv
  <1>2. QED
    BY <1>1, TimeClientCorrect, PTL

===============================================================================
