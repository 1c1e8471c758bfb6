------------------------------ MODULE ZbTimeClient ------------------------------
(***************************************************************************)
(* src/zigbee/include/zbClusterUtils/zbTimeClusterClient.h: the Time       *)
(* cluster client, which reads the coordinator's clock (syncRTC), takes it *)
(* over when the answer is handled (processSync, its first event handler)  *)
(* and then arms a one-shot timer (ScheduledTask) for the next syncRTC a   *)
(* month later.  It is the client object of ZbCluster.                     *)
(***************************************************************************)
EXTENDS ZbCluster

CONSTANTS Time,       \* the attribute with the UTC time
          ZoneAttrs   \* the attributes the TZ string is built from

ASSUME TimeAssumption == Time \in Known /\ ZoneAttrs \subseteq Known

VARIABLES isSync,     \* isSync
          clock,      \* the version the system clock was set from, 0 when never
          tz,         \* the TZ environment variable: "unset", "empty", "set"
          armed       \* ScheduledTasks for the next syncRTC

timeVars == <<isSync, clock, tz, armed>>
vars == <<clusterVars, timeVars>>

Init == /\ ClusterInit
        /\ isSync = FALSE
        /\ clock = 0
        /\ tz = "unset"
        /\ armed = 0

-------------------------------------------------------------------------------
\* syncRTC() called by the application: one read of all the attributes.
SyncRTC == ReadAttribute(Attrs) /\ UNCHANGED timeVars

\* The application reads one attribute of the Time cluster.  The destination it
\* gives is dropped; there is one server here.
ReadOne(a) == ReadAttribute({a}) /\ UNCHANGED timeVars

\* Mutant: the timer is periodic, as the class comment suggests.
TimerFiresPeriodic ==
    /\ armed > 0
    /\ Request(Attrs)
    /\ Len(requests) + Len(messages) < 2
    /\ UNCHANGED <<remote, store, messages, queue, seen, writer, bounds,
                   isSync, clock, tz, armed>>

\* ScheduledTask::timerCallback: syncRTC, then the task deletes itself.
TimerFires ==
    /\ armed > 0
    /\ armed' = armed - 1
    /\ Request(Attrs)
    /\ UNCHANGED <<remote, store, messages, queue, seen, writer, bounds,
                   isSync, clock, tz>>

ForClient(call) == call.role = "client" /\ call.handler = 1

\* Mutant: no new timer when the answer did not carry the time.
SyncOnlyWithTime ==
    /\ RunHandler
    /\ ForClient(Head(queue))
    /\ clock' = IF Time \in Head(queue).attrs THEN store["client"][Time] ELSE clock
    /\ tz' = IF Head(queue).attrs \intersect ZoneAttrs # {} THEN "set" ELSE "empty"
    /\ isSync' = TRUE
    /\ armed' = IF Time \in Head(queue).attrs THEN armed + 1 ELSE armed

\* processSync: whatever the event carries, TZ is set anew, the clock counts as
\* synchronised and the next sync is scheduled.  settimeofday may fail.
ProcessSync ==
    /\ RunHandler
    /\ ForClient(Head(queue))
    /\ \/ Time \in Head(queue).attrs /\ clock' = store["client"][Time]
       \/ UNCHANGED clock
    /\ tz' = IF Head(queue).attrs \intersect ZoneAttrs # {} THEN "set" ELSE "empty"
    /\ isSync' = TRUE
    /\ armed' = armed + 1

RunOther == /\ RunHandler
            /\ ~ForClient(Head(queue))
            /\ UNCHANGED timeVars

Next == \/ SyncRTC
        \/ \E a \in Attrs : ReadOne(a)
        \/ TimerFires
        \/ ProcessSync
        \/ RunOther
        \/ Deliver /\ UNCHANGED timeVars
        \/ Reply /\ UNCHANGED timeVars
        \/ ClusterEnvironment /\ UNCHANGED timeVars

(***************************************************************************)
(* The Zigbee task, the event loop and the timers are scheduled, and the   *)
(* coordinator answers what reaches it.  A message may be lost, up to      *)
(* MaxLosses times.                                                        *)
(***************************************************************************)
Fairness == /\ WF_vars(TimerFires)
            /\ WF_vars(ProcessSync \/ RunOther)
            /\ WF_vars(Deliver /\ UNCHANGED timeVars)
            /\ WF_vars(Reply /\ UNCHANGED timeVars)

Spec == Init /\ [][Next]_vars /\ Fairness

-------------------------------------------------------------------------------
(* Properties *)

TypeOK == /\ ClusterTypeOK
          /\ isSync \in BOOLEAN
          /\ clock \in Versions
          /\ tz \in {"unset", "empty", "set"}
          /\ armed \in Nat

NumWhere(s, Test(_)) == Cardinality({i \in DOMAIN s : Test(s[i])})

\* Every read of the Time cluster that the application ever makes, whatever it
\* reads, becomes a sync that goes round for ever (request, answer, processSync,
\* timer) until one of its messages is lost: syncs in progress or scheduled are
\* exactly the reads made minus the messages lost.
SyncsConserved ==
    armed + Len(requests)
        + NumWhere(messages, LAMBDA m : m.kind = "READ_RESP")
        + NumWhere(queue, ForClient)
      = calls - lost

\* While fewer messages were lost than reads were made, the clock goes on being
\* synchronised every month.
KeepsSyncing == []<>(calls = lost) \/ []<><<TimerFires>>_vars

\* "Client app shall call syncRTC once, then the sync process will be trigger
\* every month" (zbTimeClusterClient.h:31): each syncRTC is followed by a timer
\* for the next one.  One lost message ends it.
SyncedEveryMonth == (\E i \in DOMAIN requests : requests[i] = Attrs) ~> armed > 0
===============================================================================
