----------------------------- MODULE MCZbTimeClient -----------------------------
(* Three attributes, one of them unknown to the client, and two handlers.
   Cluster objects are enumerated, with a two-bit number for the 16-bit ones. *)
EXTENDS ZbTimeClient

Before == INSTANCE ZbAttributes WITH Short <- 4

\* A Time cluster as constructed, with a zone, with a custom attribute added.
TimeClusters ==
    UNION {LET new  == Before!NewTime(role, time, 1)
               zone == [new EXCEPT !.list = Before!AddAttribute("time", @, "zone", time)]
           IN  {new, zone} \union {[c EXCEPT !.list = Before!AddCustomAttribute(@, "own", time)] : c \in {new, zone}}
           : role \in Roles, time \in 0..7}

CustomClusters ==
    {[Before!NewCustom(role) EXCEPT !.list =
        [i \in 1..n |-> Before!Attr(<<"a", "b", "c">>[i], i, "own")]] : role \in Roles, n \in 0..3}

\* Every one of these clusters keeps its attributes when it is copied
\* (CopyKeepsAttributes, src/zigbee/zbCluster.cpp:50-61).  Nothing here changes
\* once the device runs: checked in the initial states.
CopiesKeepAttributes ==
    Init => \A c \in TimeClusters \union CustomClusters : Before!CopyKeepsAttributes(c)

\* Every one of these clusters finds its attributes once it is mounted
\* (MountedFindsItsOwn, src/zigbee/include/zbCluster.h:139-141).  A client asks for
\* those of the server instead (src/zigbee/zbCluster.cpp:84-85).
MountedFindTheirAttributes ==
    Init => \A c \in TimeClusters \union CustomClusters : Before!MountedFindsItsOwn(c)
===============================================================================
