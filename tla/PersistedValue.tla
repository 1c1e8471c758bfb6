----------------------------- MODULE PersistedValue -----------------------------
(***************************************************************************)
(* src/persistedValue: values kept in the NVS flash.  An object reads its  *)
(* key when it is constructed, keeps the value in RAM, and writes it back  *)
(* when save() is called or the object is destroyed.  All objects share    *)
(* one static NVS handle, opened by the first constructor and closed by    *)
(* any destructor.                                                         *)
(*                                                                         *)
(* An object is named by its key and used by one task at a time, objects   *)
(* by different tasks.  The handle has no lock.  The flash (external)      *)
(* keeps what was committed across power losses and aborts; what was       *)
(* written and not committed may or may not survive.                       *)
(***************************************************************************)
EXTENDS Naturals

CONSTANTS NumberKeys,   \* objects PersistedValue<integer or blob>
          StringKeys,   \* objects PersistedValue<std::string>
          Values,
          Empty,        \* the default-constructed string
          None,         \* key not in the flash
          MaxReboots    \* bound: power losses and aborts

ASSUME PersistedAssumption ==
    /\ NumberKeys \intersect StringKeys = {}
    /\ Empty \in Values /\ None \notin Values
    /\ MaxReboots \in Nat

Keys == NumberKeys \union StringKeys

\* A string read from the flash keeps the terminating NUL as its last character.
Texts == [v : Values, nul : BOOLEAN]
Plain(v) == [v |-> v, nul |-> FALSE]

VARIABLES
    nvs,        \* what nvs_get returns for each key
    durable,    \* what is sure to survive a reboot
    handle,     \* _handle: "none" (-1), "open", or "stale" (closed, not yet -1)
    value,      \* _value of each object
    pc,         \* where each object is (see At)
    destroyed,  \* history: a destructor has run since the last boot
    changed,    \* history: the objects that setValue was called on since boot
    saved,      \* history: what the last save() of each key committed, or
                \*   None when it has not saved or is writing again
    reboots

ram == <<handle, value, pc, destroyed, changed>>
vars == <<nvs, durable, ram, saved, reboots>>

(***************************************************************************)
(* "gone"     not constructed                                              *)
(* "open"     in the constructor, _handle was -1: before nvs_open           *)
(* "load"     in the constructor, before readValue                         *)
(* "live"     no method running                                            *)
(* "compare"  in save(), before readValue                                  *)
(* "same"     save() found the value in the flash                          *)
(* "write" "commit"  save() is about to write, to commit                   *)
(* "d..."     the same, called by the destructor                           *)
(* "dclose" "dforget"  about to close the handle, to set it to -1          *)
(***************************************************************************)
SaveAt == {"compare", "same", "write", "commit"}
DestroyAt == {"dcompare", "dsame", "dwrite", "dcommit", "dclose", "dforget"}
At == {"gone", "open", "load", "live"} \union SaveAt \union DestroyAt

Comparing(k) == pc[k] \in {"compare", "dcompare"}
Same(k)      == pc[k] \in {"same", "dsame"}
Writing(k)   == pc[k] \in {"write", "dwrite"}
Committing(k) == pc[k] \in {"commit", "dcommit"}

Goto(k, place) == pc' = [pc EXCEPT ![k] = place]

\* save() goes on at `place`, or at `dplace` when the destructor called it.
Within(k, place, dplace) ==
    Goto(k, IF pc[k] \in DestroyAt THEN dplace ELSE place)

Init == /\ nvs = [k \in Keys |-> None]
        /\ durable = nvs
        /\ handle = "none"
        /\ value = [k \in Keys |-> Plain(Empty)]
        /\ pc = [k \in Keys |-> "gone"]
        /\ destroyed = FALSE /\ changed = {}
        /\ saved = nvs
        /\ reboots = 0

-------------------------------------------------------------------------------
\* What readValue leaves in a variable that held `before`.
Stored(k) == [v |-> nvs[k], nul |-> k \in StringKeys]

\* Mutant: a missing key is not told from a value.
FoundUnchecked(k) == handle = "open"

Found(k) == handle = "open" /\ nvs[k] # None
ReadOver(k, before) == IF Found(k) THEN Stored(k) ELSE before

\* `T read;` is uninitialised for numbers and empty for strings.
Fresh(k) == IF k \in StringKeys THEN {Plain(Empty)} ELSE {Plain(v) : v \in Values}

-------------------------------------------------------------------------------
(* Constructor *)

\* Mutant: the handle is opened once in the life of the flash.
ConstructOpensOnce(k, default) ==
    /\ pc[k] = "gone"
    /\ value' = [value EXCEPT ![k] = Plain(default)]
    /\ changed' = changed \ {k}
    /\ Goto(k, IF handle = "none" /\ reboots = 0 THEN "open" ELSE "load")
    /\ UNCHANGED <<nvs, durable, handle, destroyed, saved, reboots>>

\* The value is the caller's default; the handle is to be opened if it is -1.
Construct(k, default) ==
    /\ pc[k] = "gone"
    /\ value' = [value EXCEPT ![k] = Plain(default)]
    /\ changed' = changed \ {k}
    /\ Goto(k, IF handle = "none" THEN "open" ELSE "load")
    /\ UNCHANGED <<nvs, durable, handle, destroyed, saved, reboots>>

\* nvs_open, also when another constructor or destructor has set _handle since.
OpenHandle(k) ==
    /\ pc[k] = "open"
    /\ handle' = "open"
    /\ Goto(k, "load")
    /\ UNCHANGED <<nvs, durable, value, destroyed, changed, saved, reboots>>

\* Mutant: the value of the flash is not taken over.
LoadForgotten(k) ==
    /\ pc[k] = "load"
    /\ Goto(k, "live")
    /\ UNCHANGED <<nvs, durable, handle, value, destroyed, changed, saved, reboots>>

\* A failed read leaves the default and is only logged.
Load(k) ==
    /\ pc[k] = "load"
    /\ value' = [value EXCEPT ![k] = ReadOver(k, @)]
    /\ Goto(k, "live")
    /\ UNCHANGED <<nvs, durable, handle, destroyed, changed, saved, reboots>>

-------------------------------------------------------------------------------
(* setValue and save *)

SetValue(k, v) ==
    /\ pc[k] = "live"
    /\ value' = [value EXCEPT ![k] = Plain(v)]
    /\ changed' = changed \union {k}
    /\ UNCHANGED <<nvs, durable, handle, pc, destroyed, saved, reboots>>

Save(k) ==
    /\ pc[k] = "live"
    /\ Goto(k, "compare")
    /\ UNCHANGED <<nvs, durable, handle, value, destroyed, changed, saved, reboots>>

\* Mutant: the value is written whatever the flash holds.
CompareNothing(k) ==
    /\ Comparing(k)
    /\ Within(k, "write", "dwrite")
    /\ UNCHANGED <<nvs, durable, handle, value, destroyed, changed, saved, reboots>>

\* The result of readValue is not looked at.
Compare(k) ==
    /\ Comparing(k)
    /\ \E read \in Fresh(k) :
          IF value[k] # ReadOver(k, read) THEN Within(k, "write", "dwrite")
                                          ELSE Within(k, "same", "dsame")
    /\ UNCHANGED <<nvs, durable, handle, value, destroyed, changed, saved, reboots>>

NothingToWrite(k) ==
    /\ Same(k)
    /\ Within(k, "live", "dclose")
    /\ UNCHANGED <<nvs, durable, handle, value, destroyed, changed, saved, reboots>>

\* nvs_set_*; strings lose what follows their first NUL.
Write(k) ==
    /\ Writing(k)
    /\ handle = "open"
    /\ nvs' = [nvs EXCEPT ![k] = value[k].v]
    /\ saved' = [saved EXCEPT ![k] = None]
    /\ Within(k, "commit", "dcommit")
    /\ UNCHANGED <<durable, handle, value, destroyed, changed, reboots>>

\* Mutant: nvs_commit forgotten.
CommitForgotten(k) ==
    /\ Committing(k)
    /\ handle = "open"
    /\ saved' = [saved EXCEPT ![k] = value[k].v]
    /\ Within(k, "live", "dclose")
    /\ UNCHANGED <<nvs, durable, handle, value, destroyed, changed, reboots>>

\* nvs_commit: all that was written through the handle is now durable.
Commit(k) ==
    /\ Committing(k)
    /\ handle = "open"
    /\ durable' = nvs
    /\ saved' = [saved EXCEPT ![k] = value[k].v]
    /\ Within(k, "live", "dclose")
    /\ UNCHANGED <<nvs, handle, value, destroyed, changed, reboots>>

-------------------------------------------------------------------------------
(* Destructor: save(), nvs_close(_handle), _handle = -1 *)

Destroy(k) ==
    /\ pc[k] = "live"
    /\ destroyed' = TRUE
    /\ Goto(k, "dcompare")
    /\ UNCHANGED <<nvs, durable, handle, value, changed, saved, reboots>>

Close(k) ==
    /\ pc[k] = "dclose"
    /\ handle' = IF handle = "open" THEN "stale" ELSE handle
    /\ Goto(k, "dforget")
    /\ UNCHANGED <<nvs, durable, value, destroyed, changed, saved, reboots>>

Forget(k) ==
    /\ pc[k] = "dforget"
    /\ handle' = "none"
    /\ Goto(k, "gone")
    /\ UNCHANGED <<nvs, durable, value, destroyed, changed, saved, reboots>>

-------------------------------------------------------------------------------
(* Reboots *)

\* Each key keeps its last written or its last committed value.
Reboot == /\ reboots < MaxReboots
          /\ reboots' = reboots + 1
          /\ \E kept \in SUBSET Keys :
                nvs' = [k \in Keys |-> IF k \in kept THEN nvs[k] ELSE durable[k]]
          /\ durable' = nvs'
          /\ handle' = "none"
          /\ pc' = [k \in Keys |-> "gone"]
          /\ destroyed' = FALSE /\ changed' = {}
          /\ UNCHANGED <<value, saved>>

PowerLoss == Reboot

\* ESP_ERROR_CHECK of a write or a commit without an open handle.
Abort(k) == /\ Writing(k) \/ Committing(k)
            /\ handle # "open"
            /\ Reboot

Next == \/ PowerLoss
        \/ \E k \in Keys :
              \/ \E v \in Values : Construct(k, v) \/ SetValue(k, v)
              \/ OpenHandle(k) \/ Load(k)
              \/ Save(k) \/ Compare(k) \/ NothingToWrite(k) \/ Write(k) \/ Commit(k)
              \/ Destroy(k) \/ Close(k) \/ Forget(k)
              \/ Abort(k)

Spec == Init /\ [][Next]_vars

-------------------------------------------------------------------------------
(* Properties *)

TypeOK == /\ nvs \in [Keys -> Values \union {None}]
          /\ durable \in [Keys -> Values \union {None}]
          /\ handle \in {"none", "open", "stale"}
          /\ value \in [Keys -> Texts]
          /\ pc \in [Keys -> At]
          /\ destroyed \in BOOLEAN /\ changed \subseteq Keys
          /\ saved \in [Keys -> Values \union {None}]
          /\ reboots \in 0 .. MaxReboots

\* As long as no object was destroyed since boot, the shared handle is open
\* whenever an object reads, writes or commits: only a destructor of another
\* object can make save() abort the chip.
HandleOpenUntilDestruction ==
    (~destroyed /\ \E k \in Keys : pc[k] \notin {"gone", "open"}) => handle = "open"

\* What save() committed is what the next boot finds, whatever is lost or
\* aborted meanwhile, until the same object writes again.
SavedSurvives ==
    \A k \in Keys : saved[k] # None => nvs[k] = saved[k] /\ durable[k] = saved[k]

\* An object that was constructed over a saved value and not set since holds
\* that value, unless a destructor has interfered with the handle since boot.
RestoresSaved ==
    \A k \in Keys :
        (/\ pc[k] \notin {"gone", "open", "load"} /\ k \notin changed
         /\ ~destroyed /\ nvs[k] # None)
            => value[k].v = nvs[k]

\* save() spares the flash: a number is only written when the flash holds
\* another value ("to avoid writing same value", persistedValue.h:67).
\* (Strings are written again and again, see Texts.)
NumbersWrittenWhenNew ==
    \A k \in NumberKeys : Writing(k) => nvs[k] # value[k].v \/ destroyed
===============================================================================
