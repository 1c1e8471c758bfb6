-------------------------- MODULE PersistedValueProofs --------------------------
(***************************************************************************)
(* The invariants of PersistedValue for any number of objects, values and  *)
(* reboots.  None but the types is inductive:                              *)
(*   - the handle is open before the first destructor because no other     *)
(*     method closes it (HandleInv);                                       *)
(*   - what is committed is what save() wrote because the object's value   *)
(*     cannot change between nvs_set and nvs_commit (CommitInv);           *)
(*   - an object that nobody set holds what the flash holds because the    *)
(*     constructor could read it, the handle being open;                   *)
(*   - a number never carries the NUL that makes strings differ from their *)
(*     copy in the flash.                                                  *)
(***************************************************************************)
EXTENDS PersistedValue, TLAPS

\* No destructor has run, so none is running, and the first constructor opened
\* the handle.
HandleInv ==
    ~destroyed => /\ handle # "stale"
                  /\ \A k \in Keys : pc[k] \notin DestroyAt
                  /\ \A k \in Keys : pc[k] \notin {"gone", "open"} => handle = "open"

CommitInv == \A k \in Keys : Committing(k) => nvs[k] = value[k].v

NumbersPlain == \A k \in NumberKeys : ~value[k].nul

IInv == /\ TypeOK
        /\ HandleInv
        /\ CommitInv /\ SavedSurvives
        /\ RestoresSaved
        /\ NumbersPlain /\ NumbersWrittenWhenNew

-------------------------------------------------------------------------------
(* Types *)

LEMMA TypeInit == Init => TypeOK
  <1> SUFFICES ASSUME Init PROVE TypeOK
    OBVIOUS
  <1>1. Plain(Empty) \in Texts
    BY PersistedAssumption DEF Plain, Texts
  <1>2. nvs \in [Keys -> Values \union {None}]
    BY DEF Init
  <1>3. value \in [Keys -> Texts] /\ pc \in [Keys -> At]
    BY <1>1 DEF Init, At
  <1>4. durable = nvs /\ saved = nvs /\ handle = "none" /\ destroyed = FALSE
        /\ changed = {} /\ reboots = 0
    BY DEF Init
  <1>5. durable \in [Keys -> Values \union {None}] /\ saved \in [Keys -> Values \union {None}]
    BY <1>2, <1>4
  <1>6. reboots \in 0 .. MaxReboots
    BY <1>4, PersistedAssumption
  <1>7. QED
    BY <1>2, <1>3, <1>4, <1>5, <1>6 DEF TypeOK

LEMMA ReadOverType ==
  ASSUME TypeOK, NEW k \in Keys, NEW before \in Texts
  PROVE  ReadOver(k, before) \in Texts
  BY DEF TypeOK, ReadOver, Found, Stored, Texts

LEMMA RebootType ==
  ASSUME TypeOK, Reboot
  PROVE  TypeOK'
  <1>1. nvs' \in [Keys -> Values \union {None}]
    BY DEF TypeOK, Reboot
  <1>2. pc' \in [Keys -> At] /\ UNCHANGED <<value, saved>>
    BY DEF Reboot, At
  <1>3. reboots' \in 0 .. MaxReboots
    BY PersistedAssumption DEF TypeOK, Reboot
  <1>4. QED
    BY <1>1, <1>2, <1>3 DEF TypeOK, Reboot

LEMMA TypeNext ==
  ASSUME TypeOK, [Next]_vars
  PROVE  TypeOK'
  <1>1. CASE UNCHANGED vars
    BY <1>1 DEF TypeOK, vars, ram
  <1>2. CASE Reboot
    BY <1>2, RebootType
  <1>3. ASSUME NEW k \in Keys, NEW v \in Values, Construct(k, v) \/ SetValue(k, v)
        PROVE  TypeOK'
    <2>1. Plain(v) \in Texts
      BY DEF Plain, Texts
    <2>2. value' \in [Keys -> Texts]
      BY <1>3, <2>1 DEF TypeOK, Construct, SetValue
    <2>3. QED
      BY <1>3, <2>2 DEF TypeOK, Construct, SetValue, Goto, At
  <1>4. ASSUME NEW k \in Keys, Load(k)
        PROVE  TypeOK'
    <2>1. ReadOver(k, value[k]) \in Texts
      BY ReadOverType DEF TypeOK
    <2>2. QED
      BY <1>4, <2>1 DEF TypeOK, Load, Goto, At
  <1>5. ASSUME NEW k \in Keys, Save(k) \/ Compare(k) \/ NothingToWrite(k) \/ Destroy(k)
        PROVE  TypeOK'
    BY <1>5 DEF TypeOK, Save, Compare, NothingToWrite, Destroy, Goto, Within, At, SaveAt, DestroyAt
  <1>6. ASSUME NEW k \in Keys, Write(k) \/ Commit(k)
        PROVE  TypeOK'
    <2>1. value[k].v \in Values
      BY DEF TypeOK, Texts
    <2>2. QED
      BY <1>6, <2>1 DEF TypeOK, Write, Commit, Goto, Within, At, SaveAt, DestroyAt
  <1>7. ASSUME NEW k \in Keys, OpenHandle(k) \/ Close(k) \/ Forget(k)
        PROVE  TypeOK'
    BY <1>7 DEF TypeOK, OpenHandle, Close, Forget, Goto, At, DestroyAt
  <1>8. QED
    BY <1>1, <1>2, <1>3, <1>4, <1>5, <1>6, <1>7 DEF Next, PowerLoss, Abort

-------------------------------------------------------------------------------
(* The inductive invariant *)

LEMMA InvInit == Init => IInv
  <1> SUFFICES ASSUME Init PROVE IInv
    OBVIOUS
  <1>1. TypeOK
    BY TypeInit
  <1>2. HandleInv /\ CommitInv /\ RestoresSaved /\ NumbersWrittenWhenNew
    BY DEF Init, HandleInv, CommitInv, Committing, RestoresSaved, NumbersWrittenWhenNew, Writing,
           DestroyAt, Keys
  <1>3. SavedSurvives /\ NumbersPlain
    BY DEF Init, SavedSurvives, NumbersPlain, Plain, Keys
  <1>4. QED
    BY <1>1, <1>2, <1>3 DEF IInv

LEMMA HandleNext ==
  ASSUME TypeOK, HandleInv, [Next]_vars
  PROVE  HandleInv'
  <1>1. CASE UNCHANGED vars
    BY <1>1 DEF HandleInv, vars, ram
  <1>2. CASE Reboot
    BY <1>2 DEF HandleInv, Reboot, DestroyAt
  <1>3. ASSUME NEW k \in Keys, NEW v \in Values, Construct(k, v) \/ SetValue(k, v)
        PROVE  HandleInv'
    BY <1>3 DEF TypeOK, HandleInv, Construct, SetValue, Goto, DestroyAt
  <1>4. ASSUME NEW k \in Keys, OpenHandle(k) \/ Load(k) \/ Save(k)
        PROVE  HandleInv'
    BY <1>4 DEF TypeOK, HandleInv, OpenHandle, Load, Save, Goto, DestroyAt
  <1>5. ASSUME NEW k \in Keys, Compare(k) \/ NothingToWrite(k) \/ Write(k) \/ Commit(k)
        PROVE  HandleInv'
    <2>1. UNCHANGED <<handle, destroyed>>
      BY <1>5 DEF Compare, NothingToWrite, Write, Commit
    <2>2. pc[k] \notin {"gone", "open"}
      BY <1>5 DEF Compare, NothingToWrite, Write, Commit, Comparing, Same, Writing, Committing
    <2>3. ASSUME pc[k] \notin DestroyAt
          PROVE  \E place \in SaveAt \union {"live"} : pc' = [pc EXCEPT ![k] = place]
      BY <1>5, <2>3 DEF Compare, NothingToWrite, Write, Commit, Within, Goto, SaveAt
    <2>4. QED
      BY <2>1, <2>2, <2>3 DEF TypeOK, HandleInv, SaveAt, DestroyAt
  <1>6. ASSUME NEW k \in Keys, Destroy(k) \/ Close(k) \/ Forget(k)
        PROVE  HandleInv'
    BY <1>6 DEF HandleInv, Destroy, Close, Forget, DestroyAt
  <1>7. QED
    BY <1>1, <1>2, <1>3, <1>4, <1>5, <1>6 DEF Next, PowerLoss, Abort

\* nvs_set and nvs_commit find the same value in the object: nobody sets it in
\* between.
LEMMA CommitNext ==
  ASSUME TypeOK, CommitInv, [Next]_vars
  PROVE  CommitInv'
  <1>1. CASE UNCHANGED vars
    BY <1>1 DEF CommitInv, Committing, vars, ram
  <1>2. CASE Reboot
    BY <1>2 DEF CommitInv, Committing, Reboot
  <1>3. ASSUME NEW k \in Keys, NEW v \in Values, Construct(k, v) \/ SetValue(k, v)
        PROVE  CommitInv'
    BY <1>3 DEF TypeOK, CommitInv, Committing, Construct, SetValue, Goto
  <1>4. ASSUME NEW k \in Keys, \/ OpenHandle(k) \/ Load(k) \/ Save(k)
                            \/ Destroy(k) \/ Close(k) \/ Forget(k)
        PROVE  CommitInv'
    BY <1>4 DEF TypeOK, CommitInv, Committing, OpenHandle, Load, Save, Destroy, Close, Forget, Goto
  <1>5. ASSUME NEW k \in Keys, Compare(k) \/ NothingToWrite(k) \/ Commit(k)
        PROVE  CommitInv'
    <2>1. UNCHANGED <<nvs, value>>
      BY <1>5 DEF Compare, NothingToWrite, Commit
    <2>2. \E place \in {"write", "dwrite", "same", "dsame", "live", "dclose"} :
              pc' = [pc EXCEPT ![k] = place]
      BY <1>5 DEF Compare, NothingToWrite, Commit, Within, Goto
    <2>3. QED
      BY <2>1, <2>2 DEF TypeOK, CommitInv, Committing
  <1>6. ASSUME NEW k \in Keys, Write(k)
        PROVE  CommitInv'
    <2>1. UNCHANGED value /\ nvs' = [nvs EXCEPT ![k] = value[k].v]
      BY <1>6 DEF Write
    <2>2. \E place \in {"commit", "dcommit"} : pc' = [pc EXCEPT ![k] = place]
      BY <1>6 DEF Write, Within, Goto
    <2>3. QED
      BY <2>1, <2>2 DEF TypeOK, CommitInv, Committing
  <1>7. QED
    BY <1>1, <1>2, <1>3, <1>4, <1>5, <1>6 DEF Next, PowerLoss, Abort

LEMMA SavedNext ==
  ASSUME TypeOK, CommitInv, SavedSurvives, [Next]_vars
  PROVE  SavedSurvives'
  <1>1. CASE UNCHANGED <<nvs, durable, saved>>
    BY <1>1 DEF SavedSurvives
  <1>2. CASE Reboot
    BY <1>2 DEF TypeOK, SavedSurvives, Reboot
  <1>3. ASSUME NEW k \in Keys, Write(k)
        PROVE  SavedSurvives'
    BY <1>3 DEF TypeOK, SavedSurvives, Write
  <1>4. ASSUME NEW k \in Keys, Commit(k)
        PROVE  SavedSurvives'
    BY <1>4 DEF TypeOK, CommitInv, SavedSurvives, Commit
  <1>5. QED
    BY <1>1, <1>2, <1>3, <1>4 DEF Next, PowerLoss, Abort, vars, Construct, SetValue, OpenHandle,
       Load, Save,
       Compare, NothingToWrite, Destroy, Close, Forget

LEMMA RestoresNext ==
  ASSUME TypeOK, HandleInv, RestoresSaved, [Next]_vars
  PROVE  RestoresSaved'
  <1>1. CASE UNCHANGED vars
    BY <1>1 DEF RestoresSaved, vars, ram
  <1>2. CASE Reboot
    BY <1>2 DEF RestoresSaved, Reboot
  <1>3. ASSUME NEW k \in Keys, NEW v \in Values, Construct(k, v) \/ SetValue(k, v)
        PROVE  RestoresSaved'
    BY <1>3 DEF TypeOK, RestoresSaved, Construct, SetValue, Goto
  <1>4. ASSUME NEW k \in Keys, Load(k)
        PROVE  RestoresSaved'
    <2>1. ~destroyed => handle = "open"
      BY <1>4 DEF HandleInv, Load
    <2>2. ~destroyed /\ nvs[k] # None => value'[k].v = nvs[k]
      BY <1>4, <2>1 DEF TypeOK, Load, ReadOver, Found, Stored
    <2>3. QED
      BY <1>4, <2>2 DEF TypeOK, RestoresSaved, Load, Goto
  <1>5. ASSUME NEW k \in Keys, Save(k) \/ Compare(k) \/ NothingToWrite(k) \/ Commit(k)
        PROVE  RestoresSaved'
    <2>1. UNCHANGED <<nvs, value, changed, destroyed>>
      BY <1>5 DEF Save, Compare, NothingToWrite, Commit
    <2>2. pc[k] \notin {"gone", "open", "load"} /\ \E place \in At : pc' = [pc EXCEPT ![k] = place]
      BY <1>5 DEF Save, Compare, NothingToWrite, Commit, Comparing, Same, Committing, Within, Goto,
                  At, SaveAt, DestroyAt
    <2>3. QED
      BY <2>1, <2>2 DEF TypeOK, RestoresSaved
  <1>6. ASSUME NEW k \in Keys, Write(k)
        PROVE  RestoresSaved'
    <2>1. UNCHANGED <<value, changed, destroyed>> /\ nvs' = [nvs EXCEPT ![k] = value[k].v]
      BY <1>6 DEF Write
    <2>2. pc[k] \notin {"gone", "open", "load"} /\ \E place \in At : pc' = [pc EXCEPT ![k] = place]
      BY <1>6 DEF Write, Writing, Within, Goto, At, SaveAt, DestroyAt
    <2>3. QED
      BY <2>1, <2>2 DEF TypeOK, RestoresSaved
  <1>7. ASSUME NEW k \in Keys, OpenHandle(k) \/ Destroy(k) \/ Close(k) \/ Forget(k)
        PROVE  RestoresSaved'
    BY <1>7 DEF TypeOK, RestoresSaved, OpenHandle, Destroy, Close, Forget, Goto
  <1>8. QED
    BY <1>1, <1>2, <1>3, <1>4, <1>5, <1>6, <1>7 DEF Next, PowerLoss, Abort

LEMMA NumbersPlainNext ==
  ASSUME TypeOK, NumbersPlain, [Next]_vars
  PROVE  NumbersPlain'
  <1>1. CASE UNCHANGED value
    BY <1>1 DEF NumbersPlain
  <1>2. ASSUME NEW k \in Keys, NEW v \in Values, Construct(k, v) \/ SetValue(k, v)
        PROVE  NumbersPlain'
    BY <1>2 DEF TypeOK, NumbersPlain, Keys, Construct, SetValue, Plain
  <1>3. ASSUME NEW k \in Keys, Load(k)
        PROVE  NumbersPlain'
    BY <1>3, PersistedAssumption DEF TypeOK, NumbersPlain, Keys, Load, ReadOver, Stored
  <1>4. QED
    BY <1>1, <1>2, <1>3 DEF Next, PowerLoss, Abort, Reboot, vars, ram, OpenHandle, Save, Compare,
       NothingToWrite, Write, Commit, Destroy, Close, Forget

\* save() decides to write when the value differs from what it read; a missing
\* key, which it does not read, is not the value of any object.
LEMMA WrittenNext ==
  ASSUME TypeOK, HandleInv, NumbersPlain, NumbersWrittenWhenNew, [Next]_vars
  PROVE  NumbersWrittenWhenNew'
  <1>1. CASE UNCHANGED vars
    BY <1>1 DEF NumbersWrittenWhenNew, Writing, vars, ram
  <1>2. CASE Reboot
    BY <1>2 DEF NumbersWrittenWhenNew, Writing, Reboot, Keys
  <1>3. ASSUME NEW k \in Keys, NEW v \in Values, Construct(k, v) \/ SetValue(k, v)
        PROVE  NumbersWrittenWhenNew'
    BY <1>3 DEF TypeOK, NumbersWrittenWhenNew, Writing, Construct, SetValue, Goto, Keys
  <1>4. ASSUME NEW k \in Keys, \/ OpenHandle(k) \/ Load(k) \/ Save(k)
                            \/ Destroy(k) \/ Close(k) \/ Forget(k)
        PROVE  NumbersWrittenWhenNew'
    BY <1>4 DEF TypeOK, NumbersWrittenWhenNew, Writing, OpenHandle, Load, Save, Destroy, Close,
                Forget, Goto, Keys
  <1>5. ASSUME NEW k \in Keys, NothingToWrite(k) \/ Commit(k)
        PROVE  NumbersWrittenWhenNew'
    <2>1. UNCHANGED <<nvs, value, destroyed>>
      BY <1>5 DEF NothingToWrite, Commit
    <2>2. \E place \in {"live", "dclose"} : pc' = [pc EXCEPT ![k] = place]
      BY <1>5 DEF NothingToWrite, Commit, Within, Goto
    <2>3. QED
      BY <2>1, <2>2 DEF TypeOK, NumbersWrittenWhenNew, Writing, Keys
  <1>6. ASSUME NEW k \in Keys, Compare(k)
        PROVE  NumbersWrittenWhenNew'
    <2>1. UNCHANGED <<nvs, value, destroyed>>
      BY <1>6 DEF Compare
    <2>2. \E place \in At : pc' = [pc EXCEPT ![k] = place]
      BY <1>6 DEF Compare, Within, Goto, At, SaveAt, DestroyAt
    <2>3. ASSUME ~destroyed, k \in NumberKeys, Writing(k)'
          PROVE  nvs[k] # value[k].v
      <3>1. handle = "open"
        BY <1>6, <2>3 DEF HandleInv, Compare, Comparing
      <3>2. PICK read \in Fresh(k) : value[k] # ReadOver(k, read)
        BY <1>6, <2>3 DEF TypeOK, Compare, Within, Goto, Writing
      <3>3. CASE nvs[k] = None
        BY <3>3, PersistedAssumption DEF TypeOK, Texts
      <3>4. CASE nvs[k] # None
        <4>1. value[k] # [v |-> nvs[k], nul |-> FALSE]
          <5>1. ReadOver(k, read) = Stored(k)
            BY <3>1, <3>4 DEF ReadOver, Found
          <5>2. Stored(k) = [v |-> nvs[k], nul |-> FALSE]
            <6>1. (k \in StringKeys) = FALSE
              BY <2>3, PersistedAssumption
            <6>2. QED
              BY <6>1, Zenon DEF Stored
          <5>3. QED
            BY <3>2, <5>1, <5>2
        <4>2. value[k] = [v |-> value[k].v, nul |-> FALSE]
          BY <2>3 DEF TypeOK, Texts, NumbersPlain
        <4>3. QED
          BY <4>1, <4>2
      <3>5. QED
        BY <3>3, <3>4
    <2>4. QED
      BY <2>1, <2>2, <2>3 DEF TypeOK, NumbersWrittenWhenNew, Writing, Keys
  <1>7. ASSUME NEW k \in Keys, Write(k)
        PROVE  NumbersWrittenWhenNew'
    <2>1. UNCHANGED <<value, destroyed>> /\ nvs' = [nvs EXCEPT ![k] = value[k].v]
      BY <1>7 DEF Write
    <2>2. \E place \in {"commit", "dcommit"} : pc' = [pc EXCEPT ![k] = place]
      BY <1>7 DEF Write, Within, Goto
    <2>3. QED
      BY <2>1, <2>2 DEF TypeOK, NumbersWrittenWhenNew, Writing, Keys
  <1>8. QED
    BY <1>1, <1>2, <1>3, <1>4, <1>5, <1>6, <1>7 DEF Next, PowerLoss, Abort

-------------------------------------------------------------------------------
(* The theorems *)

\* The inductive invariant of an object's methods, the shared handle and the flash.
THEOREM PersistedCorrect == Spec => []IInv
  <1>1. IInv /\ [Next]_vars => IInv'
    BY TypeNext, HandleNext, CommitNext, SavedNext, RestoresNext, NumbersPlainNext, WrittenNext
       DEF IInv
  <1>2. QED
    BY <1>1, InvInit, PTL DEF Spec

\* Types, for any keys and values.
THEOREM PersistedTypes == Spec => []TypeOK
  <1>1. IInv => TypeOK
    BY DEF IInv
  <1>2. QED
    BY <1>1, PersistedCorrect, PTL

\* Only a destructor can leave an object without the shared handle
\* (persistedValue.h: the destructor closes it for all of them).
THEOREM HandleOpenHolds == Spec => []HandleOpenUntilDestruction
  <1>1. IInv => HandleOpenUntilDestruction
    BY DEF IInv, HandleInv, HandleOpenUntilDestruction
  <1>2. QED
    BY <1>1, PersistedCorrect, PTL

\* What save() committed survives any number of reboots and of methods of other
\* objects, interleaved in any way.
THEOREM SavedSurvivesHolds == Spec => []SavedSurvives
  <1>1. IInv => SavedSurvives
    BY DEF IInv
  <1>2. QED
    BY <1>1, PersistedCorrect, PTL

\* A constructor takes the saved value over, and nobody but setValue changes it.
THEOREM RestoresSavedHolds == Spec => []RestoresSaved
  <1>1. IInv => RestoresSaved
    BY DEF IInv
  <1>2. QED
    BY <1>1, PersistedCorrect, PTL

\* save() writes a number only when the flash holds another one.
THEOREM NumbersWrittenWhenNewHolds == Spec => []NumbersWrittenWhenNew
  <1>1. IInv => NumbersWrittenWhenNew
    BY DEF IInv
  <1>2. QED
    BY <1>1, PersistedCorrect, PTL
===============================================================================
