------------------------ MODULE EventHistory_proofs ------------------------
(***************************************************************************)
(* Proofs about the event history, for any number of slots, of callers and *)
(* of events: the list is never in two hands, and the flash follows it.    *)
(***************************************************************************)
EXTENDS EventHistory, Integers, TLAPS

(* Arithmetic of a ring of M slots, in which item n lies in slot n % M.    *)

(* No multiple of M lies strictly between 0 and M. *)
LEMMA NoMultiple ==
  ASSUME NEW M \in Nat \ {0}, NEW k \in Int, 0 < M * k, M * k < M
  PROVE  FALSE
<1>1. CASE k <= 0
  <2>1. M * k <= 0
    BY <1>1
  <2> QED
    BY <2>1
<1>2. CASE k >= 1
  <2>1. M * (k - 1) >= 0
    BY <1>2
  <2>2. M * k = M * (k - 1) + M
    BY <1>2
  <2> QED
    BY <2>1, <2>2
<1> QED
  BY <1>1, <1>2

(* Division with a remainder. *)
LEMMA DivMod ==
  ASSUME NEW M \in Nat \ {0}, NEW n \in Nat
  PROVE  n = M * (n \div M) + (n % M) /\ n \div M \in Nat /\ n % M \in 0..M-1
  OBVIOUS

(* Of M items in a row no two lie in the same slot: writing item n leaves  *)
(* the M - 1 items before it alone.                                        *)
LEMMA Apart ==
  ASSUME NEW M \in Nat \ {0}, NEW n \in Nat, NEW i \in 1..M-1, i <= n
  PROVE  (n - i) % M # n % M
<1> SUFFICES ASSUME (n - i) % M = n % M
             PROVE  FALSE
  OBVIOUS
<1> DEFINE p == n \div M
           q == (n - i) \div M
<1>1. n - i \in Nat
  OBVIOUS
<1>2. n = M * p + (n % M) /\ p \in Nat /\ n % M \in Nat
  <2>1. n = M * p + (n % M) /\ p \in Nat /\ n % M \in 0..M-1
    BY DivMod
  <2> QED
    BY <2>1
<1>3. n - i = M * q + ((n - i) % M) /\ q \in Nat
  BY <1>1, DivMod
<1> HIDE DEF p, q
<1>4. i = M * p - M * q
  <2>1. M * p \in Int /\ M * q \in Int
    BY <1>2, <1>3
  <2> QED
    BY <1>2, <1>3, <2>1
<1>5. M * p - M * q = M * (p - q) /\ p - q \in Int
  BY <1>2, <1>3
<1>6. 0 < M * (p - q) /\ M * (p - q) < M
  BY <1>4, <1>5
<1> QED
  BY <1>5, <1>6, NoMultiple

-----------------------------------------------------------------------------

EventInv == MutualExclusion /\ SavedBeforeGive /\ FlashFollows

(* The slot of the n-th event exists. *)
LEMMA SlotOf == ASSUME NEW n \in Nat PROVE n % N \in Slots
  BY EventHistoryAssumption DEF Slots

LEMMA EventInit == Init => EventInv
<1> SUFFICES ASSUME Init PROVE EventInv
  OBVIOUS
<1> USE EventHistoryAssumption DEF Init
<1>1. TypeOK
  BY DEF TypeOK, EmptyList, Slots
<1>2. MutualExclusion
  BY <1>1 DEF MutualExclusion, Critical
<1>3. SavedBeforeGive /\ FlashFollows
  BY DEF SavedBeforeGive, FlashFollows
<1> QED
  BY <1>2, <1>3 DEF EventInv

(* Types. *)
LEMMA TypeStep == EventInv /\ [Next]_vars => TypeOK'
<1> SUFFICES ASSUME EventInv, [Next]_vars PROVE TypeOK'
  OBVIOUS
<1> USE EventHistoryAssumption
    DEF EventInv, MutualExclusion, TypeOK, Adding, Reading, Erasing, Goto, read, list
<1>1. ASSUME NEW c \in Callers, DAT_nAddEventHistory(c) PROVE TypeOK'
  BY <1>1 DEF DAT_nAddEventHistory
<1>2. ASSUME NEW c \in Callers, Step(c) PROVE TypeOK'
  <2>1. CASE TakeEventList(c) \/ TakeTimeout(c)
    BY <2>1 DEF TakeEventList, TakeTimeout
  <2>2. CASE WriteSlot(c)
    <3>1. [time |-> clock, data |-> unData[c]] \in Entry
      BY DEF Entry
    <3>2. tEvent' \in [Slots -> Entry \cup {INVALID}]
      BY <2>2, <3>1, SlotOf DEF WriteSlot
    <3> QED
      BY <2>2, <3>2 DEF WriteSlot
  <2>3. CASE Count(c)
    <3>1. tEvent[unEventNum % N] \in Entry \cup {INVALID}
      BY SlotOf
    <3> QED
      BY <2>3, <3>1 DEF Count, Counted
  <2>4. CASE SaveEventList(c)
    BY <2>4 DEF SaveEventList
  <2>5. CASE GiveEventList(c)
    BY <2>5 DEF GiveEventList, Give
  <2> QED
    BY <1>2, <2>1, <2>2, <2>3, <2>4, <2>5 DEF Step
<1>3. CASE DAT_nGetEventHistory
  <2>1. Latest \in Entry \cup {INVALID}
    <3>1. CASE unEventNum = 0
      BY <3>1 DEF Latest
    <3>2. CASE unEventNum # 0
      BY <3>2, SlotOf DEF Latest
    <3> QED
      BY <3>1, <3>2
  <2> QED
    BY <1>3, <2>1 DEF DAT_nGetEventHistory
<1>4. CASE GetIndex
  <2>1. (unEventNum - 1) % N \in Slots
    BY <1>4, SlotOf DEF GetIndex, Indexed
  <2> QED
    BY <1>4, <2>1 DEF GetIndex, Indexed
<1>5. CASE GetNothing \/ GetEvent \/ GetTimeout
  BY <1>5 DEF GetNothing, GetEvent, GetTimeout
<1>6. CASE DAT_nFlashDataClean \/ EraseTake \/ EraseTimeout
  BY <1>6 DEF DAT_nFlashDataClean, EraseTake, EraseTimeout
<1>7. CASE Clear
  BY <1>7 DEF Clear
<1>8. CASE Tick
  BY <1>8 DEF Tick
<1>9. CASE Reboot
  BY <1>9 DEF Reboot, Slots
<1>10. CASE UNCHANGED vars
  BY <1>10 DEF vars
<1> QED
  BY <1>1, <1>2, <1>3, <1>4, <1>5, <1>6, <1>7, <1>8, <1>9, <1>10 DEF Next, HttpStep

(* The semaphore: who is in a critical section holds it. *)
LEMMA HolderStep == EventInv /\ [Next]_vars => MutualExclusion'
<1> SUFFICES ASSUME EventInv, [Next]_vars PROVE MutualExclusion'
  OBVIOUS
<1> USE EventHistoryAssumption
    DEF EventInv, MutualExclusion, TypeOK, Critical, Adding, Reading, Erasing, Goto
<1>1. TypeOK'
  BY TypeStep
<1>2. ASSUME NEW c \in Callers, DAT_nAddEventHistory(c) PROVE MutualExclusion'
  BY <1>1, <1>2 DEF DAT_nAddEventHistory
<1>3. ASSUME NEW c \in Callers, Step(c) PROVE MutualExclusion'
  <2>1. CASE TakeEventList(c) \/ TakeTimeout(c)
    BY <1>1, <2>1 DEF TakeEventList, TakeTimeout
  <2>2. CASE WriteSlot(c)
    BY <1>1, <2>2 DEF WriteSlot
  <2>3. CASE Count(c)
    BY <1>1, <2>3 DEF Count, Counted
  <2>4. CASE SaveEventList(c)
    BY <1>1, <2>4 DEF SaveEventList
  <2>5. CASE GiveEventList(c)
    BY <1>1, <2>5 DEF GiveEventList, Give
  <2> QED
    BY <1>3, <2>1, <2>2, <2>3, <2>4, <2>5 DEF Step
<1>4. CASE DAT_nGetEventHistory \/ GetNothing \/ GetEvent \/ GetTimeout
  BY <1>1, <1>4 DEF DAT_nGetEventHistory, GetNothing, GetEvent, GetTimeout
<1>5. CASE GetIndex
  BY <1>1, <1>5 DEF GetIndex, Indexed
<1>6. CASE DAT_nFlashDataClean \/ EraseTake \/ EraseTimeout \/ Clear
  BY <1>1, <1>6 DEF DAT_nFlashDataClean, EraseTake, EraseTimeout, Clear
<1>7. CASE Tick
  BY <1>1, <1>7 DEF Tick
<1>8. CASE Reboot
  BY <1>1, <1>8 DEF Reboot
<1>9. CASE UNCHANGED vars
  BY <1>1, <1>9 DEF vars
<1> QED
  BY <1>2, <1>3, <1>4, <1>5, <1>6, <1>7, <1>8, <1>9 DEF Next, HttpStep

(* The list is changed only by the holder, who then saves it. *)
LEMMA ListStep ==
    EventInv /\ [Next]_vars => (SavedBeforeGive /\ FlashFollows)'
<1> SUFFICES ASSUME EventInv, [Next]_vars PROVE (SavedBeforeGive /\ FlashFollows)'
  OBVIOUS
<1> USE EventHistoryAssumption
    DEF EventInv, MutualExclusion, SavedBeforeGive, FlashFollows, TypeOK, Critical,
        Adding, Reading, Erasing, Goto, list
<1>1. ASSUME NEW c \in Callers, DAT_nAddEventHistory(c)
      PROVE  (SavedBeforeGive /\ FlashFollows)'
  BY <1>1 DEF DAT_nAddEventHistory
<1>2. ASSUME NEW c \in Callers, Step(c) PROVE (SavedBeforeGive /\ FlashFollows)'
  <2>1. CASE TakeEventList(c) \/ TakeTimeout(c)
    BY <2>1 DEF TakeEventList, TakeTimeout
  <2>2. CASE WriteSlot(c)
    <3>1. sem = c /\ sem' = c
      BY <2>2 DEF WriteSlot
    <3>2. \A d \in Callers : pc'[d] \notin {"give", "clear_give"}
      BY <2>2, <3>1 DEF WriteSlot
    <3> QED
      BY <3>1, <3>2
  <2>3. CASE Count(c)
    <3>1. UNCHANGED <<sem, tEvent, flash>> /\ pc' = [pc EXCEPT ![c] = "save"] /\ pc[c] = "count"
      BY <2>3 DEF Count, Counted
    <3>2. sem = c /\ sem' = c
      BY <3>1
    <3>3. \A d \in Callers : pc'[d] \notin {"give", "clear_give"}
      BY <3>1, <3>2
    <3> QED
      BY <3>2, <3>3
  <2>4. CASE SaveEventList(c)
    BY <2>4 DEF SaveEventList
  <2>5. CASE GiveEventList(c)
    BY <2>5 DEF GiveEventList, Give
  <2> QED
    BY <1>2, <2>1, <2>2, <2>3, <2>4, <2>5 DEF Step
<1>3. CASE DAT_nGetEventHistory \/ GetNothing \/ GetEvent \/ GetTimeout
  BY <1>3 DEF DAT_nGetEventHistory, GetNothing, GetEvent, GetTimeout
<1>4. CASE GetIndex
  BY <1>4 DEF GetIndex, Indexed
<1>5. CASE DAT_nFlashDataClean \/ EraseTake \/ EraseTimeout
  BY <1>5 DEF DAT_nFlashDataClean, EraseTake, EraseTimeout
<1>6. CASE Clear
  <2>1. sem = "http"
    BY <1>6 DEF Clear
  <2>2. \A d \in Callers : pc'[d] \notin {"give", "clear_give"}
    BY <1>6, <2>1 DEF Clear
  <2> QED
    BY <1>6, <2>1, <2>2 DEF Clear
<1>7. CASE Tick
  BY <1>7 DEF Tick
<1>8. CASE Reboot
  BY <1>8 DEF Reboot
<1>9. CASE UNCHANGED vars
  BY <1>9 DEF vars
<1> QED
  BY <1>1, <1>2, <1>3, <1>4, <1>5, <1>6, <1>7, <1>8, <1>9 DEF Next, HttpStep

(* The invariant holds throughout. *)
THEOREM EventInvariant == Spec => []EventInv
<1>1. EventInv /\ [Next]_vars => EventInv'
  BY HolderStep, ListStep DEF EventInv
<1> QED
  BY <1>1, EventInit, PTL DEF Spec

(* xSmartSocketEventListSemaphore: however takes time out and whenever the *)
(* plug restarts, no two contexts are in the list at once.                 *)
THEOREM ListInOneHand == Spec => []MutualExclusion
<1>1. EventInv => MutualExclusion
  BY DEF EventInv
<1> QED
  BY <1>1, EventInvariant, PTL

(* DAT_nAddEventHistory: a list that is left with events in it is saved.   *)
THEOREM FlashHoldsTheList == Spec => []FlashFollows
<1>1. EventInv => FlashFollows
  BY DEF EventInv
<1> QED
  BY <1>1, EventInvariant, PTL

-----------------------------------------------------------------------------
(* DAT_nGetEventHistory. *)

LEMMA FreshInit == Init => FreshInv
  BY EventHistoryAssumption DEF Init, FreshInv, Reading

LEMMA FreshStep == EventInv /\ FreshInv /\ [Next]_vars => FreshInv'
<1> SUFFICES ASSUME EventInv, FreshInv, [Next]_vars PROVE FreshInv'
  OBVIOUS
<1> USE EventHistoryAssumption
    DEF EventInv, MutualExclusion, FreshInv, WillBeFresh, written, TypeOK, Reading, Adding,
        Erasing, Goto, read, list
<1>1. ASSUME NEW c \in Callers, DAT_nAddEventHistory(c) PROVE FreshInv'
  BY <1>1 DEF DAT_nAddEventHistory
<1>2. ASSUME NEW c \in Callers, Step(c) PROVE FreshInv'
  <2>1. CASE TakeEventList(c) \/ TakeTimeout(c)
    BY <2>1 DEF TakeEventList, TakeTimeout
  <2>2. CASE WriteSlot(c)
    <3>1. written'
      BY <2>2 DEF WriteSlot
    <3>2. \A i \in Slots : i # unEventNum % N => tEvent'[i] = tEvent[i]
      BY <2>2 DEF WriteSlot
    <3>3. (unEventNum - 1) % N \in Slots \/ unEventNum = 0
      BY SlotOf
    <3> QED
      BY <2>2, <3>1, <3>2, <3>3 DEF WriteSlot
  <2>3. CASE Count(c)
    <3>1. \A d \in Callers : pc[d] = "count" <=> d = c
      BY <2>3 DEF Count, Counted, Critical
    <3>2. (unEventNum' - 1) % N = unEventNum % N
      <4>1. unEventNum' - 1 = unEventNum
        BY <2>3 DEF Count, Counted
      <4> QED
        BY <4>1
    <3>3. pc["http"] \in Reading => fresh' = fresh \cup {tEvent[unEventNum % N]}
      BY <2>3 DEF Count, Counted
    <3>4. UNCHANGED <<tEvent, unEventIndex, tAnswer>> /\ (pc["http"] \notin Reading => UNCHANGED fresh)
      BY <2>3 DEF Count, Counted
    <3>5. pc'["http"] \in Reading <=> pc["http"] \in Reading
      BY <2>3 DEF Count, Counted
    <3>6. pc["http"] \in Reading => pc'["http"] = pc["http"]
      BY <2>3 DEF Count, Counted
    <3>7. pc["http"] = "read" => tEvent[unEventIndex] \in fresh'
      BY <3>3
    <3> QED
      BY <3>2, <3>3, <3>4, <3>5, <3>6, <3>7
  <2>4. CASE SaveEventList(c)
    BY <2>4 DEF SaveEventList
  <2>5. CASE GiveEventList(c)
    BY <2>5 DEF GiveEventList, Give
  <2> QED
    BY <1>2, <2>1, <2>2, <2>3, <2>4, <2>5 DEF Step
<1>3. CASE DAT_nGetEventHistory
  BY <1>3 DEF DAT_nGetEventHistory, Latest
<1>4. CASE GetIndex
  BY <1>4 DEF GetIndex, Indexed
<1>5. CASE GetEvent
  <2>1. ~written
    BY <1>5 DEF GetEvent, Critical
  <2> QED
    BY <1>5, <2>1 DEF GetEvent
<1>6. CASE GetNothing \/ GetTimeout
  BY <1>6 DEF GetNothing, GetTimeout
<1>7. CASE DAT_nFlashDataClean \/ EraseTake \/ EraseTimeout \/ Clear
  BY <1>7 DEF DAT_nFlashDataClean, EraseTake, EraseTimeout, Clear
<1>8. CASE Tick
  BY <1>8 DEF Tick
<1>9. CASE Reboot
  BY <1>9 DEF Reboot
<1>10. CASE UNCHANGED vars
  BY <1>10 DEF vars
<1> QED
  BY <1>1, <1>2, <1>3, <1>4, <1>5, <1>6, <1>7, <1>8, <1>9, <1>10 DEF Next, HttpStep

(* The index computed before the take never leads to an event that was not *)
(* the latest during the call.                                             *)
THEOREM AnswerIsFresh == Spec => []LatestIsFresh
<1>1. Spec => []FreshInv
  BY EventInvariant, FreshInit, FreshStep, PTL DEF Spec
<1>2. FreshInv => LatestIsFresh
  BY DEF FreshInv, LatestIsFresh, Reading
<1> QED
  BY <1>1, <1>2, PTL

-----------------------------------------------------------------------------
(* The refinement. *)

(* No slot is younger than the clock. *)
TimeInv == \A i \in Slots : tEvent[i].time <= clock

LEMMA TimeInit == Init => TimeInv
  BY DEF Init, TimeInv, INVALID

LEMMA TimeStep == EventInv /\ TimeInv /\ [Next]_vars => TimeInv'
<1> SUFFICES ASSUME EventInv, TimeInv, [Next]_vars PROVE TimeInv'
  OBVIOUS
<1> USE EventHistoryAssumption DEF TimeInv, TypeOK, EventInv, MutualExclusion, list, read
<1>1. CASE UNCHANGED <<tEvent, clock>>
  BY <1>1
<1>2. ASSUME NEW c \in Callers, WriteSlot(c) PROVE TimeInv'
  BY <1>2 DEF WriteSlot
<1>3. CASE Tick
  <2>1. ASSUME NEW i \in Slots PROVE tEvent[i].time \in Nat
    <3>1. CASE tEvent[i] \in Entry
      BY <3>1 DEF Entry
    <3>2. CASE tEvent[i] = INVALID
      BY <3>2 DEF INVALID
    <3> QED
      BY <3>1, <3>2
  <2> QED
    BY <1>3, <2>1 DEF Tick
<1>4. CASE Clear
  BY <1>4 DEF Clear, INVALID
<1>5. CASE Reboot
  BY <1>5 DEF Reboot, INVALID
<1> QED
  BY <1>1, <1>2, <1>3, <1>4, <1>5
     DEF Next, Step, HttpStep, DAT_nAddEventHistory, TakeEventList, TakeTimeout, Count, Counted,
         SaveEventList, GiveEventList, Give, DAT_nGetEventHistory, GetNothing, GetIndex, Indexed,
         GetEvent, GetTimeout, DAT_nFlashDataClean, EraseTake, EraseTimeout, vars

(* A plug that starts has an empty log. *)
LEMMA RefinesInit == Init => Log!Init
  BY DEF Init, Log!Init, Log!Cleared, recentOfList, callOfCaller, total, written, Slots,
         INVALID, Log!NoEvent

(* A step that leaves the list and who is past WriteSlot alone leaves the  *)
(* log alone.                                                              *)
LEMMA SameRecent == UNCHANGED list /\ (written' <=> written) => UNCHANGED recentOfList
  BY DEF list, recentOfList, total

(* WriteSlot is the instant at which the event enters the log. *)
LEMMA WriteAdds ==
  ASSUME EventInv, TimeInv, NEW c \in Callers, WriteSlot(c)
  PROVE  Log!Add(c)
<1> USE EventHistoryAssumption DEF EventInv, MutualExclusion, TypeOK
<1> DEFINE e == [time |-> clock, data |-> unData[c]]
<1>1. ~written /\ written'
  BY DEF WriteSlot, Goto, written, Critical
<1>2. total = unEventNum /\ total' = unEventNum + 1
  BY <1>1 DEF total, WriteSlot
<1>3. recentOfList[0].time <= clock
  <2>1. 0 \in Slots
    BY DEF Slots
  <2>2. CASE unEventNum = 0
    BY <1>2, <2>1, <2>2 DEF recentOfList, INVALID
  <2>3. CASE unEventNum # 0
    <3>1. (unEventNum - 1) % N \in Slots
      BY <2>3, SlotOf
    <3>2. recentOfList[0] = tEvent[(unEventNum - 1) % N]
      BY <1>2, <2>1, <2>3 DEF recentOfList
    <3> QED
      BY <3>1, <3>2 DEF TimeInv
  <2> QED
    BY <2>2, <2>3
<1>4. ASSUME NEW i \in Slots
      PROVE  recentOfList'[i] = IF i = 0 THEN e ELSE recentOfList[i - 1]
  <2>1. recentOfList'[i] = IF i < unEventNum + 1 THEN tEvent'[(unEventNum - i) % N] ELSE INVALID
    <3>1. (unEventNum + 1) - 1 - i = unEventNum - i
      BY DEF Slots
    <3> QED
      BY <1>2, <3>1 DEF recentOfList
  <2>2. CASE i = 0
    <3>1. tEvent'[unEventNum % N] = e
      BY SlotOf DEF WriteSlot
    <3> QED
      BY <2>1, <2>2, <3>1
  <2>3. CASE i # 0
    <3>1. i - 1 \in Slots /\ i \in 1..N-1
      BY <2>3 DEF Slots
    <3>2. recentOfList[i - 1] = IF i - 1 < unEventNum THEN tEvent[(unEventNum - 1 - (i - 1)) % N] ELSE INVALID
      BY <1>2, <3>1 DEF recentOfList
    <3>3. unEventNum - 1 - (i - 1) = unEventNum - i
      BY <3>1
    <3>4. CASE i < unEventNum + 1
      <4>1. (unEventNum - i) % N # unEventNum % N
        <5>1. N \in Nat \ {0} /\ unEventNum \in Nat /\ i <= unEventNum
          BY <3>1, <3>4
        <5> QED
          BY <3>1, <5>1, Apart
      <4>2. (unEventNum - i) % N \in Slots
        <5>1. unEventNum - i \in Nat
          BY <3>1, <3>4
        <5> HIDE EventHistoryAssumption DEF EventInv, MutualExclusion, TypeOK
        <5> QED
          BY <5>1, SlotOf
      <4>3. tEvent'[(unEventNum - i) % N] = tEvent[(unEventNum - i) % N]
        BY <4>1, <4>2 DEF WriteSlot
      <4> QED
        BY <2>1, <2>3, <3>1, <3>2, <3>3, <3>4, <4>3
    <3>5. CASE ~(i < unEventNum + 1)
      BY <2>1, <2>3, <3>1, <3>2, <3>5
    <3> QED
      BY <3>4, <3>5
  <2> QED
    BY <2>2, <2>3
<1>5. recentOfList' = [i \in Slots |-> IF i = 0 THEN e ELSE recentOfList[i - 1]]
  BY <1>4 DEF recentOfList
<1>6. callOfCaller[c] = unData[c] /\ callOfCaller' = [callOfCaller EXCEPT ![c] = "logged"]
  BY DEF WriteSlot, Goto, callOfCaller
<1> QED
  BY <1>3, <1>5, <1>6 DEF Log!Add, Slots

(* Every step is a step of the log or leaves it alone. *)
LEMMA RefinesStep == EventInv /\ TimeInv /\ [Next]_vars => [Log!Next]_(Log!vars)
<1> SUFFICES ASSUME EventInv, TimeInv, [Next]_vars PROVE [Log!Next]_(Log!vars)
  OBVIOUS
<1> USE EventHistoryAssumption
    DEF EventInv, MutualExclusion, TypeOK, Critical, Goto, read, list, written
<1>1. ASSUME NEW c \in Callers, DAT_nAddEventHistory(c) PROVE [Log!Next]_(Log!vars)
  <2>1. UNCHANGED recentOfList
    BY <1>1, SameRecent DEF DAT_nAddEventHistory
  <2>2. PICK kind \in Kinds : unData' = [unData EXCEPT ![c] = kind]
    BY <1>1 DEF DAT_nAddEventHistory
  <2>3. callOfCaller[c] = "none" /\ callOfCaller' = [callOfCaller EXCEPT ![c] = kind]
    BY <1>1, <2>2 DEF DAT_nAddEventHistory, callOfCaller
  <2>4. Log!Begin(c)
    BY <2>1, <2>3 DEF Log!Begin
  <2> QED
    BY <2>4 DEF Log!Next
<1>2. ASSUME NEW c \in Callers, Step(c) PROVE [Log!Next]_(Log!vars)
  <2>1. CASE TakeEventList(c)
    <3>1. UNCHANGED recentOfList
      BY <2>1, SameRecent DEF TakeEventList
    <3>2. UNCHANGED callOfCaller
      BY <2>1 DEF TakeEventList, callOfCaller
    <3> QED
      BY <3>1, <3>2 DEF Log!vars
  <2>2. CASE TakeTimeout(c)
    <3>1. UNCHANGED recentOfList
      BY <2>2, SameRecent DEF TakeTimeout
    <3>2. callOfCaller[c] # "none" /\ callOfCaller' = [callOfCaller EXCEPT ![c] = "none"]
      BY <2>2 DEF TakeTimeout, callOfCaller
    <3>3. Log!Return(c)
      BY <3>1, <3>2 DEF Log!Return
    <3> QED
      BY <3>3 DEF Log!Next
  <2>3. CASE WriteSlot(c)
    <3>1. Log!Add(c)
      BY <2>3, WriteAdds
    <3> QED
      BY <3>1 DEF Log!Next
  <2>4. CASE Count(c)
    <3>1. written /\ ~written'
      BY <2>4 DEF Count, Counted
    <3>2. total' = total /\ UNCHANGED tEvent
      BY <2>4, <3>1 DEF Count, Counted, total
    <3>3. UNCHANGED recentOfList
      BY <3>2 DEF recentOfList
    <3>4. UNCHANGED callOfCaller
      BY <2>4 DEF Count, Counted, callOfCaller
    <3> QED
      BY <3>3, <3>4 DEF Log!vars
  <2>5. CASE SaveEventList(c)
    <3>1. UNCHANGED recentOfList
      BY <2>5, SameRecent DEF SaveEventList
    <3>2. UNCHANGED callOfCaller
      BY <2>5 DEF SaveEventList, callOfCaller
    <3> QED
      BY <3>1, <3>2 DEF Log!vars
  <2>6. CASE GiveEventList(c) /\ pc[c] = "give"
    <3>1. UNCHANGED recentOfList
      BY <2>6, SameRecent DEF GiveEventList, Give
    <3>2. callOfCaller[c] # "none" /\ callOfCaller' = [callOfCaller EXCEPT ![c] = "none"]
      BY <2>6 DEF GiveEventList, Give, callOfCaller
    <3>3. Log!Return(c)
      BY <3>1, <3>2 DEF Log!Return
    <3> QED
      BY <3>3 DEF Log!Next
  <2>7. CASE GiveEventList(c) /\ pc[c] = "clear_give"
    <3>1. UNCHANGED recentOfList
      BY <2>7, SameRecent DEF GiveEventList, Give
    <3>2. UNCHANGED callOfCaller
      BY <2>7 DEF GiveEventList, Give, callOfCaller
    <3> QED
      BY <3>1, <3>2 DEF Log!vars
  <2> QED
    BY <1>2, <2>1, <2>2, <2>3, <2>4, <2>5, <2>6, <2>7 DEF Step, GiveEventList, Give
<1>3. CASE DAT_nGetEventHistory \/ GetNothing \/ GetIndex \/ GetEvent \/ GetTimeout
  <2> USE DEF DAT_nGetEventHistory, GetNothing, GetIndex, Indexed, GetEvent, GetTimeout
  <2>1. UNCHANGED recentOfList
    BY <1>3, SameRecent
  <2>2. UNCHANGED callOfCaller
    BY <1>3 DEF callOfCaller
  <2> QED
    BY <2>1, <2>2 DEF Log!vars
<1>4. CASE DAT_nFlashDataClean \/ EraseTake \/ EraseTimeout
  <2> USE DEF DAT_nFlashDataClean, EraseTake, EraseTimeout
  <2>1. UNCHANGED recentOfList
    BY <1>4, SameRecent
  <2>2. UNCHANGED callOfCaller
    BY <1>4 DEF callOfCaller
  <2> QED
    BY <2>1, <2>2 DEF Log!vars
<1>5. CASE Clear
  <2>1. ~written' /\ unEventNum' = 0
    BY <1>5 DEF Clear
  <2>2. recentOfList' = Log!Cleared
    BY <2>1 DEF recentOfList, total, Log!Cleared, Slots, INVALID, Log!NoEvent
  <2>3. UNCHANGED callOfCaller
    BY <1>5 DEF Clear, callOfCaller
  <2> QED
    BY <2>2, <2>3 DEF Log!Next, Log!Erase
<1>6. CASE Tick
  <2>1. UNCHANGED recentOfList
    BY <1>6, SameRecent DEF Tick
  <2>2. UNCHANGED callOfCaller
    BY <1>6 DEF Tick, callOfCaller
  <2> QED
    BY <2>1, <2>2 DEF Log!vars
<1>7. CASE Reboot
  <2>1. ~written' /\ unEventNum' = 0 /\ pc' = [c \in Callers |-> "idle"]
    BY <1>7 DEF Reboot
  <2>2. recentOfList' = Log!Cleared
    BY <2>1 DEF recentOfList, total, Log!Cleared, Slots, INVALID, Log!NoEvent
  <2>3. callOfCaller' = [c \in Callers |-> "none"]
    BY <2>1 DEF callOfCaller
  <2>4. Log!Restart
    BY <2>2, <2>3 DEF Log!Restart, Log!Init, Log!Cleared
  <2> QED
    BY <2>4 DEF Log!Next
<1>8. CASE UNCHANGED vars
  <2>1. UNCHANGED recentOfList
    BY <1>8, SameRecent DEF vars
  <2>2. UNCHANGED callOfCaller
    BY <1>8 DEF vars, callOfCaller
  <2> QED
    BY <2>1, <2>2 DEF Log!vars
<1> QED
  BY <1>1, <1>2, <1>3, <1>4, <1>5, <1>6, <1>7, <1>8 DEF Next, HttpStep

(* The ring, its count and its semaphore implement the log: every call of  *)
(* DAT_nAddEventHistory adds its event once, in the order of the times, or *)
(* fails, and nothing else touches what was logged.                        *)
THEOREM RingImplementsLog == Spec => ImplementsLog
<1>1. Spec => []TimeInv
  BY EventInvariant, TimeInit, TimeStep, PTL DEF Spec
<1> QED
  BY <1>1, EventInvariant, RefinesInit, RefinesStep, PTL DEF Spec, ImplementsLog, Log!Spec
=============================================================================
