------------------------ MODULE RelaySchedule_proofs ------------------------
(* Theorems of RelaySchedule, for every list of timers, every length of    *)
(* the week and of the hour, and however late a callback comes.            *)
EXTENDS RelaySchedule, FiniteSetTheorems, TLAPS

(* What holds whatever is done to the schedule.                            *)
Armable ==
    /\ tSchedulingTimer.armed \/ InCallback => pTimerWaitParam
    /\ InCallback => device_action.i <= device_action.action_number + 1
    /\ ~InCallback => performed = <<>>

(* What the HTTP server has set so far of the list that it was sent.       *)
Handled ==
    /\ http \in {"backup", "start"} =>
           request \in Schedules /\ pTimerSplitsStrings = request /\ sTimerSplitsString = request
    /\ http = "reset" => sTimerSplitsString = <<>>

SwitchedOff ==
    ~up => /\ http = "idle" /\ pTimerSplitsStrings = <<>>
           /\ ~tSchedulingTimer.armed /\ ~InCallback /\ ~pTimerWaitParam

(* While a list is set, and no callback meets it, the base is the time of  *)
(* the request.                                                            *)
Setting ==
    /\ http \in {"freed", "backup", "start"} =>
           ~InCallback /\ unMinWaitSecond = 0 /\ now = unTimestamp + late
    /\ http = "freed" => pTimerSplitsStrings = <<>>
    /\ http = "reset" => ~tSchedulingTimer.armed /\ ~InCallback

(* The first actions of those the timer waits for.                         *)
Planned(n) == [k \in 1..n |-> tWaitAction.action[k]]

(* The timer still waits...                                                *)
Awaited ==
    /\ ~InCallback /\ now <= tSchedulingTimer.due
    /\ tSchedulingTimer.due
           + (IF tSchedulingTimer.fn = "overflow" THEN tWaitAction.min_time_backup ELSE 0)
         = Goal + late

(* ...or its callback performs what it waited for.                         *)
Performing ==
    /\ ~tSchedulingTimer.armed /\ now = Goal + late
    /\ device_action.count = tWaitAction.count
    /\ device_action.action_number = tWaitAction.action_number
    /\ performed = Planned(device_action.i - 1)

(* What it waits for are the next actions of the list that are due, but    *)
(* for the texts that do not cover what was there before.                  *)
NextDue(list, base, min, wait) ==
    /\ min # 0 /\ wait.count = Len(list)
    /\ wait.action_number \in Nat
    /\ DOMAIN DueActions(list, base + min) = 1..wait.action_number
    /\ \A k \in 1..wait.action_number :
          DueActions(list, base + min)[k] \in Covers
             => wait.action[k] = DueActions(list, base + min)[k]
    /\ \A time \in base+1..base+min-1 : DueActions(list, time) = <<>>

Scheduled ==
    http = "idle" =>
        /\ tSchedulingTimer.armed => Awaited
        /\ InCallback => Performing
        /\ tSchedulingTimer.armed \/ InCallback =>
               /\ NextDue(pTimerSplitsStrings, unTimestamp, unMinWaitSecond, tWaitAction)
               /\ sTimerSplitsString = pTimerSplitsStrings
        /\ Periodic(pTimerSplitsStrings) /\ sTimerSplitsString # <<>> =>
               tSchedulingTimer.armed \/ InCallback

Undisturbed == ~disturbed => Setting /\ Scheduled

-----------------------------------------------------------------------------
(* Numbers: least elements, remainders, ranks.                             *)
LEMMA LeastNat ==
  ASSUME NEW T \in SUBSET Nat, T # {}
  PROVE  \E x \in T : \A y \in T : x <= y
<1>1. PICK x \in T : \A y \in T : ~(<<y, x>> \in OpToRel(<, Nat))
  BY NatLessThanWellFounded, WFMin
<1>2. ASSUME NEW y \in T PROVE x <= y
  <2>1. ~(y < x)
    BY <1>1 DEF OpToRel
  <2> QED
    BY <2>1
<1> QED
  BY <1>2

LEMMA MinIs ==
  ASSUME NEW T \in SUBSET Nat, T # {}
  PROVE  Min(T) \in T /\ \A y \in T : Min(T) <= y
  BY LeastNat DEF Min

LEMMA Division ==
  ASSUME NEW n \in Nat, NEW d \in Nat \ {0}
  PROVE  n % d \in 0..d-1 /\ \E q \in Nat : n = q * d + (n % d)
<1>1. n % d \in 0..d-1
  OBVIOUS
<1>2. n = (n \div d) * d + (n % d)
  OBVIOUS
<1>3. n \div d \in Nat
  OBVIOUS
<1> QED
  BY <1>1, <1>2, <1>3

LEMMA NoMultipleBetween ==
  ASSUME NEW q \in Nat, NEW p \in Nat, NEW d \in Nat \ {0}, q * d < p * d, p * d < q * d + d
  PROVE  FALSE
<1>1. q < p
  OBVIOUS
<1>2. (q + 1) * d <= p * d
  BY <1>1
<1> QED
  BY <1>2

LEMMA Remainder ==
  ASSUME NEW n \in Nat, NEW d \in Nat \ {0}, NEW q \in Nat, NEW r \in 0..d-1, n = q * d + r
  PROVE  n % d = r
<1>1. n % d \in 0..d-1
  BY Division
<1>2. PICK p \in Nat : n = p * d + (n % d)
  BY Division
<1>3. PICK s \in 0..d-1 : s = n % d
  BY <1>1
<1>4. q * d + r = p * d + s
  BY <1>2, <1>3
<1>5. q * d \in Int /\ p * d \in Int
  OBVIOUS
<1>6. ~(q * d < p * d)
  <2> SUFFICES ASSUME q * d < p * d
               PROVE  FALSE
    OBVIOUS
  <2>1. p * d < q * d + d
    BY <1>4, <1>5
  <2> QED
    BY <2>1, NoMultipleBetween
<1>7. ~(p * d < q * d)
  <2> SUFFICES ASSUME p * d < q * d
               PROVE  FALSE
    OBVIOUS
  <2>1. q * d < p * d + d
    BY <1>4, <1>5
  <2> QED
    BY <2>1, NoMultipleBetween
<1>8. r = s
  BY <1>4, <1>5, <1>6, <1>7
<1> QED
  BY <1>3, <1>8

(* The elements of a set of numbers, counted in their order.               *)
LEMMA Counted ==
  ASSUME NEW n \in Nat, NEW S \in SUBSET (1..n)
  PROVE  /\ IsFiniteSet(S) /\ Cardinality(S) \in 0..n
         /\ \A k \in 1..Cardinality(S) : Nth(S, k) \in S /\ Rank(Nth(S, k), S) = k
<1>1. IsFiniteSet(1..n) /\ Cardinality(1..n) = n
  BY FS_Interval
<1>2. IsFiniteSet(S) /\ Cardinality(S) <= n
  BY <1>1, FS_Subset
<1>3. Cardinality(S) \in Nat
  BY <1>2, FS_CardinalityType
<1> DEFINE below(i) == {j \in S : j <= i}
<1>4. ASSUME NEW i \in S PROVE Rank(i, S) \in 1..Cardinality(S) /\ IsFiniteSet(below(i))
  <2>1. IsFiniteSet(below(i)) /\ Cardinality(below(i)) <= Cardinality(S)
    <3>1. below(i) \in SUBSET S
      OBVIOUS
    <3> QED
      BY <1>2, <3>1, FS_Subset
  <2>2. Cardinality(below(i)) \in Nat
    BY <2>1, FS_CardinalityType
  <2>3. Cardinality(below(i)) # 0
    <3>1. i \in below(i)
      OBVIOUS
    <3> QED
      BY <2>1, <3>1, FS_EmptySet
  <2> QED
    BY <1>3, <2>1, <2>2, <2>3 DEF Rank
<1>5. ASSUME NEW i \in S, NEW j \in S, i < j PROVE Rank(i, S) # Rank(j, S)
  <2>1. below(i) \in SUBSET below(j) /\ j \in below(j) /\ j \notin below(i)
    <3>1. i \in Int /\ j \in Int /\ \A k \in S : k \in Int
      OBVIOUS
    <3>2. \A k \in S : k <= i => k <= j
      BY <1>5, <3>1
    <3>3. j <= j /\ ~(j <= i)
      BY <1>5, <3>1
    <3> QED
      BY <3>2, <3>3
  <2>2. IsFiniteSet(below(j))
    BY <1>4
  <2>3. Cardinality(below(j)) = Cardinality(below(i)) => below(j) = below(i)
    BY <2>1, <2>2, FS_Subset
  <2> QED
    BY <2>1, <2>3 DEF Rank
<1> DEFINE f == [i \in S |-> Rank(i, S)]
<1>6. f \in Injection(S, 1..Cardinality(S))
  <2>1. f \in [S -> 1..Cardinality(S)]
    BY <1>4
  <2>2. \A a, b \in S : a = b \/ a < b \/ b < a
    OBVIOUS
  <2>3. \A a, b \in S : f[a] = f[b] => a = b
    BY <1>5, <2>2
  <2> QED
    BY <2>1, <2>3 DEF Injection, IsInjective
<1>7. f \in Surjection(S, 1..Cardinality(S))
  <2>1. IsFiniteSet(1..Cardinality(S)) /\ Cardinality(1..Cardinality(S)) = Cardinality(S)
    BY <1>3, FS_Interval
  <2> QED
    BY <1>6, <2>1, FS_Injection
<1>8. ASSUME NEW k \in 1..Cardinality(S) PROVE \E i \in S : Rank(i, S) = k
  BY <1>7 DEF Surjection
<1>9. ASSUME NEW k \in 1..Cardinality(S) PROVE Nth(S, k) \in S /\ Rank(Nth(S, k), S) = k
  BY <1>8 DEF Nth
<1> QED
  BY <1>2, <1>3, <1>9

-----------------------------------------------------------------------------
(* When a timer is due.                                                    *)
LEMMA ModeWait ==
  ASSUME NEW t, NEW base
  PROVE  /\ t.mode = "f" => WaitTime(t, base) = t.at - base
         /\ t.mode = "l" => WaitTime(t, base) = t.at - (base % t.at)
         /\ t.mode = "w" => WaitTime(t, base) = WeekWait(t.at, base % Week)
  BY Zenon DEF WaitTime

LEMMA ModeDue ==
  ASSUME NEW t, NEW time
  PROVE  /\ t.mode = "f" => (Due(t, time) <=> time = t.at)
         /\ t.mode = "l" => (Due(t, time) <=> time % t.at = 0)
         /\ t.mode = "w" => (Due(t, time) <=> time % Week = t.at)
  BY Zenon DEF Due

LEMMA Modes ==
  ASSUME NEW t \in Timers
  PROVE  /\ t.mode \in {"f", "l", "w"} /\ t.at \in Nat /\ t.action \in Actions
         /\ t.mode = "l" => t.at \in Nat \ {0}
         /\ t.mode = "w" => t.at \in 0..Week-1
  BY ScheduleAssumption DEF Timers

(* The remainder after some more seconds, without or with a turn over.     *)
LEMMA Later ==
  ASSUME NEW base \in Nat, NEW d \in Nat \ {0}, NEW e \in Nat, e <= d
  PROVE  /\ base % d \in 0..d-1
         /\ (base % d) + e < d => (base + e) % d = (base % d) + e
         /\ (base % d) + e >= d => (base + e) % d = (base % d) + e - d
<1>1. PICK q \in Nat : base = q * d + (base % d) /\ base % d \in 0..d-1
  BY Division
<1>2. PICK r \in 0..d-1 : r = base % d
  BY <1>1
<1>3. base = q * d + r /\ q * d \in Int /\ base + e \in Nat
  BY <1>1, <1>2
<1>4. ASSUME r + e < d PROVE (base + e) % d = r + e
  <2>1. r + e \in 0..d-1 /\ base + e = q * d + (r + e)
    BY <1>3, <1>4
  <2> QED
    BY <1>3, <2>1, Remainder
<1>5. ASSUME r + e >= d PROVE (base + e) % d = r + e - d
  <2>1. r + e - d \in 0..d-1
    BY <1>5
  <2>2. (q + 1) * d = q * d + d
    OBVIOUS
  <2>3. base + e = (q + 1) * d + (r + e - d)
    BY <1>3, <2>2
  <2>4. q + 1 \in Nat
    OBVIOUS
  <2> QED
    BY <1>3, <2>1, <2>3, <2>4, Remainder
<1> QED
  BY <1>2, <1>4, <1>5

LEMMA WaitType ==
  ASSUME NEW t \in Timers, NEW base \in Nat
  PROVE  /\ WaitTime(t, base) \in Int
         /\ t.mode \in {"l", "w"} => WaitTime(t, base) > 0
<1>1. CASE t.mode = "f"
  BY <1>1, Modes, ModeWait
<1>2. CASE t.mode = "l"
  <2>1. t.at \in Nat \ {0}
    BY <1>2, Modes
  <2>2. base % t.at \in 0..t.at-1
    BY <2>1, Division
  <2> QED
    BY <1>2, <2>1, <2>2, ModeWait
<1>3. CASE t.mode = "w"
  <2>1. t.at \in 0..Week-1 /\ Week \in Nat \ {0}
    BY <1>3, Modes, ScheduleAssumption
  <2>2. base % Week \in 0..Week-1
    BY <2>1, Division
  <2> QED
    BY <1>3, <2>1, <2>2, ModeWait DEF WeekWait
<1> QED
  BY <1>1, <1>2, <1>3, Modes

(* Before its wait is over a timer is not due, and then it is.             *)
LEMMA FirstDue ==
  ASSUME NEW t \in Timers, NEW base \in Nat, NEW d \in Nat \ {0},
         WaitTime(t, base) > 0 => d <= WaitTime(t, base)
  PROVE  Due(t, base + d) <=> WaitTime(t, base) = d
<1>1. CASE t.mode = "f"
  BY <1>1, Modes, ModeWait, ModeDue
<1>2. CASE t.mode = "l"
  <2>1. t.at \in Nat \ {0}
    BY <1>2, Modes
  <2>2. PICK at \in Nat \ {0} : at = t.at
    BY <2>1
  <2>3. PICK r \in 0..at-1 : r = base % at
    BY Division
  <2>4. WaitTime(t, base) = at - r
    BY <1>2, <2>2, <2>3, ModeWait
  <2>5. d <= at - r /\ d <= at /\ d \in Nat
    BY <2>4
  <2>6. /\ r + d < at => (base + d) % at = r + d
        /\ r + d >= at => (base + d) % at = r + d - at
    <3>1. /\ (base % at) + d < at => (base + d) % at = (base % at) + d
          /\ (base % at) + d >= at => (base + d) % at = (base % at) + d - at
      BY <2>5, Later
    <3> QED
      BY <2>3, <3>1
  <2>7. Due(t, base + d) <=> (base + d) % at = 0
    BY <1>2, <2>2, ModeDue
  <2> QED
    BY <2>4, <2>5, <2>6, <2>7
<1>3. CASE t.mode = "w"
  <2>1. t.at \in 0..Week-1 /\ Week \in Nat \ {0}
    BY <1>3, Modes, ScheduleAssumption
  <2>2. PICK r \in 0..Week-1 : r = base % Week
    BY <2>1, Division
  <2>3. WaitTime(t, base) = IF t.at > r THEN t.at - r ELSE Week - r + t.at
    BY <1>3, <2>2, ModeWait DEF WeekWait
  <2>4. d <= WaitTime(t, base) /\ d <= Week
    BY <2>1, <2>3
  <2>5. /\ r + d < Week => (base + d) % Week = r + d
        /\ r + d >= Week => (base + d) % Week = r + d - Week
    BY <2>1, <2>2, <2>4, Later
  <2>6. Due(t, base + d) <=> (base + d) % Week = t.at
    BY <1>3, ModeDue
  <2> QED
    BY <2>1, <2>3, <2>4, <2>5, <2>6
<1> QED
  BY <1>1, <1>2, <1>3, Modes


-----------------------------------------------------------------------------
(* From a list to the timer.                                               *)
LEMMA ListType ==
  ASSUME NEW list \in Lists
  PROVE  /\ list \in Seq(Timers) /\ Len(list) \in Counts /\ DOMAIN list = 1..Len(list)
         /\ \A i \in 1..Len(list) : list[i] \in Timers
<1>1. CASE list \in Schedules
  BY <1>1, ScheduleAssumption DEF Counts
<1>2. CASE list = <<>>
  BY <1>2, ScheduleAssumption DEF Counts
<1> QED
  BY <1>1, <1>2 DEF Lists

LEMMA WaitsType ==
  ASSUME NEW list \in Lists, NEW count \in 0..Len(list), NEW base \in Nat
  PROVE  WaitTimes(list, count, base) \in [1..count -> Int]
<1>1. ASSUME NEW i \in 1..count PROVE WaitTime(list[i], base) \in Int
  <2>1. list[i] \in Timers
    BY ListType DEF Counts
  <2> QED
    BY <2>1, WaitType
<1> QED
  BY <1>1 DEF WaitTimes

LEMMA Shortest ==
  ASSUME NEW count \in Nat, NEW waits \in [1..count -> Int]
  PROVE  /\ esp_platform_find_min_time(waits) \in Nat
         /\ \A i \in 1..count :
               waits[i] > 0 => /\ esp_platform_find_min_time(waits) # 0
                               /\ esp_platform_find_min_time(waits) <= waits[i]
<1>1. CASE Positive(waits) = {}
  <2>1. \A i \in 1..count : ~(waits[i] > 0)
    BY <1>1 DEF Positive
  <2> QED
    BY <1>1, <2>1 DEF esp_platform_find_min_time
<1>2. CASE Positive(waits) # {}
  <2>1. Positive(waits) \in SUBSET Nat /\ 0 \notin Positive(waits)
    BY DEF Positive
  <2>2. PICK min : min = Min(Positive(waits))
    OBVIOUS
  <2>3. min \in Positive(waits) /\ \A y \in Positive(waits) : min <= y
    BY <1>2, <2>1, <2>2, MinIs
  <2>4. \A i \in 1..count : waits[i] > 0 => waits[i] \in Positive(waits)
    BY DEF Positive
  <2>5. esp_platform_find_min_time(waits) = min
    BY <1>2, <2>2 DEF esp_platform_find_min_time
  <2> QED
    BY <2>1, <2>3, <2>4, <2>5
<1> QED
  BY <1>1, <1>2

(* The nearest timers are those that are due next.                         *)
LEMMA NearestAreDue ==
  ASSUME NEW list \in Lists, NEW base \in Nat,
         NEW min, min = esp_platform_find_min_time(WaitTimes(list, Len(list), base)), min # 0
  PROVE  /\ {i \in DOMAIN list : Due(list[i], base + min)}
              = Nearest(WaitTimes(list, Len(list), base), min)
         /\ \A d \in 1..min-1 : {i \in DOMAIN list : Due(list[i], base + d)} = {}
<1> DEFINE waits == WaitTimes(list, Len(list), base)
<1>1. /\ Len(list) \in Nat /\ DOMAIN list = 1..Len(list)
      /\ \A i \in 1..Len(list) : list[i] \in Timers
  BY ListType, ScheduleAssumption DEF Counts
<1>2. waits \in [1..Len(list) -> Int] /\ \A i \in 1..Len(list) : waits[i] = WaitTime(list[i], base)
  BY SMTT(30), <1>1, WaitsType DEF WaitTimes
<1> HIDE DEF waits
<1>3. min \in Nat /\ \A i \in 1..Len(list) : waits[i] > 0 => min <= waits[i]
  BY <1>1, <1>2, Shortest DEF waits
<1>4. ASSUME NEW i \in 1..Len(list), NEW d \in Nat \ {0}, d <= min
      PROVE  Due(list[i], base + d) <=> waits[i] = d
  <2>1. list[i] \in Timers /\ waits[i] = WaitTime(list[i], base) /\ waits[i] \in Int
    BY <1>1, <1>2
  <2>2. waits[i] > 0 => d <= waits[i]
    BY <1>3, <1>4, <2>1
  <2> QED
    BY <2>1, <2>2, FirstDue
<1>5. \A i \in 1..Len(list) : Due(list[i], base + min) <=> waits[i] = min
  BY <1>3, <1>4
<1>6. {i \in DOMAIN list : Due(list[i], base + min)} = Nearest(waits, min)
  BY <1>1, <1>2, <1>5 DEF Nearest
<1>7. ASSUME NEW d \in 1..min-1, NEW i \in 1..Len(list)
      PROVE  ~Due(list[i], base + d)
  <2>1. d \in Nat \ {0} /\ d <= min /\ waits[i] \in Int
    BY <1>2, <1>3
  <2>2. waits[i] # d
    BY <1>3, <1>7, <2>1
  <2> QED
    BY <1>4, <2>1, <2>2
<1> QED
  BY <1>1, <1>6, <1>7 DEF waits

LEMMA NothingDue ==
  ASSUME NEW list, NEW time, {i \in DOMAIN list : Due(list[i], time)} = {}
  PROVE  DueActions(list, time) = <<>>
<1>1. DueActions(list, time) = [k \in 1..Cardinality({}) |-> list[Nth({}, k)].action]
  BY DEF DueActions
<1>2. Cardinality({}) = 0
  BY FS_EmptySet
<1> QED
  BY <1>1, <1>2

WaitRecord == [min_time_backup : Nat, action_number : Counts, count : Counts,
              action : [1..TIMER_NUMBER -> Actions]]

TimerRecord == [armed : BOOLEAN, fn : {"overflow", "action"}, due : Nat]

LEMMA CopiedType ==
  ASSUME NEW text \in Actions, NEW former \in Actions
  PROVE  /\ Copied(text, former) \in Actions
         /\ text \in Covers => Copied(text, former) = text
<1>1. CASE text \in Covers
  BY <1>1 DEF Copied, Actions, Covers, Known
<1>2. CASE text = ""
  BY <1>2 DEF Copied, Actions, Covers, Known
<1>3. CASE text = "on_"
  <2>1. Copied(text, former)
          = IF former \in {"on_switch", "on_off_switch"} THEN former ELSE "unknown"
    BY <1>3 DEF Copied, Covers, Known
  <2> QED
    BY <1>3, <2>1 DEF Actions, Covers, Known
<1> QED
  BY <1>1, <1>2, <1>3 DEF Actions

(* What esp_platform_timer_schedule notes of the nearest timers.           *)
LEMMA WaitForType ==
  ASSUME NEW list \in Lists, NEW count \in 0..Len(list), NEW waits \in [1..count -> Int],
         NEW min \in Nat, tWaitAction \in WaitRecord
  PROVE  WaitFor(list, count, waits, min) \in WaitRecord
<1> DEFINE due == Nearest(waits, min)
<1>1. Len(list) \in Counts /\ \A i \in 1..Len(list) : list[i].action \in Actions
  BY ListType, Modes
<1>2. count \in Counts /\ count \in Nat
  BY <1>1, ScheduleAssumption DEF Counts
<1>3. due \in SUBSET (1..count)
  BY DEF Nearest
<1>4. Cardinality(due) \in 0..count /\ \A k \in 1..Cardinality(due) : Nth(due, k) \in due
  BY <1>2, <1>3, Counted
<1>5. Cardinality(due) \in Counts
  BY <1>2, <1>4, ScheduleAssumption DEF Counts
<1> HIDE DEF due
<1>6. PICK action : action = [k \in 1..TIMER_NUMBER |->
                                IF k <= Cardinality(due)
                                  THEN Copied(list[Nth(due, k)].action, tWaitAction.action[k])
                                  ELSE tWaitAction.action[k]]
  OBVIOUS
<1>7. action \in [1..TIMER_NUMBER -> Actions]
  <2>1. ASSUME NEW k \in 1..TIMER_NUMBER, k <= Cardinality(due)
        PROVE  list[Nth(due, k)].action \in Actions
    <3>1. k \in 1..Cardinality(due)
      BY <1>4, <2>1, ScheduleAssumption
    <3>2. Nth(due, k) \in 1..Len(list)
      <4>1. Nth(due, k) \in 1..count
        BY <1>3, <1>4, <3>1
      <4>2. Len(list) \in Nat /\ count <= Len(list)
        BY <1>1, ScheduleAssumption DEF Counts
      <4> QED
        BY <1>2, <4>1, <4>2
    <3> QED
      BY <1>1, <3>2
  <2>2. ASSUME NEW k \in 1..TIMER_NUMBER PROVE tWaitAction.action[k] \in Actions
    BY DEF WaitRecord
  <2>3. ASSUME NEW k \in 1..TIMER_NUMBER PROVE action[k] \in Actions
    <3>1. CASE k <= Cardinality(due)
      BY <1>6, <2>1, <2>2, <3>1, CopiedType
    <3>2. CASE ~(k <= Cardinality(due))
      BY <1>6, <2>2, <3>2
    <3> QED
      BY <3>1, <3>2
  <2> QED
    BY <1>6, <2>3
<1>8. WaitFor(list, count, waits, min) =
         [min_time_backup |-> min, action_number |-> Cardinality(due), count |-> count,
          action |-> action]
  BY <1>6 DEF WaitFor, due
<1> QED
  BY <1>2, <1>5, <1>7, <1>8 DEF WaitRecord

LEMMA WaitForMeans ==
  ASSUME NEW list \in Lists, NEW base \in Nat, tWaitAction \in WaitRecord,
         NEW waits, waits = WaitTimes(list, Len(list), base),
         NEW min, min = esp_platform_find_min_time(waits), min # 0
  PROVE  NextDue(list, base, min, WaitFor(list, Len(list), waits, min))
<1> DEFINE due == Nearest(waits, min)
           wait == WaitFor(list, Len(list), waits, min)
<1>1. /\ Len(list) \in Counts /\ Len(list) \in Nat /\ Len(list) <= TIMER_NUMBER
      /\ DOMAIN list = 1..Len(list)
  BY ListType, ScheduleAssumption DEF Counts
<1>2. waits \in [1..Len(list) -> Int]
  <2>1. Len(list) \in 0..Len(list)
    BY <1>1
  <2>2. WaitTimes(list, Len(list), base) \in [1..Len(list) -> Int]
    BY <2>1, WaitsType
  <2> QED
    BY <2>2
<1>3. min \in Nat
  BY <1>1, <1>2, Shortest
<1>4. /\ {i \in DOMAIN list : Due(list[i], base + min)} = due
      /\ \A d \in 1..min-1 : {i \in DOMAIN list : Due(list[i], base + d)} = {}
  BY NearestAreDue
<1>5. due \in SUBSET (1..Len(list))
  BY <1>2 DEF Nearest
<1>6. Cardinality(due) \in 0..Len(list)
  BY <1>1, <1>5, Counted
<1> HIDE DEF due
<1>7. /\ wait.action_number = Cardinality(due) /\ wait.count = Len(list)
      /\ \A k \in 1..Cardinality(due) :
            list[Nth(due, k)].action \in Covers => wait.action[k] = list[Nth(due, k)].action
  <2>1. wait = [min_time_backup |-> min, action_number |-> Cardinality(due), count |-> Len(list),
                action |-> [k \in 1..TIMER_NUMBER |->
                              IF k <= Cardinality(due)
                                THEN Copied(list[Nth(due, k)].action, tWaitAction.action[k])
                                ELSE tWaitAction.action[k]]]
    BY DEF WaitFor, due
  <2> HIDE DEF wait
  <2>2. \A k \in 1..Cardinality(due) : k \in 1..TIMER_NUMBER /\ k <= Cardinality(due)
    BY <1>1, <1>6, ScheduleAssumption
  <2>3. \A k \in 1..Cardinality(due) :
          wait.action[k] = Copied(list[Nth(due, k)].action, tWaitAction.action[k])
    BY <2>1, <2>2
  <2>4. \A k \in 1..TIMER_NUMBER : tWaitAction.action[k] \in Actions
    BY DEF WaitRecord
  <2>5. \A text \in Covers : text \in Actions
    BY DEF Actions
  <2> QED
    BY <2>1, <2>2, <2>3, <2>4, <2>5, CopiedType
<1> HIDE DEF wait
<1>8. DueActions(list, base + min) = [k \in 1..Cardinality(due) |-> list[Nth(due, k)].action]
  BY <1>4 DEF DueActions
<1>9. /\ wait.action_number \in Nat
      /\ DOMAIN DueActions(list, base + min) = 1..wait.action_number
      /\ \A k \in 1..wait.action_number :
            DueActions(list, base + min)[k] \in Covers
               => wait.action[k] = DueActions(list, base + min)[k]
  BY <1>1, <1>6, <1>7, <1>8
<1>10. ASSUME NEW time \in base+1..base+min-1
       PROVE  DueActions(list, time) = <<>>
  <2>1. PICK d \in 1..min-1 : time = base + d
    <3>1. time - base \in 1..min-1 /\ time = base + (time - base)
      BY <1>3
    <3> QED
      BY <3>1
  <2>2. {i \in DOMAIN list : Due(list[i], time)} = {}
    BY <1>4, <2>1
  <2> QED
    BY <2>2, NothingDue
<1> QED
  BY <1>7, <1>9, <1>10 DEF NextDue, wait


LEMMA OverflowCheck ==
  ASSUME NEW wait \in WaitRecord, now \in Nat,
         user_esp_platform_wait_time_overflow_check(wait)
  PROVE  /\ tWaitAction' \in WaitRecord /\ tSchedulingTimer' \in TimerRecord
         /\ tSchedulingTimer'.armed /\ now <= tSchedulingTimer'.due
         /\ tSchedulingTimer'.due
                + (IF tSchedulingTimer'.fn = "overflow" THEN tWaitAction'.min_time_backup ELSE 0)
              = now + wait.min_time_backup
         /\ tWaitAction'.count = wait.count /\ tWaitAction'.action = wait.action
         /\ tWaitAction'.action_number = wait.action_number
<1>1. wait.min_time_backup \in Nat /\ Hour \in Nat
  BY ScheduleAssumption DEF WaitRecord
<1>2. CASE wait.min_time_backup >= Hour
  <2>1. /\ tWaitAction' = [wait EXCEPT !.min_time_backup = @ - Hour]
        /\ tSchedulingTimer' = [armed |-> TRUE, fn |-> "overflow", due |-> now + Hour]
    BY <1>2 DEF user_esp_platform_wait_time_overflow_check, HourTaken
  <2>2. PICK left \in Nat : left = wait.min_time_backup - Hour
    BY <1>1, <1>2
  <2>3. tWaitAction' = [wait EXCEPT !.min_time_backup = left]
    BY <2>1, <2>2
  <2>4. /\ tWaitAction' \in WaitRecord /\ tWaitAction'.min_time_backup = left
        /\ tWaitAction'.count = wait.count /\ tWaitAction'.action = wait.action
        /\ tWaitAction'.action_number = wait.action_number
    BY <2>3 DEF WaitRecord
  <2>5. /\ tSchedulingTimer' \in TimerRecord /\ tSchedulingTimer'.armed
        /\ tSchedulingTimer'.fn = "overflow" /\ tSchedulingTimer'.due = now + Hour
    BY <1>1, <2>1 DEF TimerRecord
  <2> QED
    BY <1>1, <2>2, <2>4, <2>5
<1>3. CASE ~(wait.min_time_backup >= Hour)
  <2>1. /\ tWaitAction' = wait
        /\ tSchedulingTimer' = [armed |-> TRUE, fn |-> "action", due |-> now + wait.min_time_backup]
    BY <1>3 DEF user_esp_platform_wait_time_overflow_check
  <2>2. /\ tSchedulingTimer' \in TimerRecord /\ tSchedulingTimer'.armed
        /\ tSchedulingTimer'.fn = "action" /\ tSchedulingTimer'.due = now + wait.min_time_backup
    BY <1>1, <2>1 DEF TimerRecord
  <2> QED
    BY <1>1, <2>1, <2>2
<1> QED
  BY <1>2, <1>3

TimerTypes ==
    /\ now \in Nat
    /\ tWaitAction \in WaitRecord /\ tSchedulingTimer \in TimerRecord

LEMMA FirstStartTypes ==
  ASSUME TimerTypes, NEW list \in Lists, NEW count \in 0..Len(list), NEW base \in Nat,
         user_platform_timer_first_start(list, count, base)
  PROVE  /\ unTimestamp' = base /\ unMinWaitSecond' \in Nat /\ pTimerWaitParam' = TRUE
         /\ tWaitAction' \in WaitRecord /\ tSchedulingTimer' \in TimerRecord
<1>1. PICK waits \in [1..count -> Int] : waits = WaitTimes(list, count, base)
  BY WaitsType
<1>2. PICK min \in Nat : min = esp_platform_find_min_time(waits)
  <2>1. count \in Nat
    BY ListType, ScheduleAssumption DEF Counts
  <2> QED
    BY <2>1, Shortest
<1>3. /\ unTimestamp' = base /\ unMinWaitSecond' = min /\ pTimerWaitParam' = TRUE
      /\ IF min = 0 THEN UNCHANGED timer
                    ELSE esp_platform_timer_schedule(list, count, waits, min)
  BY <1>1, <1>2 DEF user_platform_timer_first_start
<1>4. CASE min = 0
  BY <1>3, <1>4 DEF TimerTypes, timer
<1>5. CASE min # 0
  <2>1. user_esp_platform_wait_time_overflow_check(WaitFor(list, count, waits, min))
    BY <1>3, <1>5 DEF esp_platform_timer_schedule
  <2>2. WaitFor(list, count, waits, min) \in WaitRecord
    BY WaitForType DEF TimerTypes
  <2> QED
    BY <1>3, <2>1, <2>2, OverflowCheck DEF TimerTypes
<1> QED
  BY <1>4, <1>5

(* A list that is started from its base: the timer is armed for the next   *)
(* of its actions, and left alone where there is none.                     *)
LEMMA FirstStartMeans ==
  ASSUME TimerTypes, NEW list \in Lists, NEW base \in Nat,
         user_platform_timer_first_start(list, Len(list), base)
  PROVE  /\ unMinWaitSecond' = 0 => UNCHANGED timer
         /\ unMinWaitSecond' # 0 =>
               /\ tSchedulingTimer'.armed /\ now <= tSchedulingTimer'.due
               /\ tSchedulingTimer'.due
                    + (IF tSchedulingTimer'.fn = "overflow" THEN tWaitAction'.min_time_backup ELSE 0)
                  = now + unMinWaitSecond'
               /\ NextDue(list, base, unMinWaitSecond', tWaitAction')
         /\ Periodic(list) => unMinWaitSecond' # 0
<1>1. Len(list) \in Nat /\ Len(list) \in 0..Len(list) /\ DOMAIN list = 1..Len(list)
  BY ListType, ScheduleAssumption DEF Counts
<1>2. PICK waits \in [1..Len(list) -> Int] : waits = WaitTimes(list, Len(list), base)
  BY <1>1, WaitsType
<1>3. PICK min \in Nat : min = esp_platform_find_min_time(waits)
  BY <1>1, Shortest
<1>4. /\ unMinWaitSecond' = min
      /\ IF min = 0 THEN UNCHANGED timer
                    ELSE esp_platform_timer_schedule(list, Len(list), waits, min)
  BY <1>2, <1>3 DEF user_platform_timer_first_start
<1>5. ASSUME min # 0
      PROVE  /\ tSchedulingTimer'.armed /\ now <= tSchedulingTimer'.due
             /\ tSchedulingTimer'.due
                  + (IF tSchedulingTimer'.fn = "overflow" THEN tWaitAction'.min_time_backup ELSE 0)
                = now + min
             /\ NextDue(list, base, min, tWaitAction')
  <2>1. PICK wait : wait = WaitFor(list, Len(list), waits, min)
    OBVIOUS
  <2>2. wait \in WaitRecord
    BY <1>1, <2>1, WaitForType DEF TimerTypes
  <2>3. NextDue(list, base, min, wait)
    BY <1>2, <1>3, <1>5, <2>1, WaitForMeans DEF TimerTypes
  <2>4. user_esp_platform_wait_time_overflow_check(wait)
    BY <1>4, <1>5, <2>1 DEF esp_platform_timer_schedule
  <2>5. wait.min_time_backup = min
    BY <2>1 DEF WaitFor
  <2>6. /\ tSchedulingTimer'.armed /\ now <= tSchedulingTimer'.due
        /\ tSchedulingTimer'.due
             + (IF tSchedulingTimer'.fn = "overflow" THEN tWaitAction'.min_time_backup ELSE 0)
           = now + min
        /\ tWaitAction'.count = wait.count /\ tWaitAction'.action = wait.action
        /\ tWaitAction'.action_number = wait.action_number
    BY <2>2, <2>4, <2>5, OverflowCheck DEF TimerTypes
  <2>7. NextDue(list, base, min, tWaitAction')
    BY <2>3, <2>6 DEF NextDue
  <2> QED
    BY <2>6, <2>7
<1>6. ASSUME Periodic(list) PROVE min # 0
  <2>1. PICK i \in 1..Len(list) : list[i].mode \in {"l", "w"}
    BY <1>1, <1>6 DEF Periodic
  <2>2. waits[i] > 0
    <3>1. list[i] \in Timers
      BY ListType
    <3>2. WaitTime(list[i], base) > 0
      BY <2>1, <3>1, WaitType
    <3>3. waits[i] = WaitTime(list[i], base)
      BY <1>2 DEF WaitTimes
    <3> QED
      BY <3>2, <3>3
  <2> QED
    BY <1>1, <1>3, <2>2, Shortest
<1> QED
  BY <1>4, <1>5, <1>6


-----------------------------------------------------------------------------
(* The types, by what a step touches together.                             *)
BaseTypes   == unTimestamp \in Nat /\ unMinWaitSecond \in Nat
ListTypes   == pTimerSplitsStrings \in Lists /\ sTimerSplitsString \in Lists /\ flash \in Lists
ServerTypes ==
    /\ http \in {"idle", "freed", "backup", "start", "reset"} /\ request \in Requests
    /\ sntp \in {"off", "check", "done"}
ActionTypes ==
    /\ device_action \in [i : 0..TIMER_NUMBER+1, count : Counts, action_number : Counts]
    /\ performed \in Seq(Actions) /\ late \in Nat
Booleans    == up \in BOOLEAN /\ pTimerWaitParam \in BOOLEAN /\ disturbed \in BOOLEAN

BufferTypes == pSplitBuffer \in {"null", "held", "freed"} /\ spoilt \in BOOLEAN

LEMMA TypeParts ==
  TypeOK <=> /\ TimerTypes /\ BaseTypes /\ ListTypes /\ ServerTypes /\ ActionTypes /\ Booleans
             /\ BufferTypes
  BY DEF TypeOK, TimerTypes, BaseTypes, ListTypes, ServerTypes, ActionTypes, Booleans,
         BufferTypes, WaitRecord, TimerRecord

Parts == TimerTypes /\ BaseTypes /\ ListTypes /\ ServerTypes /\ ActionTypes /\ Booleans

Shape == Armable /\ Handled /\ SwitchedOff

ScheduleInd == Parts /\ Shape /\ Undisturbed

LEMMA NoList == <<>> \in Lists /\ <<>> \in Requests /\ ~Periodic(<<>>)
  BY DEF Lists, Requests, Periodic

LEMMA NoTimerType == NoTimer \in TimerRecord /\ ~NoTimer.armed
  BY DEF NoTimer, TimerRecord

LEMMA NoActionType ==
  /\ NoAction \in [i : 0..TIMER_NUMBER+1, count : Counts, action_number : Counts]
  /\ NoAction.i = 0
  BY ScheduleAssumption DEF NoAction, Counts

(* The timer context.                                                      *)
LEMMA OverflowStep == ASSUME ScheduleInd, OverflowExpires PROVE ScheduleInd'
<1>1. /\ tSchedulingTimer.armed /\ tSchedulingTimer.due <= now /\ ~InCallback
      /\ tSchedulingTimer.fn = "overflow"
      /\ user_esp_platform_wait_time_overflow_check(tWaitAction)
      /\ UNCHANGED <<now, up, ram, param, sntp, device_action, server, history>>
  BY DEF OverflowExpires, Expired
<1>2. /\ tWaitAction \in WaitRecord /\ now \in Nat
      /\ tSchedulingTimer \in TimerRecord /\ tSchedulingTimer.due \in Nat
  BY DEF ScheduleInd, Parts, TimerTypes, TimerRecord
<1>3. /\ tWaitAction' \in WaitRecord /\ tSchedulingTimer' \in TimerRecord
      /\ tSchedulingTimer'.armed /\ now <= tSchedulingTimer'.due
      /\ tSchedulingTimer'.due
             + (IF tSchedulingTimer'.fn = "overflow" THEN tWaitAction'.min_time_backup ELSE 0)
           = now + tWaitAction.min_time_backup
      /\ tWaitAction'.count = tWaitAction.count /\ tWaitAction'.action = tWaitAction.action
      /\ tWaitAction'.action_number = tWaitAction.action_number
  BY <1>1, <1>2, OverflowCheck
<1>4. Parts'
  BY <1>1, <1>3 DEF ScheduleInd, Parts, TimerTypes, BaseTypes, ListTypes, ServerTypes, ActionTypes,
                    Booleans, ram, param, server, history
<1>5. Shape'
  BY <1>1, <1>3 DEF ScheduleInd, Shape, Armable, Handled, SwitchedOff, InCallback,
                    ram, param, server, history
<1>6. ASSUME ~disturbed' PROVE Setting' /\ Scheduled'
  <2>1. Setting /\ Scheduled
    BY <1>1, <1>6 DEF ScheduleInd, Undisturbed, history
  <2>2. Setting'
    BY <1>1, <2>1 DEF Setting, InCallback, ram, server, history
  <2>3. ASSUME http = "idle" PROVE Awaited'
    <3>1. Awaited
      BY <1>1, <2>1, <2>3 DEF Scheduled
    <3>2. tSchedulingTimer.due = now
      BY <1>1, <1>2, <3>1 DEF Awaited
    <3>3. now + tWaitAction.min_time_backup = Goal + late
      BY <1>1, <3>1, <3>2 DEF Awaited
    <3>4. Goal' = Goal /\ late' = late /\ now' = now /\ ~InCallback'
      BY <1>1 DEF Goal, InCallback, ram, history
    <3> QED
      BY <1>3, <3>3, <3>4 DEF Awaited
  <2>4. ASSUME http = "idle"
        PROVE  /\ NextDue(pTimerSplitsStrings, unTimestamp, unMinWaitSecond, tWaitAction)'
               /\ sTimerSplitsString' = pTimerSplitsStrings'
    <3>1. /\ NextDue(pTimerSplitsStrings, unTimestamp, unMinWaitSecond, tWaitAction)
          /\ sTimerSplitsString = pTimerSplitsStrings
      BY <1>1, <2>1, <2>4 DEF Scheduled
    <3> QED
      BY <1>1, <1>3, <3>1 DEF NextDue, ram, param
  <2>5. Scheduled'
    <3>1. http' = http /\ ~InCallback'
      BY <1>1 DEF server, InCallback
    <3> QED
      BY <1>3, <2>3, <2>4, <3>1 DEF Scheduled
  <2> QED
    BY <2>2, <2>5
<1> QED
  BY <1>4, <1>5, <1>6 DEF ScheduleInd, Undisturbed

LEMMA ActionStep == ASSUME ScheduleInd, ActionExpires PROVE ScheduleInd'
<1>1. /\ up /\ tSchedulingTimer.armed /\ tSchedulingTimer.due <= now /\ ~InCallback
      /\ tSchedulingTimer.fn = "action"
      /\ tSchedulingTimer' = [tSchedulingTimer EXCEPT !.armed = FALSE]
      /\ device_action' = [i |-> 1, count |-> tWaitAction.count,
                           action_number |-> tWaitAction.action_number]
      /\ disturbed' = (disturbed \/ http # "idle")
      /\ UNCHANGED <<now, up, ram, tWaitAction, param, sntp, server, performed, late>>
  BY DEF ActionExpires, Expired
<1>2. /\ tWaitAction \in WaitRecord /\ now \in Nat
      /\ tSchedulingTimer \in TimerRecord /\ tSchedulingTimer.due \in Nat
      /\ tWaitAction.count \in Counts /\ tWaitAction.action_number \in Counts
  BY DEF ScheduleInd, Parts, TimerTypes, TimerRecord, WaitRecord
<1>3. tSchedulingTimer' \in TimerRecord /\ ~tSchedulingTimer'.armed
  BY <1>1, <1>2 DEF TimerRecord
<1>4. /\ device_action' \in [i : 0..TIMER_NUMBER+1, count : Counts, action_number : Counts]
      /\ device_action'.i = 1 /\ device_action'.count = tWaitAction.count
      /\ device_action'.action_number = tWaitAction.action_number
  BY <1>1, <1>2, ScheduleAssumption
<1>5. performed' = <<>>
  BY <1>1 DEF ScheduleInd, Shape, Armable
<1>6. Parts'
  <2>1. Booleans'
    BY <1>1, Zenon DEF ScheduleInd, Parts, Booleans, ram
  <2> QED
    BY <1>1, <1>3, <1>4, <2>1
    DEF ScheduleInd, Parts, TimerTypes, BaseTypes, ListTypes, ServerTypes, ActionTypes,
        ram, param, server
<1>7. Shape'
  <2>1. tWaitAction.action_number \in Nat
    BY <1>2, ScheduleAssumption DEF Counts
  <2> QED
    BY <1>1, <1>3, <1>4, <2>1
    DEF ScheduleInd, Shape, Armable, Handled, SwitchedOff, InCallback, ram, param, server
<1>8. ASSUME ~disturbed' PROVE Setting' /\ Scheduled'
  <2>1. ~disturbed /\ http = "idle" /\ http' = "idle"
    BY <1>1, <1>8 DEF server
  <2>2. Setting'
    BY <2>1 DEF Setting
  <2>3. Awaited /\ NextDue(pTimerSplitsStrings, unTimestamp, unMinWaitSecond, tWaitAction)
        /\ sTimerSplitsString = pTimerSplitsStrings
    BY <1>1, <2>1 DEF ScheduleInd, Undisturbed, Scheduled
  <2>4. now = Goal + late
    BY <1>1, <1>2, <2>3 DEF Awaited
  <2>5. Performing'
    <3>1. Planned(0)' = <<>>
      BY DEF Planned
    <3>2. performed' = Planned(device_action.i - 1)'
      BY <1>4, <1>5, <3>1
    <3>3. now' = Goal' + late'
      BY <1>1, <2>4 DEF Goal, ram
    <3> QED
      BY <1>1, <1>3, <1>4, <3>2, <3>3 DEF Performing
  <2>6. Scheduled'
    BY <1>1, <1>3, <1>4, <2>3, <2>5 DEF Scheduled, InCallback, ram, param
  <2> QED
    BY <2>2, <2>6
<1> QED
  BY <1>6, <1>7, <1>8 DEF ScheduleInd, Undisturbed

LEMMA DeviceActionStep == ASSUME ScheduleInd, user_esp_platform_device_action PROVE ScheduleInd'
<1> DEFINE action == tWaitAction.action[device_action.i]
<1>1. /\ up /\ InCallback /\ device_action.i <= device_action.action_number /\ action # "0"
      /\ UNCHANGED <<now, up, ram, timer, param, sntp, server, late, disturbed>>
  BY DEF user_esp_platform_device_action, ToPerform
<1>2. /\ device_action \in [i : 0..TIMER_NUMBER+1, count : Counts, action_number : Counts]
      /\ device_action.i \in 1..TIMER_NUMBER /\ performed \in Seq(Actions)
      /\ device_action.action_number \in Nat
      /\ tWaitAction \in WaitRecord
  <2>1. /\ device_action \in [i : 0..TIMER_NUMBER+1, count : Counts, action_number : Counts]
        /\ performed \in Seq(Actions) /\ tWaitAction \in WaitRecord
    BY DEF ScheduleInd, Parts, ActionTypes, TimerTypes
  <2>2. device_action.i \in Nat /\ device_action.i # 0 /\ device_action.action_number \in 0..TIMER_NUMBER
    BY <1>1, <2>1, ScheduleAssumption DEF InCallback, Counts
  <2> QED
    BY <1>1, <2>1, <2>2, ScheduleAssumption
<1>3. action \in Actions
  BY <1>2 DEF WaitRecord
<1> HIDE DEF action
<1>4. CASE action \notin Known
  <2>1. device_action' = NoAction /\ performed' = <<>>
    BY <1>4 DEF user_esp_platform_device_action, action
  <2>2. Parts'
    BY <1>1, <2>1, NoActionType
    DEF ScheduleInd, Parts, TimerTypes, BaseTypes, ListTypes, ServerTypes, ActionTypes, Booleans,
        ram, timer, param, server
  <2>3. Shape'
    BY <1>1, <2>1, NoActionType
    DEF ScheduleInd, Shape, Armable, Handled, SwitchedOff, InCallback, ram, timer, param, server
  <2>4. ASSUME ~disturbed' PROVE Setting' /\ Scheduled'
    <3>1. Setting /\ Scheduled /\ ~InCallback'
      BY <1>1, <2>1, <2>4, NoActionType DEF ScheduleInd, Undisturbed, InCallback
    <3>2. Setting'
      BY <1>1, <3>1 DEF Setting, ram, server, timer
    <3>3. ASSUME http = "idle"
          PROVE  ~tSchedulingTimer.armed /\ ~Periodic(pTimerSplitsStrings)
      <4>1. Performing /\ NextDue(pTimerSplitsStrings, unTimestamp, unMinWaitSecond, tWaitAction)
        BY <1>1, <3>1, <3>3 DEF Scheduled
      <4>2. /\ DOMAIN DueActions(pTimerSplitsStrings, Goal) = 1..tWaitAction.action_number
            /\ \A k \in 1..tWaitAction.action_number :
                  DueActions(pTimerSplitsStrings, Goal)[k] \in Covers
                     => tWaitAction.action[k] = DueActions(pTimerSplitsStrings, Goal)[k]
        BY <4>1 DEF NextDue, Goal
      <4> DEFINE due == {i \in DOMAIN pTimerSplitsStrings : Due(pTimerSplitsStrings[i], Goal)}
      <4>3. DueActions(pTimerSplitsStrings, Goal)
              = [k \in 1..Cardinality(due) |-> pTimerSplitsStrings[Nth(due, k)].action]
        BY DEF DueActions
      <4>4. Len(pTimerSplitsStrings) \in Nat /\ DOMAIN pTimerSplitsStrings = 1..Len(pTimerSplitsStrings)
        BY ListType, ScheduleAssumption DEF ScheduleInd, Parts, ListTypes, Counts
      <4>5. due \in SUBSET (1..Len(pTimerSplitsStrings))
        BY <4>4
      <4> HIDE DEF due
      <4>6. /\ Cardinality(due) \in Nat
            /\ \A k \in 1..Cardinality(due) : Nth(due, k) \in 1..Len(pTimerSplitsStrings)
        <5>1. PICK n \in Nat : n = Len(pTimerSplitsStrings)
          BY <4>4
        <5>2. due \in SUBSET (1..n)
          BY <4>5, <5>1
        <5>3. Cardinality(due) \in 0..n /\ \A k \in 1..Cardinality(due) : Nth(due, k) \in due
          BY <5>2, Counted
        <5> QED
          <6>1. Cardinality(due) \in Nat
            BY <5>3
          <6>2. \A k \in 1..Cardinality(due) : Nth(due, k) \in due
            BY <5>3
          <6> QED
            BY <5>1, <5>2, <6>1, <6>2
      <4>7. tWaitAction.action_number = device_action.action_number
        BY <4>1 DEF Performing
      <4>8. device_action.i \in 1..tWaitAction.action_number
        BY <1>1, <1>2, <4>7
      <4>9. \E i \in 1..Len(pTimerSplitsStrings) : pTimerSplitsStrings[i].action \notin Known \cup {"0"}
        <5>1. PICK k \in 1..tWaitAction.action_number : k = device_action.i
          BY <4>8
        <5>2. /\ 1..tWaitAction.action_number = DOMAIN DueActions(pTimerSplitsStrings, Goal)
              /\ DueActions(pTimerSplitsStrings, Goal)[k] \notin Known \cup {"0"}
          BY <1>1, <1>4, <4>2, <5>1 DEF action, Covers
        <5>3. DOMAIN DueActions(pTimerSplitsStrings, Goal) = 1..Cardinality(due)
          BY <4>3
        <5>4. k \in 1..Cardinality(due)
          BY <5>1, <5>2, <5>3
        <5>5. pTimerSplitsStrings[Nth(due, k)].action \notin Known \cup {"0"}
          BY <4>3, <5>2, <5>4
        <5> QED
          BY <4>6, <5>4, <5>5
      <4> QED
        BY <4>1, <4>4, <4>9 DEF Performing, Periodic
    <3>4. Scheduled'
      BY <1>1, <3>1, <3>3 DEF Scheduled, ram, timer, param, server
    <3> QED
      BY <3>2, <3>4
  <2> QED
    BY <2>2, <2>3, <2>4 DEF ScheduleInd, Undisturbed
<1>5. CASE action \in Known
  <2>1. /\ device_action' = [device_action EXCEPT !.i = @ + 1]
        /\ performed' = Append(performed, action)
    BY <1>5 DEF user_esp_platform_device_action, action
  <2>2. /\ device_action' \in [i : 0..TIMER_NUMBER+1, count : Counts, action_number : Counts]
        /\ device_action'.i = device_action.i + 1 /\ device_action'.count = device_action.count
        /\ device_action'.action_number = device_action.action_number
    <3>1. PICK i \in 0..TIMER_NUMBER+1 : i = device_action.i + 1
      BY <1>2, ScheduleAssumption
    <3>2. device_action' = [device_action EXCEPT !.i = i]
      BY <2>1, <3>1
    <3> QED
      BY <1>2, <3>1, <3>2
  <2>3. performed' \in Seq(Actions)
    BY <1>2, <1>3, <2>1
  <2>4. Parts'
    BY <1>1, <2>2, <2>3
    DEF ScheduleInd, Parts, TimerTypes, BaseTypes, ListTypes, ServerTypes, ActionTypes, Booleans,
        ram, timer, param, server
  <2>5. InCallback'
    BY <1>2, <2>2 DEF InCallback
  <2>6. Shape'
    <3>1. device_action'.i <= device_action'.action_number + 1
      BY <1>1, <1>2, <2>2
    <3> QED
      BY <1>1, <2>5, <3>1
      DEF ScheduleInd, Shape, Armable, Handled, SwitchedOff, ram, timer, param, server
  <2>7. ASSUME ~disturbed' PROVE Setting' /\ Scheduled'
    <3>1. Setting /\ Scheduled
      BY <1>1, <2>7 DEF ScheduleInd, Undisturbed
    <3>2. Setting'
      BY <1>1, <2>5, <3>1 DEF Setting, ram, server, timer
    <3>3. ASSUME http = "idle" PROVE Performing'
      <4>1. Performing
        BY <1>1, <3>1, <3>3 DEF Scheduled
      <4>2. PICK i \in 1..TIMER_NUMBER : i = device_action.i
        BY <1>2
      <4>3. performed = Planned(i - 1)
        BY <4>1, <4>2 DEF Performing
      <4>4. Append(performed, action) = Planned(i)
        <5>1. Len(performed) = i - 1
          BY <4>2, <4>3, ScheduleAssumption DEF Planned
        <5>2. \A k \in 1..i : Append(performed, action)[k] = tWaitAction.action[k]
          <6>1. /\ \A k \in 1..i-1 : Append(performed, action)[k] = performed[k]
                /\ Append(performed, action)[i] = action
            BY <1>2, <1>3, <4>2, <5>1, ScheduleAssumption
          <6>2. \A k \in 1..i-1 : performed[k] = tWaitAction.action[k]
            BY <4>3 DEF Planned
          <6>3. action = tWaitAction.action[i]
            BY <4>2 DEF action
          <6>4. \A k \in 1..i : k \in 1..i-1 \/ k = i
            OBVIOUS
          <6> QED
            BY <6>1, <6>2, <6>3, <6>4
        <5>3. Append(performed, action) = [k \in 1..i |-> Append(performed, action)[k]]
          <6>1. PICK s : s = Append(performed, action)
            OBVIOUS
          <6>2. s \in Seq(Actions) /\ Len(s) = i
            BY <1>2, <1>3, <4>2, <5>1, <6>1, ScheduleAssumption
          <6>3. s = [k \in 1..i |-> s[k]]
            BY <6>2
          <6> QED
            BY <6>1, <6>3
        <5> QED
          BY <5>2, <5>3 DEF Planned
      <4>5. performed' = Planned(device_action.i - 1)'
        <5>1. device_action'.i - 1 = i /\ tWaitAction' = tWaitAction
          BY <1>1, <2>2, <4>2 DEF timer
        <5>2. Planned(device_action.i - 1)' = Planned(i)
          BY <5>1 DEF Planned
        <5> QED
          BY <2>1, <4>4, <5>2
      <4> QED
        BY <1>1, <2>2, <4>1, <4>5 DEF Performing, Goal, ram, timer
    <3>4. Scheduled'
      <4>1. http = "idle" => ~tSchedulingTimer.armed
        BY <1>1, <3>1 DEF Scheduled, Performing
      <4> QED
        BY <1>1, <2>5, <3>1, <3>3, <4>1 DEF Scheduled, ram, timer, param, server
    <3> QED
      BY <3>2, <3>4
  <2> QED
    BY <2>4, <2>6, <2>7 DEF ScheduleInd, Undisturbed
<1> QED
  BY <1>4, <1>5


(* A list that was started, and is now waited for.                         *)
LEMMA StartedScheduled ==
  ASSUME TimerTypes, BaseTypes, late \in Nat,
         NEW list \in Lists, NEW base \in Nat,
         user_platform_timer_first_start(list, Len(list), base),
         pTimerSplitsStrings' = list, sTimerSplitsString' = list, now' = now,
         ~InCallback', now = base + late', late' \in Nat,
         unMinWaitSecond' = 0 => ~tSchedulingTimer.armed
  PROVE  Scheduled'
<1>1. /\ unTimestamp' = base /\ unMinWaitSecond' \in Nat
      /\ tWaitAction' \in WaitRecord /\ tSchedulingTimer' \in TimerRecord
  <2>1. Len(list) \in 0..Len(list)
    BY ListType, ScheduleAssumption DEF Counts
  <2> QED
    BY <2>1, FirstStartTypes
<1>2. CASE unMinWaitSecond' = 0
  <2>1. ~tSchedulingTimer'.armed /\ ~Periodic(list)
    BY <1>2, FirstStartMeans DEF timer
  <2> QED
    BY <2>1 DEF Scheduled
<1>3. CASE unMinWaitSecond' # 0
  <2>1. /\ tSchedulingTimer'.armed /\ now <= tSchedulingTimer'.due
        /\ tSchedulingTimer'.due
             + (IF tSchedulingTimer'.fn = "overflow" THEN tWaitAction'.min_time_backup ELSE 0)
           = now + unMinWaitSecond'
        /\ NextDue(list, base, unMinWaitSecond', tWaitAction')
    BY <1>3, FirstStartMeans
  <2>2. Awaited'
    <3>1. now + unMinWaitSecond' = base + unMinWaitSecond' + late'
      BY <1>1
    <3> QED
      BY <1>1, <2>1, <3>1 DEF Awaited, Goal
  <2>3. NextDue(pTimerSplitsStrings, unTimestamp, unMinWaitSecond, tWaitAction)'
    BY <1>1, <2>1 DEF NextDue
  <2> QED
    BY <2>1, <2>2, <2>3 DEF Scheduled
<1> QED
  BY <1>2, <1>3

LEMMA PowerOffStep ==
  ASSUME ScheduleInd, PowerOff, now' = now
  PROVE  ScheduleInd'
<1>1. Parts'
  <2>1. NoWait \in WaitRecord
    BY ScheduleAssumption DEF NoWait, WaitRecord, Counts, Actions
  <2>2. TimerTypes' /\ BaseTypes'
    BY <2>1, NoTimerType DEF PowerOff, ScheduleInd, Parts, TimerTypes, BaseTypes
  <2>3. ListTypes' /\ ServerTypes'
    BY NoList DEF PowerOff, ScheduleInd, Parts, ListTypes, ServerTypes
  <2>4. ActionTypes'
    BY NoActionType DEF PowerOff, ActionTypes
  <2>5. Booleans'
    BY Zenon DEF PowerOff, Booleans
  <2> QED
    BY <2>2, <2>3, <2>4, <2>5 DEF Parts
<1>2. ~InCallback' /\ ~tSchedulingTimer'.armed /\ http' = "idle" /\ pTimerSplitsStrings' = <<>>
  BY NoActionType, NoTimerType DEF PowerOff, InCallback
<1>3. Shape'
  BY <1>2 DEF PowerOff, Shape, Armable, Handled, SwitchedOff
<1>4. Setting' /\ Scheduled'
  BY <1>2, NoList DEF Setting, Scheduled
<1> QED
  BY <1>1, <1>3, <1>4 DEF ScheduleInd, Undisturbed

LEMMA RearmStep == ASSUME ScheduleInd, Rearm PROVE ScheduleInd'
<1>1. up /\ InCallback /\ now' = now
  BY DEF Rearm
<1>2. CASE Traps(device_action.count)
  BY <1>1, <1>2, PowerOffStep DEF Rearm
<1>3. CASE ~Traps(device_action.count)
  <2>1. /\ user_platform_timer_first_start(pTimerSplitsStrings, device_action.count,
                                           unTimestamp + unMinWaitSecond)
        /\ device_action' = NoAction /\ performed' = <<>>
        /\ UNCHANGED <<up, pTimerSplitsStrings, param, sntp, server, late, disturbed>>
    BY <1>3 DEF Rearm
  <2>2. PICK base \in Nat : base = unTimestamp + unMinWaitSecond
    BY DEF ScheduleInd, Parts, BaseTypes
  <2>3. /\ pTimerSplitsStrings \in Lists /\ TimerTypes /\ late \in Nat /\ BaseTypes
        /\ Len(pTimerSplitsStrings) \in Nat
    BY ListType, ScheduleAssumption DEF ScheduleInd, Parts, ListTypes, ActionTypes, Counts
  <2>4. device_action.count \in 0..Len(pTimerSplitsStrings)
    <3>1. device_action.count \in Nat
      BY ScheduleAssumption DEF ScheduleInd, Parts, ActionTypes, Counts
    <3> QED
      BY <1>3, <2>3, <3>1 DEF Traps
  <2>5. /\ unTimestamp' = base /\ unMinWaitSecond' \in Nat /\ pTimerWaitParam' = TRUE
        /\ tWaitAction' \in WaitRecord /\ tSchedulingTimer' \in TimerRecord
    BY <2>1, <2>2, <2>3, <2>4, FirstStartTypes
  <2>6. Parts'
    BY <1>1, <2>1, <2>2, <2>5, NoActionType
    DEF ScheduleInd, Parts, TimerTypes, BaseTypes, ListTypes, ServerTypes, ActionTypes, Booleans,
        param, server
  <2>7. ~InCallback'
    BY <2>1, NoActionType DEF InCallback
  <2>8. Shape'
    BY <1>1, <2>1, <2>5, <2>7
    DEF ScheduleInd, Shape, Armable, Handled, SwitchedOff, param, server
  <2>9. ASSUME ~disturbed' PROVE Setting' /\ Scheduled'
    <3>1. Setting /\ Scheduled
      BY <2>1, <2>9 DEF ScheduleInd, Undisturbed
    <3>2. http = "idle"
      BY <1>1, <3>1 DEF Setting, ScheduleInd, Parts, ServerTypes
    <3>3. Setting'
      BY <2>1, <3>2 DEF Setting, server
    <3>4. /\ Performing /\ sTimerSplitsString = pTimerSplitsStrings
          /\ NextDue(pTimerSplitsStrings, unTimestamp, unMinWaitSecond, tWaitAction)
      BY <1>1, <3>1, <3>2 DEF Scheduled
    <3>5. device_action.count = Len(pTimerSplitsStrings)
      BY <3>4 DEF Performing, NextDue
    <3>6. user_platform_timer_first_start(pTimerSplitsStrings, Len(pTimerSplitsStrings), base)
      BY <2>1, <2>2, <3>5
    <3>7. now = base + late /\ ~tSchedulingTimer.armed
      BY <2>2, <3>4 DEF Performing, Goal
    <3>8. Scheduled'
      <4>1. /\ pTimerSplitsStrings' = pTimerSplitsStrings /\ late' = late
            /\ sTimerSplitsString' = pTimerSplitsStrings
        BY <2>1, <3>4 DEF param
      <4> QED
        BY <1>1, <2>2, <2>3, <2>7, <3>6, <3>7, <4>1, StartedScheduled
    <3> QED
      BY <3>3, <3>8
  <2> QED
    BY <2>6, <2>8, <2>9 DEF ScheduleInd, Undisturbed
<1> QED
  BY <1>2, <1>3

LEMMA SntpStep == ASSUME ScheduleInd, user_check_sntp_stamp PROVE ScheduleInd'
<1>1. /\ up /\ ~InCallback /\ sntp' = "done"
      /\ UNCHANGED <<now, up, param, device_action, server, performed>>
  BY DEF user_check_sntp_stamp
<1>2. ~InCallback'
  BY <1>1 DEF InCallback
<1>3. CASE pTimerWaitParam
  <2>1. UNCHANGED <<ram, timer, late, disturbed>>
    BY <1>3 DEF user_check_sntp_stamp
  <2>2. Parts'
    BY <1>1, <2>1
    DEF ScheduleInd, Parts, TimerTypes, BaseTypes, ListTypes, ServerTypes, ActionTypes, Booleans,
        ram, timer, param, server
  <2>3. Shape'
    BY <1>1, <1>2, <2>1
    DEF ScheduleInd, Shape, Armable, Handled, SwitchedOff, ram, timer, param, server
  <2>4. ASSUME ~disturbed' PROVE Setting' /\ Scheduled'
    <3>1. Setting /\ Scheduled
      BY <2>1, <2>4 DEF ScheduleInd, Undisturbed
    <3> QED
      BY <1>1, <1>2, <2>1, <3>1 DEF Setting, Scheduled, Awaited, Goal, ram, timer, param, server
  <2> QED
    BY <2>2, <2>3, <2>4 DEF ScheduleInd, Undisturbed
<1>4. CASE ~pTimerWaitParam
  <2>1. user_platform_timer_restore /\ disturbed' = (disturbed \/ http # "idle")
    BY <1>4 DEF user_check_sntp_stamp
  <2>2. ~tSchedulingTimer.armed
    BY <1>4 DEF ScheduleInd, Shape, Armable
  <2>3. disturbed' \in BOOLEAN
    BY <2>1, Zenon DEF ScheduleInd, Parts, Booleans
  <2>4. /\ sTimerSplitsString \in Lists /\ TimerTypes /\ BaseTypes /\ now \in Nat /\ late \in Nat
        /\ Len(sTimerSplitsString) \in 0..Len(sTimerSplitsString)
    BY ListType, ScheduleAssumption DEF ScheduleInd, Parts, ListTypes, TimerTypes, ActionTypes, Counts
  <2>5. CASE sTimerSplitsString = <<>>
    <3>1. /\ unTimestamp' = 0
          /\ UNCHANGED <<unMinWaitSecond, pTimerSplitsStrings, pTimerWaitParam, timer, late>>
      BY <2>1, <2>5 DEF user_platform_timer_restore
    <3>2. Parts'
      <4>1. Booleans'
        BY <1>1, <2>3, <3>1 DEF ScheduleInd, Parts, Booleans
      <4> QED
        BY <1>1, <3>1, <4>1
        DEF ScheduleInd, Parts, TimerTypes, BaseTypes, ListTypes, ServerTypes, ActionTypes,
            timer, param, server
    <3>3. Shape'
      BY <1>1, <1>2, <3>1
      DEF ScheduleInd, Shape, Armable, Handled, SwitchedOff, timer, param, server
    <3>4. ASSUME ~disturbed' PROVE Setting' /\ Scheduled'
      BY <1>1, <1>2, <2>1, <2>2, <2>5, <3>1, <3>4 DEF Setting, Scheduled, timer, param, server
    <3> QED
      BY <3>2, <3>3, <3>4 DEF ScheduleInd, Undisturbed
  <2>6. CASE sTimerSplitsString # <<>>
    <3>1. /\ pTimerSplitsStrings' = sTimerSplitsString /\ late' = 0
          /\ user_platform_timer_first_start(sTimerSplitsString, Len(sTimerSplitsString), now)
      BY <2>1, <2>6 DEF user_platform_timer_restore
    <3>2. /\ unTimestamp' = now /\ unMinWaitSecond' \in Nat /\ pTimerWaitParam' = TRUE
          /\ tWaitAction' \in WaitRecord /\ tSchedulingTimer' \in TimerRecord
      BY <2>4, <3>1, FirstStartTypes
    <3>3. Parts'
      <4>1. Booleans'
        BY <1>1, <2>3, <3>2 DEF ScheduleInd, Parts, Booleans
      <4> QED
        BY <1>1, <3>1, <3>2, <4>1
        DEF ScheduleInd, Parts, TimerTypes, BaseTypes, ListTypes, ServerTypes, ActionTypes,
            param, server
    <3>4. Shape'
      BY <1>1, <1>2, <3>1, <3>2
      DEF ScheduleInd, Shape, Armable, Handled, SwitchedOff, param, server
    <3>5. ASSUME ~disturbed' PROVE Setting' /\ Scheduled'
      <4>1. http' = "idle"
        BY <1>1, <2>1, <3>5 DEF server
      <4>2. sTimerSplitsString' = sTimerSplitsString /\ now' = now
        BY <1>1 DEF param
      <4>3. now = now + late' /\ late' \in Nat
        BY <2>4, <3>1
      <4> QED
        BY <1>2, <2>2, <2>4, <3>1, <4>1, <4>2, <4>3, StartedScheduled DEF Setting
    <3> QED
      BY <3>3, <3>4, <3>5 DEF ScheduleInd, Undisturbed
  <2> QED
    BY <2>5, <2>6
<1> QED
  BY <1>3, <1>4


-----------------------------------------------------------------------------
(* The HTTP server.                                                        *)
LEMMA StartStep ==
  ASSUME ScheduleInd, NEW req \in Requests, user_platform_timer_start(req)
  PROVE  ScheduleInd'
<1>1. /\ up /\ http = "idle" /\ unMinWaitSecond' = 0 /\ unTimestamp' = now
      /\ pTimerSplitsStrings' = <<>> /\ http' = "freed" /\ request' = req
      /\ late' = 0 /\ disturbed' = InCallback
      /\ UNCHANGED <<now, up, pTimerWaitParam, timer, param, sntp, device_action, performed>>
  BY DEF user_platform_timer_start
<1>2. Parts'
  <2>1. Booleans'
    <3>1. InCallback \in BOOLEAN
      BY DEF InCallback
    <3> QED
      BY <1>1, <3>1, Zenon DEF ScheduleInd, Parts, Booleans
  <2> QED
    BY <1>1, <2>1, NoList
    DEF ScheduleInd, Parts, TimerTypes, BaseTypes, ListTypes, ServerTypes, ActionTypes,
        timer, param
<1>3. Shape'
  BY <1>1 DEF ScheduleInd, Shape, Armable, Handled, SwitchedOff, InCallback, timer, param
<1>4. ASSUME ~disturbed' PROVE Setting' /\ Scheduled'
  <2>1. ~InCallback' /\ now \in Nat
    BY <1>1, <1>4 DEF InCallback, ScheduleInd, Parts, TimerTypes
  <2> QED
    BY <1>1, <2>1 DEF Setting, Scheduled
<1> QED
  BY <1>2, <1>3, <1>4 DEF ScheduleInd, Undisturbed

LEMMA BadTimestampStep == ASSUME ScheduleInd, StartBadTimestamp PROVE ScheduleInd'
<1>1. /\ up /\ http = "idle" /\ unMinWaitSecond' = 0
      /\ disturbed' = (disturbed \/ tSchedulingTimer.armed \/ InCallback)
      /\ UNCHANGED <<now, up, unTimestamp, pTimerSplitsStrings, pTimerWaitParam, timer, param,
                     sntp, device_action, server, performed, late>>
  BY DEF StartBadTimestamp
<1>2. Parts'
  <2>1. disturbed' \in BOOLEAN
    BY <1>1 DEF ScheduleInd, Parts, Booleans, TimerTypes, TimerRecord, InCallback
  <2>2. Booleans'
    BY <1>1, <2>1 DEF ScheduleInd, Parts, Booleans
  <2> QED
    BY <1>1, <2>2
    DEF ScheduleInd, Parts, TimerTypes, BaseTypes, ListTypes, ServerTypes, ActionTypes,
        timer, param, server
<1>3. Shape'
  BY <1>1 DEF ScheduleInd, Shape, Armable, Handled, SwitchedOff, InCallback, timer, param, server
<1>4. ASSUME ~disturbed' PROVE Setting' /\ Scheduled'
  <2>1. ~disturbed /\ ~tSchedulingTimer'.armed /\ ~InCallback' /\ ~InCallback /\ ~tSchedulingTimer.armed
    BY <1>1, <1>4 DEF InCallback, timer
  <2> QED
    BY <1>1, <2>1 DEF ScheduleInd, Undisturbed, Setting, Scheduled, param, server
<1> QED
  BY <1>2, <1>3, <1>4 DEF ScheduleInd, Undisturbed

LEMMA EmptyStep == ASSUME ScheduleInd, StartEmpty PROVE ScheduleInd'
<1>1. /\ up /\ http = "freed" /\ tSchedulingTimer' = NoTimer /\ http' = "idle" /\ request' = <<>>
      /\ UNCHANGED <<now, up, ram, tWaitAction, param, sntp, device_action, history>>
  BY DEF StartEmpty
<1>2. Parts'
  BY <1>1, NoTimerType, NoList
  DEF ScheduleInd, Parts, TimerTypes, BaseTypes, ListTypes, ServerTypes, ActionTypes, Booleans,
      ram, param, history
<1>3. Shape'
  BY <1>1, NoTimerType
  DEF ScheduleInd, Shape, Armable, Handled, SwitchedOff, InCallback, ram, param, history
<1>4. ASSUME ~disturbed' PROVE Setting' /\ Scheduled'
  <2>1. pTimerSplitsStrings' = <<>> /\ ~InCallback'
    BY <1>1, <1>4 DEF ScheduleInd, Undisturbed, Setting, InCallback, ram, history
  <2> QED
    BY <1>1, <2>1, NoTimerType, NoList DEF Setting, Scheduled
<1> QED
  BY <1>2, <1>3, <1>4 DEF ScheduleInd, Undisturbed

LEMMA GivenUpStep ==
  ASSUME ScheduleInd, StartTooLong \/ StartMissing
  PROVE  ScheduleInd'
<1>1. /\ up /\ http = "freed" /\ http' = "idle" /\ request' = <<>>
      /\ disturbed' = (disturbed \/ tSchedulingTimer.armed)
      /\ UNCHANGED <<now, up, unTimestamp, unMinWaitSecond, pTimerSplitsStrings, pTimerWaitParam,
                     timer, param, sntp, device_action, performed, late>>
  BY DEF StartTooLong, StartMissing, GivenUp
<1>2. Parts'
  <2>1. disturbed' \in BOOLEAN
    BY <1>1 DEF ScheduleInd, Parts, Booleans, TimerTypes, TimerRecord
  <2>2. Booleans'
    BY <1>1, <2>1 DEF ScheduleInd, Parts, Booleans
  <2> QED
    BY <1>1, <2>2, NoList
    DEF ScheduleInd, Parts, TimerTypes, BaseTypes, ListTypes, ServerTypes, ActionTypes,
        timer, param
<1>3. Shape'
  BY <1>1 DEF ScheduleInd, Shape, Armable, Handled, SwitchedOff, InCallback, timer, param
<1>4. ASSUME ~disturbed' PROVE Setting' /\ Scheduled'
  <2>1. pTimerSplitsStrings' = <<>> /\ ~InCallback' /\ ~tSchedulingTimer'.armed
    BY <1>1, <1>4 DEF ScheduleInd, Undisturbed, Setting, InCallback, timer
  <2> QED
    BY <1>1, <2>1, NoList DEF Setting, Scheduled
<1> QED
  BY <1>2, <1>3, <1>4 DEF ScheduleInd, Undisturbed

LEMMA SplitStep == ASSUME ScheduleInd, StartSplit PROVE ScheduleInd'
<1>1. /\ up /\ http = "freed" /\ request \in Schedules /\ http' = "backup"
      /\ pTimerSplitsStrings' = request /\ sTimerSplitsString' = request
      /\ UNCHANGED <<now, up, unTimestamp, unMinWaitSecond, pTimerWaitParam, timer, flash,
                     sntp, device_action, request, performed, late, disturbed>>
  BY DEF StartSplit
<1>2. Parts'
  BY <1>1
  DEF ScheduleInd, Parts, TimerTypes, BaseTypes, ListTypes, ServerTypes, ActionTypes, Booleans,
      Lists, timer
<1>3. Shape'
  BY <1>1 DEF ScheduleInd, Shape, Armable, Handled, SwitchedOff, InCallback, timer
<1>4. ASSUME ~disturbed' PROVE Setting' /\ Scheduled'
  BY <1>1, <1>4 DEF ScheduleInd, Undisturbed, Setting, Scheduled, InCallback
<1> QED
  BY <1>2, <1>3, <1>4 DEF ScheduleInd, Undisturbed

LEMMA BackupStep == ASSUME ScheduleInd, user_platform_timer_bkup PROVE ScheduleInd'
<1>1. /\ up /\ http = "backup" /\ http' = "start" /\ flash' \in {sTimerSplitsString, flash}
      /\ UNCHANGED <<now, up, ram, timer, sTimerSplitsString, sntp, device_action, request, history>>
  BY DEF user_platform_timer_bkup
<1>2. Parts'
  BY <1>1
  DEF ScheduleInd, Parts, TimerTypes, BaseTypes, ListTypes, ServerTypes, ActionTypes, Booleans,
      ram, timer, history
<1>3. Shape'
  BY <1>1 DEF ScheduleInd, Shape, Armable, Handled, SwitchedOff, InCallback, ram, timer, history
<1>4. ASSUME ~disturbed' PROVE Setting' /\ Scheduled'
  BY <1>1, <1>4 DEF ScheduleInd, Undisturbed, Setting, Scheduled, InCallback, ram, history
<1> QED
  BY <1>2, <1>3, <1>4 DEF ScheduleInd, Undisturbed

LEMMA FirstStep == ASSUME ScheduleInd, StartFirst PROVE ScheduleInd'
<1>1. /\ up /\ http = "start" /\ http' = "idle" /\ request' = <<>>
      /\ user_platform_timer_first_start(pTimerSplitsStrings, Len(request),
                                         unTimestamp + unMinWaitSecond)
      /\ disturbed' = (disturbed \/ (tSchedulingTimer.armed /\ unMinWaitSecond' = 0))
      /\ UNCHANGED <<now, up, pTimerSplitsStrings, param, sntp, device_action, performed, late>>
  BY DEF StartFirst
<1>2. /\ request = pTimerSplitsStrings /\ sTimerSplitsString = pTimerSplitsStrings
      /\ pTimerSplitsStrings \in Lists
  BY <1>1 DEF ScheduleInd, Shape, Handled, Parts, ListTypes
<1>3. PICK base \in Nat : base = unTimestamp + unMinWaitSecond
  BY DEF ScheduleInd, Parts, BaseTypes
<1>4. user_platform_timer_first_start(pTimerSplitsStrings, Len(pTimerSplitsStrings), base)
  BY <1>1, <1>2, <1>3
<1>5. TimerTypes /\ BaseTypes /\ late \in Nat /\ now \in Nat
  BY DEF ScheduleInd, Parts, ActionTypes, TimerTypes
<1>6. /\ unTimestamp' = base /\ unMinWaitSecond' \in Nat /\ pTimerWaitParam' = TRUE
      /\ tWaitAction' \in WaitRecord /\ tSchedulingTimer' \in TimerRecord
  <2>1. Len(pTimerSplitsStrings) \in 0..Len(pTimerSplitsStrings)
    BY <1>2, ListType, ScheduleAssumption DEF Counts
  <2> QED
    BY <1>2, <1>4, <1>5, <2>1, FirstStartTypes
<1>7. Parts'
  <2>1. disturbed' \in BOOLEAN
    BY <1>1 DEF ScheduleInd, Parts, Booleans, TimerTypes, TimerRecord
  <2>2. Booleans'
    BY <1>1, <1>6, <2>1 DEF ScheduleInd, Parts, Booleans
  <2> QED
    BY <1>1, <1>6, <2>2, NoList
    DEF ScheduleInd, Parts, TimerTypes, BaseTypes, ListTypes, ServerTypes, ActionTypes, param
<1>8. Shape'
  BY <1>1, <1>6 DEF ScheduleInd, Shape, Armable, Handled, SwitchedOff, InCallback, param
<1>9. ASSUME ~disturbed' PROVE Setting' /\ Scheduled'
  <2>1. ~InCallback /\ unMinWaitSecond = 0 /\ now = unTimestamp + late
    BY <1>1, <1>9 DEF ScheduleInd, Undisturbed, Setting
  <2>2. unMinWaitSecond' = 0 => ~tSchedulingTimer.armed
    BY <1>1, <1>9
  <2>3. /\ ~InCallback' /\ late' = late /\ now' = now
        /\ pTimerSplitsStrings' = pTimerSplitsStrings /\ sTimerSplitsString' = pTimerSplitsStrings
    BY <1>1, <1>2, <2>1 DEF InCallback, param
  <2>4. now = base + late'
    BY <1>3, <1>5, <2>1, <2>3 DEF BaseTypes
  <2>5. Scheduled'
    BY <1>2, <1>4, <1>5, <2>2, <2>3, <2>4, StartedScheduled
  <2> QED
    BY <1>1, <2>5 DEF Setting
<1> QED
  BY <1>7, <1>8, <1>9 DEF ScheduleInd, Undisturbed

LEMMA ResetStep == ASSUME ScheduleInd, user_platform_timer_reset PROVE ScheduleInd'
<1>1. /\ up /\ http = "idle" /\ http' = "reset" /\ tSchedulingTimer' = NoTimer
      /\ sTimerSplitsString' = <<>> /\ disturbed' = (disturbed \/ InCallback)
      /\ UNCHANGED <<now, up, ram, tWaitAction, flash, sntp, device_action, request,
                     performed, late>>
  BY DEF user_platform_timer_reset, Disarm
<1>2. Parts'
  <2>1. disturbed' \in BOOLEAN
    BY <1>1 DEF ScheduleInd, Parts, Booleans, InCallback
  <2>2. Booleans'
    BY <1>1, <2>1 DEF ScheduleInd, Parts, Booleans, ram
  <2> QED
    BY <1>1, <2>2, NoList, NoTimerType
    DEF ScheduleInd, Parts, TimerTypes, BaseTypes, ListTypes, ServerTypes, ActionTypes, ram
<1>3. Shape'
  BY <1>1, NoTimerType DEF ScheduleInd, Shape, Armable, Handled, SwitchedOff, InCallback, ram
<1>4. ASSUME ~disturbed' PROVE Setting' /\ Scheduled'
  BY <1>1, <1>4, NoTimerType DEF Setting, Scheduled, InCallback
<1> QED
  BY <1>2, <1>3, <1>4 DEF ScheduleInd, Undisturbed

LEMMA ResetSavedStep == ASSUME ScheduleInd, ResetSaved PROVE ScheduleInd'
<1>1. /\ up /\ http = "reset" /\ http' = "idle" /\ flash' \in {sTimerSplitsString, flash}
      /\ UNCHANGED <<now, up, ram, timer, sTimerSplitsString, sntp, device_action, request, history>>
  BY DEF ResetSaved
<1>2. Parts'
  BY <1>1
  DEF ScheduleInd, Parts, TimerTypes, BaseTypes, ListTypes, ServerTypes, ActionTypes, Booleans,
      ram, timer, history
<1>3. Shape'
  BY <1>1 DEF ScheduleInd, Shape, Armable, Handled, SwitchedOff, InCallback, ram, timer, history
<1>4. ASSUME ~disturbed' PROVE Setting' /\ Scheduled'
  BY <1>1, <1>4
  DEF ScheduleInd, Shape, Handled, Undisturbed, Setting, Scheduled, InCallback, timer, history
<1> QED
  BY <1>2, <1>3, <1>4 DEF ScheduleInd, Undisturbed

LEMMA CleanStep == ASSUME ScheduleInd, DAT_nFlashDataClean PROVE ScheduleInd'
<1>1. /\ up /\ http = "idle" /\ sTimerSplitsString' = <<>> /\ flash' = <<>>
      /\ disturbed' = (disturbed \/ tSchedulingTimer.armed \/ InCallback)
      /\ UNCHANGED <<now, up, ram, timer, sntp, device_action, server, performed, late>>
  BY DEF DAT_nFlashDataClean
<1>2. Parts'
  <2>1. disturbed' \in BOOLEAN
    BY <1>1 DEF ScheduleInd, Parts, Booleans, TimerTypes, TimerRecord, InCallback
  <2>2. Booleans'
    BY <1>1, <2>1 DEF ScheduleInd, Parts, Booleans, ram
  <2> QED
    BY <1>1, <2>2, NoList
    DEF ScheduleInd, Parts, TimerTypes, BaseTypes, ListTypes, ServerTypes, ActionTypes,
        ram, timer, server
<1>3. Shape'
  BY <1>1 DEF ScheduleInd, Shape, Armable, Handled, SwitchedOff, InCallback, ram, timer, server
<1>4. ASSUME ~disturbed' PROVE Setting' /\ Scheduled'
  BY <1>1, <1>4 DEF Setting, Scheduled, InCallback, timer, server
<1> QED
  BY <1>2, <1>3, <1>4 DEF ScheduleInd, Undisturbed

-----------------------------------------------------------------------------
(* The rest of the plug, and the time.                                     *)
LEMMA ConnectedStep == ASSUME ScheduleInd, PLTF_startSBTP PROVE ScheduleInd'
<1>1. sntp' = "check" /\ UNCHANGED <<now, up, ram, timer, param, device_action, server, history>>
  BY DEF PLTF_startSBTP
<1>2. Parts'
  BY <1>1
  DEF ScheduleInd, Parts, TimerTypes, BaseTypes, ListTypes, ServerTypes, ActionTypes, Booleans,
      ram, timer, param, server, history
<1>3. Shape'
  BY <1>1
  DEF ScheduleInd, Shape, Armable, Handled, SwitchedOff, InCallback, ram, timer, param, server, history
<1>4. ASSUME ~disturbed' PROVE Setting' /\ Scheduled'
  BY <1>1, <1>4
  DEF ScheduleInd, Undisturbed, Setting, Scheduled, Awaited, Performing, Planned, Goal, InCallback,
      ram, timer, param, server, history
<1> QED
  BY <1>2, <1>3, <1>4 DEF ScheduleInd, Undisturbed

LEMMA InitStep == ASSUME ScheduleInd, systemInit PROVE ScheduleInd'
<1>1. /\ ~up /\ up' = TRUE /\ sTimerSplitsString' = flash
      /\ UNCHANGED <<now, ram, timer, flash, sntp, device_action, server, history>>
  BY DEF systemInit
<1>2. /\ http = "idle" /\ pTimerSplitsStrings = <<>> /\ ~tSchedulingTimer.armed /\ ~InCallback
      /\ ~pTimerWaitParam
  BY <1>1 DEF ScheduleInd, Shape, SwitchedOff
<1>3. Parts'
  BY <1>1
  DEF ScheduleInd, Parts, TimerTypes, BaseTypes, ListTypes, ServerTypes, ActionTypes, Booleans,
      ram, timer, server, history
<1>4. Shape'
  BY <1>1, <1>2
  DEF ScheduleInd, Shape, Armable, Handled, SwitchedOff, InCallback, ram, timer, server, history
<1>5. Setting' /\ Scheduled'
  BY <1>1, <1>2, NoList DEF Setting, Scheduled, InCallback, ram, timer, server
<1> QED
  BY <1>3, <1>4, <1>5 DEF ScheduleInd, Undisturbed

LEMMA TickStep == ASSUME ScheduleInd, Tick PROVE ScheduleInd'
<1>1. /\ ~Expired /\ http # "freed" /\ now' = now + 1
      /\ IF up /\ Waiting THEN late' = late + 1 ELSE late' = late
      /\ UNCHANGED <<up, ram, timer, param, sntp, device_action, server, performed, disturbed>>
  BY DEF Tick
<1>2. now \in Nat /\ late \in Nat /\ late' \in Nat
  BY <1>1 DEF ScheduleInd, Parts, TimerTypes, ActionTypes
<1>3. Parts'
  BY <1>1, <1>2
  DEF ScheduleInd, Parts, TimerTypes, BaseTypes, ListTypes, ServerTypes, ActionTypes, Booleans,
      ram, timer, param, server
<1>4. Shape'
  BY <1>1
  DEF ScheduleInd, Shape, Armable, Handled, SwitchedOff, InCallback, ram, timer, param, server
<1>5. ASSUME ~disturbed' PROVE Setting' /\ Scheduled'
  <2>1. Setting /\ Scheduled /\ BaseTypes
    BY <1>1, <1>5 DEF ScheduleInd, Undisturbed, Parts
  <2>2. InCallback' = InCallback /\ Goal' = Goal
    BY <1>1 DEF InCallback, Goal, ram
  <2>3. Setting'
    <3>1. CASE http \in {"backup", "start"}
      <4>1. up
        BY <3>1 DEF ScheduleInd, Shape, SwitchedOff
      <4>2. now' = now + 1 /\ late' = late + 1
        BY <1>1, <3>1, <4>1 DEF Waiting
      <4> QED
        BY <1>1, <1>2, <2>1, <2>2, <3>1, <4>2 DEF Setting, BaseTypes, ram, timer, server
    <3>2. CASE http \notin {"backup", "start"}
      BY <1>1, <2>1, <2>2, <3>2 DEF Setting, ram, timer, server
    <3> QED
      BY <3>1, <3>2
  <2>4. ASSUME http = "idle", tSchedulingTimer.armed PROVE Awaited'
    <3>1. Awaited /\ tSchedulingTimer.due \in Int
      BY <2>1, <2>4 DEF Scheduled, ScheduleInd, Parts, TimerTypes, TimerRecord
    <3>2. up
      BY <2>4 DEF ScheduleInd, Shape, SwitchedOff
    <3>3. ~Waiting /\ tSchedulingTimer.due # now
      BY <1>1, <1>2, <2>4, <3>1, <3>2 DEF Awaited, Waiting, Expired
    <3>4. late' = late /\ now' <= tSchedulingTimer.due
      BY <1>1, <1>2, <3>1, <3>3 DEF Awaited
    <3> QED
      BY <1>1, <2>2, <3>1, <3>4 DEF Awaited, timer
  <2>5. ASSUME http = "idle", InCallback PROVE Performing'
    <3>1. Performing /\ up
      BY <2>1, <2>5 DEF Scheduled, ScheduleInd, Shape, SwitchedOff
    <3>2. late' = late + 1 /\ now' = now + 1
      BY <1>1, <2>5, <3>1 DEF Waiting
    <3>3. now' = Goal' + late'
      <4>1. Goal \in Nat
        BY <2>1 DEF BaseTypes, Goal
      <4> QED
        BY <1>2, <2>2, <3>1, <3>2, <4>1 DEF Performing
    <3>4. Planned(device_action.i - 1)' = Planned(device_action.i - 1)
      BY <1>1 DEF Planned, timer
    <3> QED
      BY <1>1, <3>1, <3>3, <3>4 DEF Performing, timer
  <2>6. Scheduled'
    BY <1>1, <2>1, <2>2, <2>4, <2>5 DEF Scheduled, ram, timer, param, server
  <2> QED
    BY <2>3, <2>6
<1> QED
  BY <1>3, <1>4, <1>5 DEF ScheduleInd, Undisturbed

-----------------------------------------------------------------------------
LEMMA ScheduleStart == Init => ScheduleInd
<1> SUFFICES ASSUME Init
             PROVE  ScheduleInd
  OBVIOUS
<1>1. Parts
  <2>1. NoWait \in WaitRecord
    BY ScheduleAssumption DEF NoWait, WaitRecord, Counts, Actions
  <2>2. TimerTypes /\ BaseTypes
    BY <2>1, NoTimerType DEF Init, TimerTypes, BaseTypes
  <2>3. ListTypes /\ ServerTypes
    BY NoList DEF Init, ListTypes, ServerTypes
  <2>4. ActionTypes
    BY NoActionType DEF Init, ActionTypes
  <2>5. Booleans
    BY Zenon DEF Init, Booleans
  <2> QED
    BY <2>2, <2>3, <2>4, <2>5 DEF Parts
<1>2. ~InCallback /\ ~tSchedulingTimer.armed
  BY NoActionType, NoTimerType DEF Init, InCallback
<1>3. Shape
  BY <1>2 DEF Init, Shape, Armable, Handled, SwitchedOff
<1>4. Setting /\ Scheduled
  BY <1>2, NoList DEF Init, Setting, Scheduled
<1> QED
  BY <1>1, <1>3, <1>4 DEF ScheduleInd, Undisturbed

LEMMA ScheduleStep == ScheduleInd /\ [Next]_vars => ScheduleInd'
<1> SUFFICES ASSUME ScheduleInd, [Next]_vars
             PROVE  ScheduleInd'
  OBVIOUS
<1>1. CASE OverflowExpires \/ ActionExpires \/ user_esp_platform_device_action \/ Rearm
  BY <1>1, OverflowStep, ActionStep, DeviceActionStep, RearmStep
<1>2. CASE user_check_sntp_stamp \/ PLTF_startSBTP \/ systemInit \/ Tick
  BY <1>2, SntpStep, ConnectedStep, InitStep, TickStep
<1>3. CASE \E req \in Requests : user_platform_timer_start(req)
  BY <1>3, StartStep
<1>4. CASE StartBadTimestamp \/ StartEmpty \/ StartMissing \/ StartTooLong \/ StartSplit
  BY <1>4, BadTimestampStep, EmptyStep, GivenUpStep, SplitStep
<1>5. CASE user_platform_timer_bkup \/ StartFirst
  BY <1>5, BackupStep, FirstStep
<1>6. CASE user_platform_timer_reset \/ ResetSaved \/ DAT_nFlashDataClean
  BY <1>6, ResetStep, ResetSavedStep, CleanStep
<1>7. CASE PowerDown
  BY <1>7, PowerOffStep DEF PowerDown
<1>8. CASE UNCHANGED vars
  <2>1. UNCHANGED <<now, up, ram, timer, param, sntp, device_action, server, history>>
    BY <1>8 DEF vars
  <2>2. Parts'
    BY <2>1
    DEF ScheduleInd, Parts, TimerTypes, BaseTypes, ListTypes, ServerTypes, ActionTypes, Booleans,
        ram, timer, param, server, history
  <2>3. Shape'
    BY <2>1
    DEF ScheduleInd, Shape, Armable, Handled, SwitchedOff, InCallback, ram, timer, param, server, history
  <2>4. ASSUME ~disturbed' PROVE Setting' /\ Scheduled'
    BY <2>1, <2>4
    DEF ScheduleInd, Undisturbed, Setting, Scheduled, Awaited, Performing, Planned, Goal, InCallback,
        ram, timer, param, server, history
  <2> QED
    BY <2>2, <2>3, <2>4 DEF ScheduleInd, Undisturbed
<1> QED
  BY <1>1, <1>2, <1>3, <1>4, <1>5, <1>6, <1>7, <1>8 DEF Next

(* The buffer of the list, which user_platform_timer_start frees.          *)
LEMMA BufferInvariant == Spec => []BufferTypes
<1>1. Init => BufferTypes
  BY DEF Init, BufferTypes
<1>2. BufferTypes /\ [Next]_vars => BufferTypes'
  <2> SUFFICES ASSUME BufferTypes, [Next]_vars
               PROVE  BufferTypes'
    OBVIOUS
  <2> USE DEF BufferTypes, ram, history
  <2>1. CASE OverflowExpires \/ ActionExpires \/ user_esp_platform_device_action \/ Rearm
    BY <2>1 DEF OverflowExpires, ActionExpires, user_esp_platform_device_action, Rearm, PowerOff
  <2>2. CASE user_check_sntp_stamp \/ PLTF_startSBTP \/ systemInit \/ Tick
    BY <2>2 DEF user_check_sntp_stamp, user_platform_timer_restore, PLTF_startSBTP, systemInit, Tick
  <2>3. CASE \E req \in Requests : user_platform_timer_start(req)
    BY <2>3 DEF user_platform_timer_start
  <2>4. CASE StartBadTimestamp \/ StartEmpty \/ StartMissing \/ StartTooLong \/ StartSplit
    BY <2>4 DEF StartBadTimestamp, StartEmpty, StartMissing, StartTooLong, StartSplit, FreeOld
  <2>5. CASE user_platform_timer_bkup \/ StartFirst
    BY <2>5 DEF user_platform_timer_bkup, StartFirst
  <2>6. CASE user_platform_timer_reset \/ ResetSaved \/ DAT_nFlashDataClean
    BY <2>6 DEF user_platform_timer_reset, ResetSaved, DAT_nFlashDataClean
  <2>7. CASE PowerDown
    BY <2>7 DEF PowerDown, PowerOff
  <2>8. CASE UNCHANGED vars
    BY <2>8 DEF vars
  <2> QED
    BY <2>1, <2>2, <2>3, <2>4, <2>5, <2>6, <2>7, <2>8 DEF Next
<1> QED
  BY <1>1, <1>2, PTL DEF Spec

(* The invariant the other two theorems rest on, for every list, week and  *)
(* hour: in particular that the base and the copy of the list go with the  *)
(* list that runs (user_esp_platform_timer.c).                             *)
THEOREM ScheduleInvariant == Spec => []ScheduleInd
  BY ScheduleStart, ScheduleStep, PTL DEF Spec

(* A schedule that nothing disturbed is on time, misses no action, keeps   *)
(* running, and is the one that is reported: ScheduleInv.                  *)
THEOREM SchedulesAreKept == Spec => []ScheduleInv
<1>1. ScheduleInd /\ BufferTypes => ScheduleInv
  <2> SUFFICES ASSUME ScheduleInd, BufferTypes
               PROVE  ScheduleInv
    OBVIOUS
  <2>1. TypeOK
    BY TypeParts DEF ScheduleInd, Parts
  <2>2. Settled => Scheduled /\ http = "idle"
    BY DEF ScheduleInd, Undisturbed, Settled
  <2>3. CountIsCurrent /\ ReportedIsRunning
    BY <2>2 DEF CountIsCurrent, ReportedIsRunning, Armed, Settled, Scheduled, Performing, NextDue
  <2>4. OnTime
    BY <2>2 DEF OnTime, Armed, Scheduled, Awaited
  <2>5. NothingMissed
    <3> SUFFICES ASSUME Armed, NEW time \in unTimestamp+1..Goal-1
                 PROVE  DueActions(pTimerSplitsStrings, time) = <<>>
      BY DEF NothingMissed
    <3>1. NextDue(pTimerSplitsStrings, unTimestamp, unMinWaitSecond, tWaitAction)
      BY <2>2 DEF Armed, Scheduled
    <3>2. time \in unTimestamp+1..unTimestamp+unMinWaitSecond-1
      BY ScheduleAssumption DEF Goal, ScheduleInd, Parts, BaseTypes
    <3> QED
      BY <3>1, <3>2 DEF NextDue
  <2>6. KeepsRunning
    BY <2>2 DEF KeepsRunning, Scheduled
  <2> QED
    BY <2>1, <2>3, <2>4, <2>5, <2>6 DEF ScheduleInv
<1> QED
  BY ScheduleInvariant, BufferInvariant, <1>1, PTL

(* A callback that went through has performed the actions that were due,   *)
(* in the order of the list, up to the first text that is none             *)
(* (user_esp_platform_device_action).                                      *)
THEOREM DueActionsArePerformed == Spec => DueActionsDone
<1>1. ScheduleInd /\ [Next]_vars
        => [Rearm /\ Settled => DoneAsMeant(DueActions(pTimerSplitsStrings, Goal))]_vars
  <2> SUFFICES ASSUME ScheduleInd, Rearm, Settled
               PROVE  DoneAsMeant(DueActions(pTimerSplitsStrings, Goal))
    OBVIOUS
  <2>1. /\ InCallback /\ ~ToPerform
        /\ device_action.i <= device_action.action_number + 1
        /\ device_action.i \in Nat \ {0} /\ device_action.action_number \in Nat
    BY ScheduleAssumption
    DEF Rearm, ScheduleInd, Shape, Armable, Parts, ActionTypes, Counts, InCallback
  <2>2. Performing /\ NextDue(pTimerSplitsStrings, unTimestamp, unMinWaitSecond, tWaitAction)
    BY <2>1 DEF ScheduleInd, Undisturbed, Settled, Scheduled
  <2>3. PICK i \in Nat \ {0}, n \in Nat :
           /\ i = device_action.i /\ n = tWaitAction.action_number /\ i <= n + 1
           /\ i <= n => tWaitAction.action[i] = "0"
    BY <2>1, <2>2 DEF Performing, ToPerform
  <2>4. PICK due : due = DueActions(pTimerSplitsStrings, Goal)
    OBVIOUS
  <2>5. /\ DOMAIN due = 1..n /\ Len(due) = n
        /\ \A k \in 1..n : due[k] \in Covers => tWaitAction.action[k] = due[k]
    <3>1. /\ DOMAIN due = 1..n
          /\ \A k \in 1..n : due[k] \in Covers => tWaitAction.action[k] = due[k]
      BY <2>2, <2>3, <2>4 DEF NextDue, Goal
    <3> DEFINE all == {j \in DOMAIN pTimerSplitsStrings : Due(pTimerSplitsStrings[j], Goal)}
    <3>2. due = [k \in 1..Cardinality(all) |-> pTimerSplitsStrings[Nth(all, k)].action]
      BY <2>4 DEF DueActions
    <3> HIDE DEF all
    <3>3. due = [k \in 1..n |-> due[k]]
      BY <3>1, <3>2
    <3> QED
      BY <3>1, <3>3
  <2>6. performed = [k \in 1..i-1 |-> tWaitAction.action[k]] /\ Len(performed) = i - 1
    BY <2>2, <2>3 DEF Performing, Planned
  <2>7. ASSUME NEW k \in 1..n, \A j \in 1..k : due[j] \in Known
        PROVE  k <= Len(performed) /\ performed[k] = due[k]
    <3>1. \A j \in 1..k : tWaitAction.action[j] = due[j] /\ tWaitAction.action[j] # "0"
      BY <2>5, <2>7 DEF Covers, Known
    <3>2. k <= i - 1
      BY <2>3, <3>1
    <3> QED
      BY <2>6, <3>1, <3>2
  <2>8. Len(performed) <= Len(due)
    BY <2>3, <2>5, <2>6
  <2>9. ASSUME NEW k \in DOMAIN due, \A j \in 1..k : due[j] \in Known
        PROVE  k <= Len(performed) /\ performed[k] = due[k]
    BY <2>5, <2>7, <2>9
  <2> QED
    BY <2>4, <2>8, <2>9 DEF DoneAsMeant
<1> QED
  BY ScheduleInvariant, <1>1, PTL DEF Spec, DueActionsDone
=============================================================================
