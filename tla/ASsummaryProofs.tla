--------------------------- MODULE ASsummaryProofs --------------------------
(***************************************************************************)
(* Proofs about the counters and the goroutines that use them, for every   *)
(* set of ASes and every number of conflicts, intervals and signals.       *)
(***************************************************************************)
EXTENDS ASsummary, Recursion, TLAPS, SequenceTheorems

-----------------------------------------------------------------------------
(* The lock.                                                               *)

Places == {"start", "idle", "returned", "wait", "lock", "relock",
           "summary", "final", "exit"} \cup CriticalSection

(* A goroutine in a critical section holds the lock, and there is no lock  *)
(* before main has allocated it.  That the lock is free does not follow    *)
(* from nobody being in a critical section: a failed write leaves it locked.*)
LockInv ==
  /\ pc \in [Goroutines -> Places]
  /\ \A g \in Goroutines : pc[g] \in CriticalSection => mutex = g
  /\ pc["main"] = "start" => mutex = "nil"

LEMMA InitLockInv == Init => LockInv
BY DEF Init, LockInv, Goroutines, Places, CriticalSection

(* Locking a free lock lets in one goroutine, as nobody else is inside.    *)
LEMMA LockKeepsLockInv ==
  ASSUME LockInv, NEW g \in Goroutines, NEW from \in Places, NEW to \in CriticalSection,
         from \notin CriticalSection, Lock(g, from, to)
  PROVE  LockInv'
<1>1. CASE mutex = "free" /\ GoTo(g, from, to) /\ mutex' = g
  <2>1. pc["main"] # "start"
    BY <1>1 DEF LockInv
  <2>2. \A h \in Goroutines : pc[h] \notin CriticalSection
    BY <1>1 DEF LockInv, Goroutines
  <2>3. pc' = [pc EXCEPT ![g] = to]
    BY <1>1 DEF GoTo
  <2>4. to \in Places /\ to # "start"
    BY DEF Places, CriticalSection
  <2>5. QED
    BY <1>1, <2>1, <2>2, <2>3, <2>4 DEF LockInv
<1>2. CASE mutex = "nil" /\ GoTo(g, from, from) /\ UNCHANGED mutex
  <2>1. pc' = pc
    BY <1>2 DEF GoTo, LockInv
  <2>2. QED
    BY <1>2, <2>1 DEF LockInv
<1>3. QED
  BY <1>1, <1>2 DEF Lock

(* A step of one goroutine that leaves the lock alone and enters no        *)
(* critical section but from one.                                          *)
LEMMA StayKeepsLockInv ==
  ASSUME LockInv, NEW g \in Goroutines, NEW from \in Places, NEW to \in Places \ {"start"},
         GoTo(g, from, to), to \in CriticalSection => from \in CriticalSection,
         mutex' = mutex
  PROVE  LockInv'
<1>1. pc' = [pc EXCEPT ![g] = to] /\ pc[g] = from
  BY DEF GoTo
<1>2. QED
  BY <1>1 DEF LockInv

(* A step that leaves a critical section and frees the lock.               *)
LEMMA UnlockKeepsLockInv ==
  ASSUME LockInv, NEW g \in Goroutines, NEW from \in CriticalSection,
         NEW to \in Places \ ({"start"} \cup CriticalSection),
         GoTo(g, from, to), mutex' = "free"
  PROVE  LockInv'
<1>1. pc' = [pc EXCEPT ![g] = to] /\ pc[g] = from
  BY DEF GoTo
<1>2. \A h \in Goroutines \ {g} : pc[h] \notin CriticalSection
  BY <1>1 DEF LockInv
<1>3. pc["main"] # "start"
  BY <1>1 DEF LockInv, Goroutines, CriticalSection
<1>4. QED
  BY <1>1, <1>2, <1>3 DEF LockInv

LEMMA NextKeepsLockInv == LockInv /\ [Next]_vars => LockInv'
<1> SUFFICES ASSUME LockInv, [Next]_vars PROVE LockInv'
  OBVIOUS
<1> USE DEF Goroutines, Places, CriticalSection
<1>1. CASE StartMain
  BY <1>1 DEF StartMain, GoTo, LockInv
<1>2. CASE StartMainFails
  BY <1>2, StayKeepsLockInv DEF StartMainFails
<1>3. CASE FindConflicts
  <2>1. GoTo("main", "idle", "lock") /\ mutex' = mutex
    BY <1>3 DEF FindConflicts
  <2>2. QED
    BY <2>1, StayKeepsLockInv
<1>4. CASE LockCounter
  BY <1>4, LockKeepsLockInv DEF LockCounter
<1>5. CASE LookUp
  BY <1>5, StayKeepsLockInv DEF LookUp
<1>6. ASSUME NEW from \in {"get", "insert"}, Count(from) PROVE LockInv'
  <2>1. mutex' = "free" /\ \E to \in {"idle", "lock"} : GoTo("main", from, to)
    BY <1>6 DEF Count
  <2>2. QED
    BY <2>1, UnlockKeepsLockInv
<1>7. CASE MapRace
  BY <1>7, StayKeepsLockInv DEF MapRace
<1>8. ASSUME NEW g \in {"main", "handler"}, NEW from \in {"idle", "wait"},
             StartCleanup(g, from)
      PROVE  LockInv'
  BY <1>8, StayKeepsLockInv DEF StartCleanup
<1>9. CASE StartTicker
  <2>1. GoTo("ticker", "start", "wait") /\ mutex' = mutex
    BY <1>9 DEF StartTicker
  <2>2. QED
    BY <2>1, StayKeepsLockInv
<1>10. CASE Tick
  BY <1>10, StayKeepsLockInv DEF Tick
<1>11. CASE LockToWrite
  BY <1>11, LockKeepsLockInv DEF LockToWrite
<1>12. CASE WriteInterval
  BY <1>12, UnlockKeepsLockInv DEF WriteInterval
<1>13. CASE WriteIntervalFails
  BY <1>13, StayKeepsLockInv DEF WriteIntervalFails
<1>14. CASE LockToReset
  BY <1>14, LockKeepsLockInv DEF LockToReset
<1>15. CASE Reset
  BY <1>15, UnlockKeepsLockInv DEF Reset
<1>16. CASE WaitForSignal
  BY <1>16, StayKeepsLockInv DEF WaitForSignal
<1>17. CASE SignalDropped
  BY <1>17 DEF SignalDropped, LockInv
<1>18. ASSUME NEW g \in {"main", "handler"}, Cleanup(g)
       PROVE  LockInv'
  <2>1. CASE PrintShortSummary(g)
    BY <2>1, StayKeepsLockInv DEF PrintShortSummary
  <2>2. CASE LockToFinish(g)
    BY <2>2, LockKeepsLockInv DEF LockToFinish
  <2>3. CASE CreateFinal(g)
    BY <2>3, StayKeepsLockInv DEF CreateFinal
  <2>4. CASE CreateFinalFails(g)
    BY <2>4, StayKeepsLockInv DEF CreateFinalFails
  <2>5. CASE WriteRows(g)
    BY <2>5, UnlockKeepsLockInv DEF WriteRows
  <2>6. CASE WriteRowsFails(g)
    BY <2>6, StayKeepsLockInv DEF WriteRowsFails
  <2>7. CASE Exit(g)
    BY <2>7, StayKeepsLockInv DEF Exit
  <2>8. CASE HeapProfileFails(g)
    BY <2>8, StayKeepsLockInv DEF HeapProfileFails
  <2>9. QED
    BY <1>18, <2>1, <2>2, <2>3, <2>4, <2>5, <2>6, <2>7, <2>8 DEF Cleanup
<1>19. CASE UNCHANGED vars
  BY <1>19 DEF vars, LockInv
<1>20. QED
  BY <1>1, <1>2, <1>3, <1>4, <1>5, <1>6, <1>7, <1>8, <1>9, <1>10, <1>11, <1>12,
     <1>13, <1>14, <1>15, <1>16, <1>17, <1>18, <1>19
  DEF Next, Main, Ticker, UpdateCounter, InsertCounter, EndMain, Signal

(* Two goroutines are never both between Lock and Unlock, with failing     *)
(* files and a lock that is not yet allocated included.                    *)
THEOREM MutualExclusionAlways == Spec => []MutualExclusion
<1>1. LockInv => MutualExclusion
  BY DEF LockInv, MutualExclusion
<1>2. QED
  BY <1>1, InitLockInv, NextKeepsLockInv, PTL DEF Spec

-----------------------------------------------------------------------------
(* The intervals.                                                          *)

(* What the interval files have and what the recent counters have add up to*)
(* no more than the counters.  Between the write and the reset the recent  *)
(* counters are in a file already and may not be added a second time.      *)
IntervalInv ==
  /\ pc["ticker"] \in Places /\ DOMAIN pc = Goroutines
  /\ counter \in [AS -> [Levels -> Nat]]
  /\ counterRecent \in [AS -> [Levels -> Nat]]
  /\ filed \in [AS -> [Levels -> Nat]]
  /\ CountedInOneInterval
  /\ pc["ticker"] \notin {"relock", "reset"} =>
       \A a \in AS, l \in Levels : filed[a][l] + counterRecent[a][l] <= counter[a][l]

(* A step that changes neither the files nor the counters, and does not    *)
(* bring the ticker from its reset to its write.                           *)
LEMMA OtherStepKeepsIntervalInv ==
  ASSUME IntervalInv, UNCHANGED <<counter, counterRecent, filed>>,
         DOMAIN pc' = Goroutines, pc'["ticker"] \in Places,
         pc["ticker"] \in {"relock", "reset"} => pc'["ticker"] \in {"relock", "reset"}
  PROVE  IntervalInv'
BY DEF IntervalInv, CountedInOneInterval

(* The same for a step of main or of a cleanup, which leaves the ticker    *)
(* where it is.                                                            *)
LEMMA OtherGoroutineKeepsIntervalInv ==
  ASSUME IntervalInv, UNCHANGED <<counter, counterRecent, filed>>,
         NEW g \in {"main", "handler"}, NEW from, NEW to, GoTo(g, from, to)
  PROVE  IntervalInv'
<1>1. pc' = [pc EXCEPT ![g] = to] /\ g # "ticker" /\ "ticker" \in DOMAIN pc
  BY DEF GoTo, IntervalInv, Goroutines
<1>2. QED
  BY <1>1, OtherStepKeepsIntervalInv DEF IntervalInv

(* Counting a conflict adds the same to a counter and to its recent one.   *)
LEMMA CountKeepsIntervalInv ==
  ASSUME IntervalInv, NEW from, Count(from)
  PROVE  IntervalInv'
<1> DEFINE u == Head(todo)
           one(a, l) == IF a = u.asn /\ l = u.level THEN 1 ELSE 0
<1>1. /\ counter' = [counter EXCEPT ![u.asn][u.level] = @ + 1]
      /\ counterRecent' = [counterRecent EXCEPT ![u.asn][u.level] = @ + 1]
      /\ filed' = filed
      /\ \E to : GoTo("main", from, to)
  BY DEF Count, history
<1>2. DOMAIN pc' = Goroutines /\ pc'["ticker"] = pc["ticker"]
  BY <1>1 DEF GoTo, IntervalInv, Goroutines
<1>3. ASSUME NEW c \in [AS -> [Levels -> Nat]]
      PROVE  LET d == [c EXCEPT ![u.asn][u.level] = @ + 1]
             IN  /\ d \in [AS -> [Levels -> Nat]]
                 /\ \A a \in AS, l \in Levels : d[a][l] = c[a][l] + one(a, l)
  <2> DEFINE d == [c EXCEPT ![u.asn][u.level] = @ + 1]
  <2>1. ASSUME NEW a \in AS
        PROVE  /\ d[a] \in [Levels -> Nat]
               /\ \A l \in Levels : d[a][l] = c[a][l] + one(a, l)
    <3>1. c[a] \in [Levels -> Nat]
      OBVIOUS
    <3>2. CASE a = u.asn
      <4>1. d[a] = [c[a] EXCEPT ![u.level] = @ + 1]
        BY <3>2
      <4>2. ASSUME NEW l \in Levels
            PROVE  d[a][l] = c[a][l] + (IF l = u.level THEN 1 ELSE 0)
        BY <3>1, <4>1
      <4>3. d[a] \in [Levels -> Nat]
        <5>1. \A l \in Levels : d[a][l] \in Nat
          BY <3>1, <4>2
        <5>2. d[a] = [l \in Levels |-> d[a][l]]
          BY <3>1, <4>1
        <5> HIDE DEF d
        <5>3. QED
          BY <5>1, <5>2
      <4>4. QED
        BY <3>2, <4>2, <4>3
    <3>3. CASE a # u.asn
      <4>1. d[a] = c[a]
        BY <3>3
      <4>2. QED
        BY <3>1, <3>3, <4>1
    <3>4. QED
      BY <3>2, <3>3
  <2>2. d = [a \in AS |-> d[a]]
    OBVIOUS
  <2>3. QED
    BY <2>1, <2>2
<1>4. /\ counter' \in [AS -> [Levels -> Nat]]
      /\ counterRecent' \in [AS -> [Levels -> Nat]]
      /\ \A a \in AS, l \in Levels :
           /\ counter'[a][l] = counter[a][l] + one(a, l)
           /\ counterRecent'[a][l] = counterRecent[a][l] + one(a, l)
  BY <1>1, <1>3 DEF IntervalInv
<1>5. ASSUME NEW a \in AS, NEW l \in Levels
      PROVE  /\ counter[a][l] \in Nat /\ counterRecent[a][l] \in Nat
             /\ filed[a][l] \in Nat /\ one(a, l) \in Nat
  BY DEF IntervalInv
<1> HIDE DEF one
<1>6. CountedInOneInterval'
  <2>1. SUFFICES ASSUME NEW a \in AS, NEW l \in Levels
                 PROVE  filed[a][l] <= counter[a][l] + one(a, l)
    BY <1>1, <1>4 DEF CountedInOneInterval
  <2>2. QED
    BY <1>5 DEF IntervalInv, CountedInOneInterval
<1>7. ASSUME pc["ticker"] \notin {"relock", "reset"}, NEW a \in AS, NEW l \in Levels
      PROVE  filed'[a][l] + counterRecent'[a][l] <= counter'[a][l]
  <2>1. filed[a][l] + counterRecent[a][l] <= counter[a][l]
    BY <1>7 DEF IntervalInv
  <2>2. QED
    BY <1>1, <1>4, <1>5, <2>1
<1>8. QED
  BY <1>1, <1>2, <1>4, <1>6, <1>7 DEF IntervalInv

(* Writing an interval file moves what it writes to filed, for all of the  *)
(* ASes or, when the file breaks off, for some.                            *)
LEMMA WriteKeepsIntervalInv ==
  ASSUME IntervalInv, GoTo("ticker", "write", "relock"), NEW written \in SUBSET AS,
         filed' = [a \in AS |-> IF a \in written
                               THEN [l \in Levels |-> filed[a][l] + counterRecent[a][l]]
                               ELSE filed[a]],
         UNCHANGED <<counter, counterRecent>>
  PROVE  IntervalInv'
<1>1. DOMAIN pc' = Goroutines /\ pc'["ticker"] = "relock" /\ pc["ticker"] = "write"
  BY DEF GoTo, IntervalInv, Goroutines
<1>2. filed' \in [AS -> [Levels -> Nat]]
  BY DEF IntervalInv
<1>3. ASSUME NEW a \in AS, NEW l \in Levels
      PROVE  filed'[a][l] <= counter[a][l]
  <2>1. filed[a][l] + counterRecent[a][l] <= counter[a][l] /\ filed[a][l] <= counter[a][l]
    BY <1>1 DEF IntervalInv, CountedInOneInterval
  <2>2. QED
    BY <2>1
<1>4. QED
  BY <1>1, <1>2, <1>3 DEF IntervalInv, CountedInOneInterval, Places

LEMMA InitIntervalInv == Init => IntervalInv
BY DEF Init, IntervalInv, CountedInOneInterval, Zero, Levels, Places, Goroutines

LEMMA NextKeepsIntervalInv == IntervalInv /\ [Next]_vars => IntervalInv'
<1> SUFFICES ASSUME IntervalInv, [Next]_vars PROVE IntervalInv'
  OBVIOUS
<1> USE DEF counters, recents, history
<1>1. CASE StartMain \/ StartMainFails
  BY <1>1, OtherGoroutineKeepsIntervalInv DEF StartMain, StartMainFails
<1>2. CASE FindConflicts
  <2>1. GoTo("main", "idle", "lock") /\ UNCHANGED <<counters, recents, filed>>
    BY <1>2 DEF FindConflicts
  <2>2. QED
    BY <2>1, OtherGoroutineKeepsIntervalInv
<1>3. ASSUME NEW g \in {"main", "handler"}, NEW from, NEW to, Lock(g, from, to)
      PROVE  IntervalInv'
  BY <1>3, OtherGoroutineKeepsIntervalInv DEF Lock
<1>4. CASE LookUp \/ MapRace \/ WaitForSignal
  BY <1>4, OtherGoroutineKeepsIntervalInv DEF LookUp, MapRace, WaitForSignal
<1>5. CASE UpdateCounter \/ InsertCounter
  BY <1>5, CountKeepsIntervalInv DEF UpdateCounter, InsertCounter
<1>6. ASSUME NEW g \in {"main", "handler"}, NEW from, StartCleanup(g, from)
      PROVE  IntervalInv'
  BY <1>6, OtherGoroutineKeepsIntervalInv DEF StartCleanup
<1>7. CASE StartTicker \/ Tick
  <2>1. /\ UNCHANGED <<counters, recents, filed>>
        /\ \/ GoTo("ticker", "start", "wait")
           \/ GoTo("ticker", "wait", "lock")
    BY <1>7 DEF StartTicker, Tick
  <2>2. DOMAIN pc' = Goroutines /\ pc'["ticker"] \in Places
        /\ pc["ticker"] \in {"start", "wait"}
    BY <2>1 DEF GoTo, IntervalInv, Goroutines, Places
  <2>3. QED
    BY <2>1, <2>2, OtherStepKeepsIntervalInv
<1>8. CASE LockToWrite \/ LockToReset
  <2>1. /\ UNCHANGED <<counters, recents, filed>>
        /\ \/ GoTo("ticker", "lock", "write") \/ GoTo("ticker", "lock", "lock")
           \/ GoTo("ticker", "relock", "reset") \/ GoTo("ticker", "relock", "relock")
    BY <1>8 DEF LockToWrite, LockToReset, Lock
  <2>2. /\ DOMAIN pc' = Goroutines /\ pc'["ticker"] \in Places
        /\ \/ pc["ticker"] = "lock"
           \/ pc'["ticker"] \in {"relock", "reset"}
    BY <2>1 DEF GoTo, IntervalInv, Goroutines, Places, CriticalSection
  <2>3. QED
    BY <2>1, <2>2, OtherStepKeepsIntervalInv
<1>9. CASE WriteInterval
  <2>1. filed' = [a \in AS |-> IF a \in AS
                              THEN [l \in Levels |-> filed[a][l] + counterRecent[a][l]]
                              ELSE filed[a]]
    BY <1>9 DEF WriteInterval
  <2>2. QED
    BY <1>9, <2>1, WriteKeepsIntervalInv DEF WriteInterval
<1>10. CASE WriteIntervalFails
  <2>1. PICK written :
          filed' = [a \in AS |-> IF a \in written
                                THEN [l \in Levels |-> filed[a][l] + counterRecent[a][l]]
                                ELSE filed[a]]
    BY <1>10 DEF WriteIntervalFails
  <2>2. filed' = [a \in AS |-> IF a \in written \cap AS
                              THEN [l \in Levels |-> filed[a][l] + counterRecent[a][l]]
                              ELSE filed[a]]
    BY <2>1
  <2>3. QED
    BY <1>10, <2>2, WriteKeepsIntervalInv DEF WriteIntervalFails
<1>11. CASE Reset
  <2>1. /\ counterRecent' = Zero
        /\ UNCHANGED <<counter, filed>>
        /\ DOMAIN pc' = Goroutines
        /\ pc'["ticker"] = "wait"
    BY <1>11 DEF Reset, GoTo, IntervalInv, Goroutines
  <2>2. ASSUME NEW a \in AS, NEW l \in Levels
        PROVE  filed[a][l] + Zero[a][l] <= counter[a][l]
    BY DEF IntervalInv, CountedInOneInterval, Zero
  <2>3. Zero \in [AS -> [Levels -> Nat]]
    BY DEF Zero
  <2>4. QED
    BY <2>1, <2>2, <2>3 DEF IntervalInv, CountedInOneInterval, Places
<1>12. CASE SignalDropped
  BY <1>12, OtherStepKeepsIntervalInv DEF SignalDropped, IntervalInv
<1>13. ASSUME NEW g \in {"main", "handler"}, Cleanup(g)
       PROVE  IntervalInv'
  <2>1. CASE LockToFinish(g)
    BY <1>3, <2>1 DEF LockToFinish
  <2>2. CASE ~LockToFinish(g)
    <3>1. /\ UNCHANGED <<counters, recents, filed>>
          /\ \E from, to : GoTo(g, from, to)
      BY <1>13, <2>2
      DEF Cleanup, HeapProfileFails, PrintShortSummary, CreateFinal,
          CreateFinalFails, WriteRows, WriteRowsFails, Exit
    <3>2. QED
      BY <3>1, OtherGoroutineKeepsIntervalInv
  <2>3. QED
    BY <2>1, <2>2
<1>14. CASE UNCHANGED vars
  BY <1>14, OtherStepKeepsIntervalInv DEF vars, IntervalInv
<1>15. QED
  BY <1>1, <1>2, <1>3, <1>4, <1>5, <1>6, <1>7, <1>8, <1>9, <1>10, <1>11, <1>12,
     <1>13, <1>14
  DEF Next, Main, Ticker, LockCounter, EndMain, Signal

(* No conflict is counted in two interval files.                           *)
THEOREM CountedInOneIntervalAlways == Spec => []CountedInOneInterval
<1>1. IntervalInv => CountedInOneInterval
  BY DEF IntervalInv
<1>2. QED
  BY <1>1, InitIntervalInv, NextKeepsIntervalInv, PTL DEF Spec
-----------------------------------------------------------------------------
(* Types, and the sums of an AS.                                           *)

(* While main is counting there is something to count, and the ticker      *)
(* waits for the lock only when an interval file may still follow.         *)
TypeInv ==
  /\ TypeOK
  /\ pc["main"] \in {"lock", "get", "insert"} => todo # <<>>
  /\ pc["ticker"] \in {"lock", "write"} => recentFilesCounter < MaxTicks

LEMMA InitTypeInv == Init => TypeInv /\ RelatedAtMostTotal
<1> SUFFICES ASSUME Init
             PROVE  TypeInv /\ RelatedAtMostTotal
  OBVIOUS
<1>1. Zero \in [AS -> [Levels -> Nat]] /\ todo \in Seq(Update)
  BY EmptySeq DEF Init, Zero
<1>2. TypeInv
  BY <1>1, ConstantsAssumption DEF Init, TypeInv, TypeOK, Goroutines, CriticalSection
<1>3. RelatedAtMostTotal
  BY DEF Init, RelatedAtMostTotal, Total, Zero, Levels
<1> QED
  BY <1>2, <1>3

(* A step of one goroutine that counts nothing.                            *)
LEMMA QuietStepKeepsTypeInv ==
  ASSUME TypeInv, NEW g \in Goroutines, NEW from, NEW to \in Places, GoTo(g, from, to),
         g = "main" /\ to \in {"lock", "get", "insert"} => from \in {"lock", "get", "insert"},
         g = "ticker" /\ to \in {"lock", "write"} =>
           from \in {"lock", "write"} \/ recentFilesCounter < MaxTicks,
         outcome' \in {"running", "returned", "panicked", "exited"},
         mutex' \in {"nil", "free"} \cup Goroutines,
         originsFile' \subseteq Row, reported' \subseteq AS,
         signals' \in 0..MaxSignals, atCleanup' \in [AS -> [Levels -> Nat]],
         UNCHANGED <<counters, recents, todo, countConflicts, recentFilesCounter, filed>>
  PROVE  TypeInv'
<1>1. pc' = [pc EXCEPT ![g] = to] /\ pc[g] = from
  BY DEF GoTo
<1>2. pc' \in [Goroutines -> Places] /\ pc \in [Goroutines -> Places]
  BY <1>1 DEF TypeInv, TypeOK, Places
<1>3. /\ pc'["main"] = IF g = "main" THEN to ELSE pc["main"]
      /\ pc'["ticker"] = IF g = "ticker" THEN to ELSE pc["ticker"]
  BY <1>1, <1>2 DEF Goroutines
<1> QED
  BY <1>1, <1>2, <1>3 DEF TypeInv, TypeOK, counters, recents, Places

(* The rows of the final file.                                             *)
LEMMA RowsAreRows ==
  ASSUME TypeInv, NEW S \in SUBSET originCounters
  PROVE  Rows(S) \subseteq Row
BY DEF TypeInv, TypeOK, Rows, Row

(* One more conflict at a level of an AS, and n more related ones.         *)
OneMore(c, a, l) == [c EXCEPT ![a][l] = @ + 1]
More(t, a, n) == [t EXCEPT ![a] = @ + n]

(* It is one more in total.                                                *)
LEMMA OneMoreInTotal ==
  ASSUME NEW c \in [AS -> [Levels -> Nat]], NEW a \in AS, NEW l \in Levels
  PROVE  /\ OneMore(c, a, l) \in [AS -> [Levels -> Nat]]
         /\ \A b \in AS :
              Total(OneMore(c, a, l), b) = Total(c, b) + (IF b = a THEN 1 ELSE 0)
<1> DEFINE d == OneMore(c, a, l)
           row == [c[a] EXCEPT ![l] = @ + 1]
<1>1. \A b \in AS : c[b] \in [Levels -> Nat]
  OBVIOUS
<1>2. \A k \in Levels : row[k] = c[a][k] + (IF k = l THEN 1 ELSE 0)
  BY <1>1
<1>3. row \in [Levels -> Nat]
  <2>1. row = [k \in Levels |-> row[k]]
    BY <1>1
  <2>2. \A k \in Levels : row[k] \in Nat
    BY <1>1, <1>2
  <2> HIDE DEF row
  <2> QED
    BY <2>1, <2>2
<1>4. d = [c EXCEPT ![a] = row]
  BY DEF OneMore
<1>5. \A b \in AS : d[b] = IF b = a THEN row ELSE c[b]
  BY <1>4
<1>6. d \in [AS -> [Levels -> Nat]]
  BY <1>3, <1>4
<1> HIDE DEF d
<1>7. Total(d, a) = Total(c, a) + 1
  <2>1. d[a] = row
    BY <1>5
  <2>2. \A k \in Levels : c[a][k] \in Nat
    BY <1>1
  <2>3. l = "lessSpecific" \/ l = "sameSubnet" \/ l = "moreSpecific"
    BY DEF Levels
  <2>4. {"lessSpecific", "sameSubnet", "moreSpecific"} = Levels
    BY DEF Levels
  <2> HIDE DEF row
  <2> QED
    BY <1>2, <2>1, <2>2, <2>3, <2>4 DEF Total
<1>8. ASSUME NEW b \in AS, b # a
      PROVE  Total(d, b) = Total(c, b) + 0
  <2>1. d[b] = c[b]
    BY <1>5, <1>8
  <2>2. \A k \in Levels : c[b][k] \in Nat
    BY <1>1
  <2> QED
    BY <2>1, <2>2 DEF Total, Levels
<1> QED
  BY <1>6, <1>7, <1>8 DEF d

(* A conflict counted adds at least as much to the total as to the related *)
(* ones.                                                                   *)
LEMMA RelatedStayBelowTotal ==
  ASSUME NEW c \in [AS -> [Levels -> Nat]], NEW t \in [AS -> Nat], NEW a \in AS,
         NEW l \in Levels, NEW n \in {0, 1}, \A b \in AS : t[b] <= Total(c, b)
  PROVE  /\ OneMore(c, a, l) \in [AS -> [Levels -> Nat]]
         /\ More(t, a, n) \in [AS -> Nat]
         /\ \A b \in AS : More(t, a, n)[b] <= Total(OneMore(c, a, l), b)
<1>1. More(t, a, n) \in [AS -> Nat]
  BY DEF More
<1>2. \A b \in AS : More(t, a, n)[b] = t[b] + (IF b = a THEN n ELSE 0)
  BY DEF More
<1>3. \A b \in AS : Total(c, b) \in Nat /\ t[b] \in Nat
  BY DEF Total, Levels
<1>4. ASSUME NEW b \in AS
      PROVE  More(t, a, n)[b] <= Total(OneMore(c, a, l), b)
  <2>1. Total(OneMore(c, a, l), b) = Total(c, b) + (IF b = a THEN 1 ELSE 0)
    BY OneMoreInTotal
  <2>2. t[b] <= Total(c, b) /\ Total(c, b) \in Nat /\ t[b] \in Nat
    BY <1>3
  <2> QED
    BY <1>2, <2>1, <2>2
<1> QED
  BY <1>1, <1>4, OneMoreInTotal

LEMMA CountKeepsTypeInv ==
  ASSUME TypeInv, RelatedAtMostTotal, NEW from \in {"get", "insert"}, Count(from)
  PROVE  TypeInv' /\ RelatedAtMostTotal'
<1> DEFINE u == Head(todo)
           n == IF u.inPath THEN 1 ELSE 0
           a == u.asn
           l == u.level
           to == IF Len(todo) = 1 THEN "idle" ELSE "lock"
<1>1. GoTo("main", from, to) /\ pc[("main")] = from /\ pc' = [pc EXCEPT !["main"] = to]
  BY DEF Count, GoTo
<1>2. todo \in Seq(Update) /\ todo # <<>>
  BY <1>1 DEF TypeInv, TypeOK
<1>3. /\ u \in Update /\ Tail(todo) \in Seq(Update)
      /\ Len(Tail(todo)) = Len(todo) - 1 /\ Len(todo) \in Nat
  BY <1>2, HeadTailProperties, LenProperties
<1>4. to = "lock" => Tail(todo) # <<>>
  <2>1. Tail(todo) = <<>> => Len(todo) - 1 = 0
    BY <1>3, EmptySeq
  <2> QED
    BY <1>3, <2>1
<1>5. n \in {0, 1} /\ a \in AS /\ l \in Levels
  BY <1>3 DEF Update
<1>6. /\ originCounters' = originCounters \cup {a}
      /\ counter' = OneMore(counter, a, l)
      /\ topographicallyRelated' = More(topographicallyRelated, a, n)
      /\ counterRecent' = OneMore(counterRecent, a, l)
      /\ topographicallyRelatedRecent' = More(topographicallyRelatedRecent, a, n)
      /\ todo' = Tail(todo) /\ mutex' = "free"
      /\ UNCHANGED <<outcome, originsFile, bounded, history>>
  BY DEF Count, OneMore, More
<1> HIDE DEF u, n, a, l
<1>7. /\ counter' \in [AS -> [Levels -> Nat]]
      /\ topographicallyRelated' \in [AS -> Nat]
      /\ \A b \in AS : topographicallyRelated'[b] <= Total(counter', b)
  BY <1>3, <1>5, <1>6, RelatedStayBelowTotal DEF TypeInv, TypeOK, RelatedAtMostTotal
<1>8. /\ counterRecent' \in [AS -> [Levels -> Nat]]
      /\ topographicallyRelatedRecent' \in [AS -> Nat]
      /\ \A b \in AS : topographicallyRelatedRecent'[b] <= Total(counterRecent', b)
  BY <1>3, <1>5, <1>6, RelatedStayBelowTotal DEF TypeInv, TypeOK, RelatedAtMostTotal
<1>9. RelatedAtMostTotal'
  BY <1>7, <1>8 DEF RelatedAtMostTotal, Total
<1>10. /\ pc' \in [Goroutines -> Places]
       /\ pc'["main"] = to /\ pc'["ticker"] = pc["ticker"]
  BY <1>1 DEF TypeInv, TypeOK, Places, Goroutines
<1> HIDE DEF to
<1>11. TypeInv'
  BY <1>3, <1>4, <1>5, <1>6, <1>7, <1>8, <1>10
  DEF TypeInv, TypeOK, bounded, history, Places, to
<1> QED
  BY <1>9, <1>11

(* A step of FindConflicts with given conflicts.                           *)
Finds(origin, n, cs) ==
  /\ cs \in [1..n -> Conflicts(origin)]
  /\ GoTo("main", "idle", "lock")
  /\ countConflicts' = countConflicts + n
  /\ WriteJson({origin} \cup {cs[j].origin : j \in 1..n})
  /\ todo' = [k \in 1..(2 * n) |->
                Updates(origin, cs[(k + 1) \div 2])[IF k % 2 = 1 THEN 1 ELSE 2]]
  /\ UNCHANGED <<outcome, mutex, counters, recents, originsFile,
                 recentFilesCounter, signals, filed, atCleanup>>

(* The conflicts of a search become two updates each.                      *)
LEMMA FindConflictsKeepsTypeInv ==
  ASSUME TypeInv, FindConflicts
  PROVE  TypeInv'
<1>0. PICK origin \in AS, n \in 1..(MaxConflicts - countConflicts) :
        \E cs : Finds(origin, n, cs)
  BY DEF FindConflicts, Finds
<1>1. PICK cs : Finds(origin, n, cs)
  BY <1>0
<1>2. n \in Nat /\ n > 0 /\ countConflicts' \in 0..MaxConflicts
  BY <1>1, ConstantsAssumption DEF Finds, TypeInv, TypeOK
<1>3. \A j \in 1..n : cs[j] \in Conflicts(origin)
  BY <1>1 DEF Finds
<1>4. ASSUME NEW j \in 1..n, NEW k \in {1, 2}
      PROVE  Updates(origin, cs[j])[k] \in Update
  <2>1. cs[j].origin \in AS /\ cs[j].level \in Levels /\ cs[j].inPath \in BOOLEAN
    BY <1>3 DEF Conflicts
  <2>2. Opposite(cs[j].level) \in Levels
    BY <2>1 DEF Opposite, Levels
  <2> QED
    BY <2>1, <2>2 DEF Updates, Update
<1>5. todo' \in Seq(Update) /\ Len(todo') = 2 * n
  <2>1. ASSUME NEW k \in 1..(2 * n)
        PROVE  todo'[k] \in Update
    <3>1. (k + 1) \div 2 \in 1..n
      BY <1>2
    <3>2. todo'[k] = Updates(origin, cs[(k + 1) \div 2])[IF k % 2 = 1 THEN 1 ELSE 2]
      BY <1>1 DEF Finds
    <3>3. CASE k % 2 = 1
      BY <1>4, <3>1, <3>2, <3>3
    <3>4. CASE k % 2 # 1
      BY <1>4, <3>1, <3>2, <3>4
    <3> QED
      BY <3>3, <3>4
  <2>2. todo' = [k \in 1..(2 * n) |-> todo'[k]]
    BY <1>1 DEF Finds
  <2>3. 2 * n \in Nat
    BY <1>2
  <2> QED
    BY <2>1, <2>2, <2>3
<1>6. todo' # <<>>
  BY <1>2, <1>5, EmptySeq
<1>7. reported' \subseteq AS
  <2>1. {origin} \cup {cs[j].origin : j \in 1..n} \subseteq AS
    BY <1>3 DEF Conflicts
  <2> QED
    BY <1>1, <2>1 DEF Finds, WriteJson, TypeInv, TypeOK
<1>8. /\ pc' \in [Goroutines -> Places]
      /\ pc'["main"] = "lock" /\ pc'["ticker"] = pc["ticker"]
  BY <1>1 DEF Finds, GoTo, TypeInv, TypeOK, Places, Goroutines
<1> QED
  BY <1>1, <1>2, <1>5, <1>6, <1>7, <1>8
  DEF Finds, TypeInv, TypeOK, counters, recents, Places

(* A file of an interval, whole or broken off.                             *)
LEMMA WriteKeepsTypeInv ==
  ASSUME TypeInv, WriteInterval \/ WriteIntervalFails
  PROVE  TypeInv'
<1>1. /\ GoTo("ticker", "write", "relock")
      /\ recentFilesCounter' = recentFilesCounter + 1
      /\ mutex' \in {mutex, "free"}
      /\ UNCHANGED <<outcome, counters, recents, todo, originsFile,
                     countConflicts, signals, reported, atCleanup>>
  BY DEF WriteInterval, WriteIntervalFails
<1>2. filed' \in [AS -> [Levels -> Nat]]
  BY DEF WriteInterval, WriteIntervalFails, TypeInv, TypeOK
<1>3. recentFilesCounter' \in 0..MaxTicks
  BY <1>1, ConstantsAssumption DEF GoTo, TypeInv, TypeOK
<1>4. /\ pc' \in [Goroutines -> Places]
      /\ pc'["ticker"] = "relock" /\ pc'["main"] = pc["main"]
  BY <1>1 DEF GoTo, TypeInv, TypeOK, Places, Goroutines, CriticalSection
<1> QED
  BY <1>1, <1>2, <1>3, <1>4 DEF TypeInv, TypeOK, counters, recents, Places

LEMMA ResetKeepsTypeInv ==
  ASSUME TypeInv, RelatedAtMostTotal, Reset
  PROVE  TypeInv' /\ RelatedAtMostTotal'
<1>1. /\ GoTo("ticker", "reset", "wait")
      /\ counterRecent' = Zero
      /\ topographicallyRelatedRecent' = [a \in AS |-> 0]
      /\ mutex' = "free"
      /\ UNCHANGED <<outcome, counters, todo, originsFile, bounded, history>>
  BY DEF Reset
<1>2. Zero \in [AS -> [Levels -> Nat]] /\ \A a \in AS : Total(Zero, a) = 0
  BY DEF Zero, Total, Levels
<1>3. /\ pc' \in [Goroutines -> Places]
      /\ pc'["ticker"] = "wait" /\ pc'["main"] = pc["main"]
  BY <1>1 DEF GoTo, TypeInv, TypeOK, Places, Goroutines, CriticalSection
<1>4. TypeInv'
  BY <1>1, <1>2, <1>3 DEF TypeInv, TypeOK, counters, bounded, history, Places
<1>5. RelatedAtMostTotal'
  BY <1>1, <1>2 DEF RelatedAtMostTotal, Total, counters
<1> QED
  BY <1>4, <1>5

(* All other steps count nothing.                                          *)
LEMMA LockKeepsTypeInv ==
  ASSUME TypeInv, NEW g \in Goroutines, NEW from \in Places, NEW to \in Places,
         Lock(g, from, to),
         g = "main" => from = "lock" \/ to \notin {"lock", "get", "insert"},
         g = "main" => from \notin {"get", "insert"},
         g = "ticker" => from = "lock" \/ to \notin {"lock", "write"},
         g = "ticker" => from # "write"
  PROVE  TypeInv'
<1>1. CASE GoTo(g, from, to) /\ mutex' = g /\ UNCHANGED outcome
  BY <1>1, QuietStepKeepsTypeInv DEF Lock, TypeInv, TypeOK, bounded, history
<1>2. CASE GoTo(g, from, from) /\ outcome' = "panicked" /\ UNCHANGED mutex
  BY <1>2, QuietStepKeepsTypeInv DEF Lock, TypeInv, TypeOK, bounded, history
<1> QED
  BY <1>1, <1>2 DEF Lock

LEMMA MainStepsKeepTypeInv ==
  ASSUME TypeInv, StartMain \/ StartMainFails \/ LookUp \/ MapRace
  PROVE  TypeInv'
BY QuietStepKeepsTypeInv
DEF StartMain, StartMainFails, LookUp, MapRace, TypeInv, TypeOK, Goroutines,
    Places, CriticalSection, bounded, history

LEMMA TickerStepsKeepTypeInv ==
  ASSUME TypeInv, StartTicker \/ Tick
  PROVE  TypeInv'
BY QuietStepKeepsTypeInv
DEF StartTicker, Tick, TypeInv, TypeOK, Goroutines, Places, CriticalSection,
    bounded, history

LEMMA SignalsKeepTypeInv ==
  ASSUME TypeInv, WaitForSignal \/ Signal \/ SignalDropped \/ EndMain
  PROVE  TypeInv'
<1>1. CASE WaitForSignal
  BY <1>1, QuietStepKeepsTypeInv
  DEF WaitForSignal, TypeInv, TypeOK, Goroutines, Places, CriticalSection, bounded, history
<1>2. ASSUME NEW g \in {"main", "handler"}, NEW from, StartCleanup(g, from),
             signals' \in 0..MaxSignals
      PROVE  TypeInv'
  <2>1. /\ GoTo(g, from, "summary") /\ g \in Goroutines /\ "summary" \in Places
        /\ UNCHANGED <<outcome, mutex, counters, recents, todo, originsFile,
                       countConflicts, recentFilesCounter, reported, filed>>
        /\ atCleanup' \in {atCleanup, counter}
    BY <1>2 DEF StartCleanup, Goroutines, Places
  <2>2. /\ outcome \in {"running", "returned", "panicked", "exited"}
        /\ mutex \in {"nil", "free"} \cup Goroutines
        /\ originsFile \subseteq Row /\ reported \subseteq AS
        /\ {atCleanup, counter} \subseteq [AS -> [Levels -> Nat]]
    BY DEF TypeInv, TypeOK
  <2> QED
    BY <1>2, <2>1, <2>2, QuietStepKeepsTypeInv
<1>3. CASE Signal
  BY <1>2, <1>3, ConstantsAssumption DEF Signal, TypeInv, TypeOK
<1>4. CASE SignalDropped
  BY <1>4, ConstantsAssumption
  DEF SignalDropped, TypeInv, TypeOK, counters, recents, history
<1>5. CASE EndMain
  BY <1>2, <1>5 DEF EndMain, TypeInv, TypeOK
<1> QED
  BY <1>1, <1>3, <1>4, <1>5

LEMMA CleanupKeepsTypeInv ==
  ASSUME TypeInv, NEW g \in {"main", "handler"}, Cleanup(g)
  PROVE  TypeInv'
<1>1. CASE LockToFinish(g)
  BY <1>1, LockKeepsTypeInv DEF LockToFinish, Goroutines, Places, CriticalSection
<1>2. CASE ~LockToFinish(g)
  <2>1. \E from, to \in Places :
          GoTo(g, from, to) /\ to \notin {"lock", "get", "insert", "write"}
    BY <1>2
    DEF Cleanup, HeapProfileFails, PrintShortSummary, CreateFinal, CreateFinalFails,
        WriteRows, WriteRowsFails, Exit, Places, CriticalSection
  <2>2. /\ outcome' \in {"running", "returned", "panicked", "exited"}
        /\ mutex' \in {"nil", "free"} \cup Goroutines
        /\ UNCHANGED <<counters, recents, todo, bounded, history>>
    BY <1>2
    DEF Cleanup, HeapProfileFails, PrintShortSummary, CreateFinal, CreateFinalFails,
        WriteRows, WriteRowsFails, Exit, TypeInv, TypeOK
  <2>3. originsFile' \subseteq Row
    BY <1>2, RowsAreRows
    DEF Cleanup, HeapProfileFails, PrintShortSummary, CreateFinal, CreateFinalFails,
        WriteRows, WriteRowsFails, Exit, TypeInv, TypeOK
  <2>4. PICK from \in Places, to \in Places :
          GoTo(g, from, to) /\ to \notin {"lock", "get", "insert", "write"}
    BY <2>1
  <2>5. /\ UNCHANGED <<countConflicts, recentFilesCounter, signals, reported, filed,
                       atCleanup>>
        /\ reported \subseteq AS /\ signals \in 0..MaxSignals
        /\ atCleanup \in [AS -> [Levels -> Nat]] /\ g \in Goroutines
    BY <2>2 DEF TypeInv, TypeOK, Goroutines, bounded, history
  <2> QED
    BY <2>2, <2>3, <2>4, <2>5, QuietStepKeepsTypeInv
<1> QED
  BY <1>1, <1>2

(* Only counting and resets touch the counters.                            *)
LEMMA NextKeepsTypeInv ==
  TypeInv /\ RelatedAtMostTotal /\ [Next]_vars => TypeInv' /\ RelatedAtMostTotal'
<1> SUFFICES ASSUME TypeInv, RelatedAtMostTotal, [Next]_vars
             PROVE  TypeInv' /\ RelatedAtMostTotal'
  OBVIOUS
<1>1. CASE UpdateCounter \/ InsertCounter
  BY <1>1, CountKeepsTypeInv DEF UpdateCounter, InsertCounter
<1>2. CASE Reset
  BY <1>2, ResetKeepsTypeInv
<1>3. CASE ~(UpdateCounter \/ InsertCounter \/ Reset)
  <2>1. UNCHANGED <<counters, recents>>
    BY <1>3
    DEF Next, Main, Ticker, Cleanup, StartMain, StartMainFails, FindConflicts,
        LockCounter, LookUp, MapRace, EndMain, StartTicker, Tick, LockToWrite,
        WriteInterval, WriteIntervalFails, LockToReset, WaitForSignal, Signal,
        SignalDropped, StartCleanup, HeapProfileFails, PrintShortSummary, LockToFinish,
        CreateFinal, CreateFinalFails, WriteRows, WriteRowsFails, Exit, Lock, vars
  <2>2. RelatedAtMostTotal'
    BY <2>1 DEF RelatedAtMostTotal, Total, counters, recents
  <2>3. CASE LockCounter \/ LockToWrite \/ LockToReset
    BY <2>2, <2>3, LockKeepsTypeInv
    DEF LockCounter, LockToWrite, LockToReset, Goroutines, Places, CriticalSection
  <2>4. CASE UNCHANGED vars
    BY <2>2, <2>4 DEF vars, bounded, history, counters, recents, TypeInv, TypeOK
  <2>5. CASE \E g \in {"main", "handler"} : Cleanup(g)
    BY <2>2, <2>5, CleanupKeepsTypeInv
  <2>6. TypeInv'
    BY <1>3, <2>3, <2>4, <2>5, FindConflictsKeepsTypeInv, WriteKeepsTypeInv,
       MainStepsKeepTypeInv, TickerStepsKeepTypeInv, SignalsKeepTypeInv
    DEF Next, Main, Ticker
  <2> QED
    BY <2>2, <2>6
<1> QED
  BY <1>1, <1>2, <1>3

(* Every variable has its type (see TypeOK).                               *)
THEOREM TypeCorrect == Spec => []TypeOK
<1>1. TypeInv => TypeOK
  BY DEF TypeInv
<1> QED
  BY <1>1, InitTypeInv, NextKeepsTypeInv, PTL DEF Spec

(* The related conflicts of an AS are never more than all of its conflicts *)
(* (see RelatedAtMostTotal).                                               *)
THEOREM RelatedAtMostTotalAlways == Spec => []RelatedAtMostTotal
BY InitTypeInv, NextKeepsTypeInv, PTL DEF Spec
-----------------------------------------------------------------------------
(* The final file, when files can be written.                              *)

FileHasCounts ==
  \A a \in AS, l \in Levels : atCleanup[a][l] > 0 =>
    \E row \in originsFile : row.asn = a /\ row.counts[l] >= atCleanup[a][l]

FileHasReported == \A a \in reported : \E row \in originsFile : row.asn = a

CountsKept ==
  /\ \A a \in AS, l \in Levels : counter[a][l] > 0 => a \in originCounters
  /\ \A a \in AS, l \in Levels : atCleanup[a][l] <= counter[a][l]

(* What is in the conflicts file is counted or about to be.                *)
ReportedKept ==
  /\ \A a \in reported : a \in originCounters \/ \E k \in 1..Len(todo) : todo[k].asn = a
  /\ pc["main"] \notin {"lock", "get", "insert"} => todo = <<>>

FileWritten ==
  /\ \A g \in Goroutines : SoleCleanup(g) /\ pc[g] = "exit" => FileHasCounts
  /\ SoleCleanup("main") /\ pc["main"] = "exit" => FileHasReported

ExitedAtExit == outcome = "exited" => \E g \in Goroutines : pc[g] = "exit"

FileInv == TypeInv /\ CountsKept /\ ReportedKept /\ FileWritten /\ ExitedAtExit

(* A step within cleanup, or outside of it, leaves a sole cleanup sole.    *)
LEMMA StillSole ==
  ASSUME TypeInv, NEW g \in Goroutines, NEW from, NEW to, GoTo(g, from, to),
         from \in InCleanup <=> to \in InCleanup
  PROVE  /\ \A h \in Goroutines : SoleCleanup(h)' <=> SoleCleanup(h)
         /\ pc'[g] = to /\ \A h \in Goroutines \ {g} : pc'[h] = pc[h]
<1>1. pc \in [Goroutines -> Places] /\ pc[g] = from /\ pc' = [pc EXCEPT ![g] = to]
  BY DEF TypeInv, TypeOK, Places, GoTo
<1>2. pc'[g] = to /\ \A h \in Goroutines \ {g} : pc'[h] = pc[h]
  BY <1>1
<1>3. \A h \in Goroutines : pc'[h] \in InCleanup <=> pc[h] \in InCleanup
  BY <1>1, <1>2
<1>4. {h \in Goroutines : pc'[h] \in InCleanup} = {h \in Goroutines : pc[h] \in InCleanup}
  BY <1>3
<1> QED
  BY <1>2, <1>4 DEF SoleCleanup

(* A step that writes no row and starts no cleanup.                        *)
LEMMA OtherStepKeepsFileWritten ==
  ASSUME FileInv, NEW g \in Goroutines, NEW from, NEW to, GoTo(g, from, to),
         from \in InCleanup <=> to \in InCleanup, to = "exit" => from = "exit",
         UNCHANGED <<originsFile, atCleanup>>,
         reported' = reported \/ pc'["main"] # "exit"
  PROVE  FileWritten'
<1>1. /\ \A h \in Goroutines : SoleCleanup(h)' <=> SoleCleanup(h)
      /\ pc'[g] = to /\ \A h \in Goroutines \ {g} : pc'[h] = pc[h]
      /\ pc[g] = from
  BY StillSole DEF FileInv, GoTo
<1>2. \A h \in Goroutines : pc'[h] = "exit" => pc[h] = "exit"
  BY <1>1
<1>3. "main" \in Goroutines
  BY DEF Goroutines
<1> QED
  BY <1>1, <1>2, <1>3 DEF FileInv, FileWritten, FileHasCounts, FileHasReported

(* A step of which no counter, no conflict and no row is part.             *)
LEMMA OtherStepKeepsFileInv ==
  ASSUME FileInv, TypeInv', NEW g \in Goroutines, NEW from, NEW to, GoTo(g, from, to),
         from \in InCleanup <=> to \in InCleanup, to = "exit" => from = "exit",
         g = "main" => (from \in {"lock", "get", "insert"} <=> to \in {"lock", "get", "insert"}),
         outcome' = "exited" => to = "exit",
         UNCHANGED <<counters, todo, originsFile, reported, atCleanup>>
  PROVE  FileInv'
<1>1. FileWritten'
  BY OtherStepKeepsFileWritten
<1>2. /\ pc \in [Goroutines -> Places] /\ pc[g] = from /\ pc' = [pc EXCEPT ![g] = to]
      /\ "main" \in Goroutines
  BY DEF FileInv, TypeInv, TypeOK, Places, GoTo, Goroutines
<1>3. CountsKept'
  BY DEF FileInv, CountsKept, counters
<1>4. ReportedKept'
  <2>1. pc'["main"] \in {"lock", "get", "insert"} <=> pc["main"] \in {"lock", "get", "insert"}
    BY <1>2
  <2> QED
    BY <2>1 DEF FileInv, ReportedKept, counters
<1>5. ExitedAtExit'
  BY <1>2 DEF ExitedAtExit
<1> QED
  BY <1>1, <1>3, <1>4, <1>5 DEF FileInv

LEMMA InitFileInv == Init => FileInv
<1> SUFFICES ASSUME Init PROVE FileInv
  OBVIOUS
<1>1. TypeInv
  BY InitTypeInv
<1>2. \A a \in AS, l \in Levels : counter[a][l] = 0 /\ atCleanup[a][l] = 0
  BY DEF Init, Zero
<1>3. CountsKept
  BY <1>2 DEF CountsKept
<1>4. ReportedKept /\ FileWritten /\ ExitedAtExit
  BY DEF Init, ReportedKept, FileWritten, ExitedAtExit, Goroutines
<1> QED
  BY <1>1, <1>3, <1>4 DEF FileInv

LEMMA OneMoreAtLevel ==
  ASSUME NEW c \in [AS -> [Levels -> Nat]], NEW a \in AS, NEW l \in Levels,
         NEW b \in AS, NEW k \in Levels
  PROVE  OneMore(c, a, l)[b][k] = c[b][k] + (IF b = a /\ k = l THEN 1 ELSE 0)
<1>1. c[b] \in [Levels -> Nat] /\ c[a] \in [Levels -> Nat] /\ c[b][k] \in Nat
  OBVIOUS
<1>2. CASE b = a
  <2>1. OneMore(c, a, l)[b] = [c[a] EXCEPT ![l] = @ + 1]
    BY <1>2 DEF OneMore
  <2> QED
    BY <1>1, <1>2, <2>1
<1>3. CASE b # a
  <2>1. OneMore(c, a, l)[b] = c[b]
    BY <1>3 DEF OneMore
  <2> QED
    BY <1>1, <1>3, <2>1
<1> QED
  BY <1>2, <1>3

LEMMA CountKeepsFileInv ==
  ASSUME FileInv, TypeInv', NEW from \in {"get", "insert"}, Count(from)
  PROVE  FileInv'
<1> DEFINE u == Head(todo)
           to == IF Len(todo) = 1 THEN "idle" ELSE "lock"
<1>1. /\ GoTo("main", from, to) /\ pc["main"] = from /\ pc' = [pc EXCEPT !["main"] = to]
      /\ to \in {"idle", "lock"} /\ "main" \in Goroutines
      /\ pc \in [Goroutines -> Places]
  BY DEF Count, GoTo, Goroutines, FileInv, TypeInv, TypeOK, Places
<1>2. todo \in Seq(Update) /\ todo # <<>>
  BY <1>1 DEF FileInv, TypeInv, TypeOK
<1>3. /\ u \in Update /\ u = todo[1] /\ Tail(todo) \in Seq(Update)
      /\ Len(Tail(todo)) = Len(todo) - 1 /\ Len(todo) \in Nat
      /\ \A k \in 1..Len(Tail(todo)) : Tail(todo)[k] = todo[k + 1]
  BY <1>2, HeadTailProperties, LenProperties
<1>4. u.asn \in AS /\ u.level \in Levels
  BY <1>3 DEF Update
<1>5. /\ originCounters' = originCounters \cup {u.asn}
      /\ counter' = OneMore(counter, u.asn, u.level)
      /\ todo' = Tail(todo)
      /\ outcome' = outcome /\ outcome = "running"
      /\ UNCHANGED <<originsFile, reported, atCleanup>>
  BY DEF Count, OneMore, GoTo, history
<1> HIDE DEF u
<1>6. CountsKept'
  <2>1. counter \in [AS -> [Levels -> Nat]] /\ atCleanup \in [AS -> [Levels -> Nat]]
    BY DEF FileInv, TypeInv, TypeOK
  <2>2. ASSUME NEW b \in AS, NEW k \in Levels
        PROVE  /\ counter'[b][k] > 0 => b \in originCounters'
               /\ atCleanup'[b][k] <= counter'[b][k]
    <3>1. counter'[b][k] = counter[b][k] + (IF b = u.asn /\ k = u.level THEN 1 ELSE 0)
      <4>1. OneMore(counter, u.asn, u.level)[b][k]
              = counter[b][k] + (IF b = u.asn /\ k = u.level THEN 1 ELSE 0)
        BY <1>4, <2>1, OneMoreAtLevel
      <4> QED
        BY <1>5, <4>1
    <3>2. counter[b][k] \in Nat /\ atCleanup[b][k] \in Nat
      BY <2>1
    <3>3. /\ counter[b][k] > 0 => b \in originCounters
          /\ atCleanup[b][k] <= counter[b][k]
      BY DEF FileInv, CountsKept
    <3>4. CASE b = u.asn
      BY <1>5, <3>1, <3>2, <3>3, <3>4
    <3>5. CASE b # u.asn
      BY <1>5, <3>1, <3>2, <3>3, <3>5
    <3> QED
      BY <3>4, <3>5
  <2> QED
    BY <2>2 DEF CountsKept
<1>7. ReportedKept'
  <2>1. ASSUME NEW a \in reported, a \notin originCounters'
        PROVE  \E k \in 1..Len(todo') : todo'[k].asn = a
    <3>1. PICK k \in 1..Len(todo) : todo[k].asn = a
      BY <1>5, <2>1 DEF FileInv, ReportedKept
    <3>2. k # 1
      BY <1>3, <1>5, <2>1, <3>1
    <3>3. k - 1 \in 1..Len(Tail(todo)) /\ (k - 1) + 1 = k
      BY <1>3, <3>2
    <3>4. Tail(todo)[k - 1].asn = a
      BY <1>3, <3>1, <3>3
    <3> QED
      BY <1>5, <3>3, <3>4
  <2>2. pc'["main"] = "idle" => todo' = <<>>
    <3>1. pc'["main"] = to
      BY <1>1
    <3>2. to = "idle" => Len(todo') = 0 /\ todo' \in Seq(Update)
      BY <1>3, <1>5
    <3> HIDE DEF to
    <3> QED
      BY <3>1, <3>2, EmptySeq
  <2>3. pc'["main"] \in {"idle", "lock"}
    BY <1>1
  <2> QED
    BY <1>5, <2>1, <2>2, <2>3 DEF ReportedKept
<1> HIDE DEF to
<1>8. FileWritten'
  BY <1>1, <1>5, OtherStepKeepsFileWritten DEF InCleanup
<1>9. ExitedAtExit'
  BY <1>5 DEF ExitedAtExit
<1> QED
  BY <1>6, <1>7, <1>8, <1>9 DEF FileInv

LEMMA FindConflictsKeepsFileInv ==
  ASSUME ~FilesMayFail, FileInv, TypeInv', FindConflicts
  PROVE  FileInv'
<1>1. PICK origin \in AS, n \in 1..(MaxConflicts - countConflicts) :
        \E cs : Finds(origin, n, cs)
  BY DEF FindConflicts, Finds
<1>2. PICK cs : Finds(origin, n, cs)
  BY <1>1
<1>3. /\ n \in Nat /\ n >= 1
      /\ reported' = reported \cup ({origin} \cup {cs[j].origin : j \in 1..n})
      /\ GoTo("main", "idle", "lock") /\ outcome' = outcome /\ outcome = "running"
      /\ pc["main"] = "idle" /\ pc' = [pc EXCEPT !["main"] = "lock"]
      /\ pc \in [Goroutines -> Places] /\ "main" \in Goroutines
      /\ UNCHANGED <<originCounters, counter, originsFile, atCleanup>>
  BY <1>2, ConstantsAssumption
  DEF Finds, WriteJson, GoTo, Goroutines, FileInv, TypeInv, TypeOK, Places, counters
<1>4. todo' = [k \in 1..(2 * n) |->
                 Updates(origin, cs[(k + 1) \div 2])[IF k % 2 = 1 THEN 1 ELSE 2]]
  BY <1>2 DEF Finds
<1>5. Len(todo') = 2 * n
  BY <1>3, <1>4
<1>6. \A c : Updates(origin, c)[1].asn = origin /\ Updates(origin, c)[2].asn = c.origin
  BY DEF Updates
<1>7. \E k \in 1..Len(todo') : todo'[k].asn = origin
  <2>1. 1 \in 1..(2 * n) /\ 1 % 2 = 1
    BY <1>3
  <2>2. todo'[1] = Updates(origin, cs[(1 + 1) \div 2])[1]
    BY <1>4, <2>1
  <2> QED
    BY <1>5, <1>6, <2>1, <2>2
<1>8. ASSUME NEW j \in 1..n
      PROVE  \E k \in 1..Len(todo') : todo'[k].asn = cs[j].origin
  <2>1. 2 * j \in 1..(2 * n) /\ (2 * j) % 2 = 0 /\ (2 * j + 1) \div 2 = j
    BY <1>3
  <2>2. todo'[2 * j] = Updates(origin, cs[j])[2]
    BY <1>4, <2>1
  <2> QED
    BY <1>5, <1>6, <2>1, <2>2
<1>9. ReportedKept'
  <2>1. \A a \in reported : a \in originCounters
    <3>1. Len(<<>>) = 0 /\ todo = <<>>
      BY <1>3, EmptySeq DEF FileInv, ReportedKept
    <3> QED
      BY <3>1 DEF FileInv, ReportedKept
  <2>2. pc'["main"] = "lock"
    BY <1>3
  <2> QED
    BY <1>3, <1>7, <1>8, <2>1, <2>2 DEF ReportedKept
<1>10. CountsKept' /\ ExitedAtExit'
  BY <1>3 DEF FileInv, CountsKept, ExitedAtExit
<1>11. FileWritten'
  <2>1. pc'["main"] # "exit"
    BY <1>3
  <2> QED
    BY <1>3, <2>1, OtherStepKeepsFileWritten DEF InCleanup
<1> QED
  BY <1>9, <1>10, <1>11 DEF FileInv

(* Who starts cleanup is not at its end, and is not the only one when      *)
(* another is.                                                             *)
LEMMA StartCleanupKeepsFileInv ==
  ASSUME FileInv, TypeInv', NEW g \in {"main", "handler"}, NEW from \in {"idle", "wait"},
         StartCleanup(g, from)
  PROVE  FileInv'
<1>1. /\ pc \in [Goroutines -> Places] /\ pc[g] = from /\ pc' = [pc EXCEPT ![g] = "summary"]
      /\ g \in Goroutines /\ "main" \in Goroutines
      /\ outcome' = outcome /\ outcome = "running"
      /\ atCleanup' = atCleanup \/ atCleanup' = counter
      /\ UNCHANGED <<originCounters, counter, todo, originsFile, reported>>
  BY DEF StartCleanup, GoTo, Goroutines, FileInv, TypeInv, TypeOK, Places, counters
<1>2. CountsKept'
  <2>1. \A a \in AS, l \in Levels : counter[a][l] \in Nat
    BY DEF FileInv, TypeInv, TypeOK
  <2> QED
    BY <1>1, <2>1 DEF FileInv, CountsKept
<1>3. ReportedKept' /\ ExitedAtExit'
  BY <1>1 DEF FileInv, ReportedKept, ExitedAtExit
<1>4. ASSUME NEW h \in Goroutines, SoleCleanup(h)'
      PROVE  pc'[h] # "exit"
  <2>1. pc'[g] = "summary" /\ pc'[g] \in InCleanup
    BY <1>1 DEF InCleanup
  <2>2. h = g
    BY <1>1, <1>4, <2>1 DEF SoleCleanup
  <2> QED
    BY <2>1, <2>2
<1>5. FileWritten'
  BY <1>1, <1>4 DEF FileWritten
<1> QED
  BY <1>2, <1>3, <1>5 DEF FileInv

LEMMA CreateFinalKeepsFileInv ==
  ASSUME FileInv, TypeInv', NEW g \in {"main", "handler"}, CreateFinal(g)
  PROVE  FileInv'
<1>1. /\ GoTo(g, "create", "rows") /\ pc[g] = "create" /\ pc' = [pc EXCEPT ![g] = "rows"]
      /\ pc \in [Goroutines -> Places] /\ g \in Goroutines /\ "main" \in Goroutines
      /\ outcome' = outcome /\ outcome = "running"
      /\ UNCHANGED <<originCounters, counter, todo, reported, atCleanup>>
  BY DEF CreateFinal, GoTo, Goroutines, FileInv, TypeInv, TypeOK, Places, counters, history
<1>2. CountsKept' /\ ReportedKept' /\ ExitedAtExit'
  BY <1>1 DEF FileInv, CountsKept, ReportedKept, ExitedAtExit
<1>3. ASSUME NEW h \in Goroutines, SoleCleanup(h)'
      PROVE  pc'[h] # "exit"
  <2>1. pc'[g] = "rows" /\ pc'[g] \in InCleanup
    BY <1>1 DEF InCleanup
  <2>2. h = g
    BY <1>1, <1>3, <2>1 DEF SoleCleanup
  <2> QED
    BY <2>1, <2>2
<1>4. FileWritten'
  BY <1>1, <1>3 DEF FileWritten
<1> QED
  BY <1>2, <1>4 DEF FileInv

(* The rows are those of all origins, with all that is counted by now.     *)
LEMMA WriteRowsKeepsFileInv ==
  ASSUME FileInv, TypeInv', NEW g \in {"main", "handler"}, WriteRows(g)
  PROVE  FileInv'
<1>1. /\ pc[g] = "rows" /\ pc' = [pc EXCEPT ![g] = "exit"]
      /\ pc \in [Goroutines -> Places] /\ g \in Goroutines /\ "main" \in Goroutines
      /\ outcome' = outcome /\ outcome = "running"
      /\ originsFile' = Rows(originCounters)
      /\ UNCHANGED <<originCounters, counter, todo, reported, atCleanup>>
  BY DEF WriteRows, GoTo, Goroutines, FileInv, TypeInv, TypeOK, Places, counters, history
<1>2. CountsKept' /\ ReportedKept' /\ ExitedAtExit'
  BY <1>1 DEF FileInv, CountsKept, ReportedKept, ExitedAtExit
<1>3. \A a \in originCounters : \E row \in originsFile' : row.asn = a /\ row.counts = counter[a]
  <2> SUFFICES ASSUME NEW a \in originCounters
               PROVE  \E row \in originsFile' : row.asn = a /\ row.counts = counter[a]
    OBVIOUS
  <2> DEFINE r == [asn |-> a, counts |-> counter[a], related |-> topographicallyRelated[a]]
  <2>1. r \in originsFile'
    BY <1>1 DEF Rows
  <2>2. r.asn = a /\ r.counts = counter[a]
    OBVIOUS
  <2> QED
    BY <2>1, <2>2
<1>4. FileHasCounts'
  <2> SUFFICES ASSUME NEW a \in AS, NEW l \in Levels, atCleanup[a][l] > 0
               PROVE  \E row \in originsFile' : row.asn = a /\ row.counts[l] >= atCleanup[a][l]
    BY <1>1 DEF FileHasCounts
  <2>1. counter[a][l] \in Nat /\ atCleanup[a][l] \in Nat
    BY DEF FileInv, TypeInv, TypeOK
  <2>2. counter[a][l] >= atCleanup[a][l] /\ a \in originCounters
    BY <2>1 DEF FileInv, CountsKept
  <2>3. PICK row \in originsFile' : row.asn = a /\ row.counts = counter[a]
    BY <1>3, <2>2
  <2> QED
    BY <2>2, <2>3
<1>5. SoleCleanup("main")' => FileHasReported'
  <2> SUFFICES ASSUME SoleCleanup("main")' PROVE FileHasReported'
    OBVIOUS
  <2>1. pc'[g] \in InCleanup
    BY <1>1 DEF InCleanup
  <2>2. g = "main"
    BY <1>1, <2>1 DEF SoleCleanup
  <2>3. \A a \in reported : a \in originCounters
    <3>1. Len(<<>>) = 0 /\ todo = <<>>
      BY <1>1, <2>2, EmptySeq DEF FileInv, ReportedKept
    <3> QED
      BY <3>1 DEF FileInv, ReportedKept
  <2> QED
    BY <1>1, <1>3, <2>3 DEF FileHasReported
<1>6. FileWritten'
  BY <1>4, <1>5 DEF FileWritten
<1> QED
  BY <1>2, <1>6 DEF FileInv

LEMMA NextKeepsFileInv ==
  ASSUME ~FilesMayFail, FileInv, TypeInv', [Next]_vars
  PROVE  FileInv'
<1> USE DEF Goroutines, InCleanup
<1>1. CASE UpdateCounter \/ InsertCounter
  BY <1>1, CountKeepsFileInv DEF UpdateCounter, InsertCounter
<1>2. CASE FindConflicts
  BY <1>2, FindConflictsKeepsFileInv
<1>3. CASE Signal \/ EndMain
  BY <1>3, StartCleanupKeepsFileInv DEF Signal, EndMain
<1>4. ASSUME NEW g \in {"main", "handler"}, CreateFinal(g) \/ WriteRows(g) PROVE FileInv'
  BY <1>4, CreateFinalKeepsFileInv, WriteRowsKeepsFileInv
<1>5. CASE StartMain \/ LookUp \/ MapRace
  BY <1>5, OtherStepKeepsFileInv DEF StartMain, LookUp, MapRace, GoTo, history
<1>6. CASE StartTicker \/ Tick \/ WriteInterval \/ Reset \/ WaitForSignal
  BY <1>6, OtherStepKeepsFileInv
  DEF StartTicker, Tick, WriteInterval, Reset, WaitForSignal, GoTo, history
<1>7. ASSUME NEW g \in Goroutines, NEW from, NEW to, Lock(g, from, to),
             from \in InCleanup <=> to \in InCleanup, to # "exit", from # "exit",
             g = "main" => (from \in {"lock", "get", "insert"} <=> to \in {"lock", "get", "insert"})
      PROVE  FileInv'
  <2>1. CASE GoTo(g, from, to) /\ outcome' = outcome
    BY <1>7, <2>1, OtherStepKeepsFileInv DEF Lock, GoTo, history
  <2>2. CASE GoTo(g, from, from) /\ outcome' = "panicked"
    BY <1>7, <2>2, OtherStepKeepsFileInv DEF Lock, history
  <2> QED
    BY <1>7, <2>1, <2>2 DEF Lock
<1>8. CASE LockCounter \/ LockToWrite \/ LockToReset
  BY <1>7, <1>8 DEF LockCounter, LockToWrite, LockToReset
<1>9. ASSUME NEW g \in {"main", "handler"}, LockToFinish(g) PROVE FileInv'
  BY <1>7, <1>9 DEF LockToFinish
<1>10. ASSUME NEW g \in {"main", "handler"}, PrintShortSummary(g) \/ Exit(g) PROVE FileInv'
  BY <1>10, OtherStepKeepsFileInv DEF PrintShortSummary, Exit, GoTo, history
<1>11. CASE SignalDropped \/ UNCHANGED vars
  <2>1. UNCHANGED <<pc, outcome, counters, todo, originsFile, reported, atCleanup>>
    BY <1>11 DEF SignalDropped, vars, history
  <2> QED
    BY <2>1
    DEF FileInv, CountsKept, ReportedKept, FileWritten, ExitedAtExit, FileHasCounts,
        FileHasReported, SoleCleanup, counters
<1> QED
  BY <1>1, <1>2, <1>3, <1>4, <1>5, <1>6, <1>8, <1>9, <1>10, <1>11
  DEF Next, Main, Ticker, Cleanup, StartMainFails, WriteIntervalFails, HeapProfileFails,
      CreateFinalFails, WriteRowsFails

LEMMA FileInvAlways ==
  ASSUME ~FilesMayFail
  PROVE  Spec => []FileInv
<1>1. Init => TypeInv /\ RelatedAtMostTotal /\ FileInv
  BY InitTypeInv, InitFileInv
<1>2. (TypeInv /\ RelatedAtMostTotal /\ FileInv) /\ [Next]_vars
        => (TypeInv /\ RelatedAtMostTotal /\ FileInv)'
  BY NextKeepsTypeInv, NextKeepsFileInv
<1> QED
  BY <1>1, <1>2, PTL DEF Spec

(* Who is the only one in cleanup when the program has exited is at exit.  *)
LEMMA SoleIsAtExit ==
  ASSUME FileInv, outcome = "exited", NEW g \in Goroutines, SoleCleanup(g)
  PROVE  pc[g] = "exit"
BY DEF FileInv, ExitedAtExit, SoleCleanup, InCleanup

(* As long as files can be written, the final file of a cleanup that is    *)
(* alone has everything that was counted when it started, although main    *)
(* counts and the ticker resets beside it.                                 *)
THEOREM FinalFileCompleteAlways ==
  ASSUME ~FilesMayFail
  PROVE  Spec => []FinalFileComplete
<1>1. FileInv => FinalFileComplete
  BY SoleIsAtExit DEF FileInv, FileWritten, FileHasCounts, FinalFileComplete
<1> QED
  BY <1>1, FileInvAlways, PTL

(* As long as files can be written and the input ends the program, every   *)
(* origin in the conflicts file is in the csv file too.                    *)
THEOREM AllOriginsWrittenAlways ==
  ASSUME ~FilesMayFail
  PROVE  Spec => []AllOriginsWritten
<1>1. FileInv => AllOriginsWritten
  BY SoleIsAtExit DEF FileInv, FileWritten, FileHasReported, AllOriginsWritten, Goroutines
<1> QED
  BY <1>1, FileInvAlways, PTL
-----------------------------------------------------------------------------
(* The sums over all ASes.                                                 *)

At(c, l) == [a \in AS |-> c[a][l]]

(* SumOf is a sum.                                                         *)
LEMMA SumOfIsSum ==
  ASSUME NEW c \in [AS -> [Levels -> Nat]], NEW l \in Levels
  PROVE  \E sum : Sums(sum, AS, At(c, l)) /\ SumOf(c, l) = sum[AS]
<1> DEFINE Iterates(g) == g = [s \in SUBSET AS |-> IF s = {} THEN 0
                                ELSE LET x == CHOOSE x \in s : TRUE
                                     IN  c[x][l] + g[s \ {x}]]
           sum == CHOOSE g : Iterates(g)
<1>1. SumOf(c, l) = sum[AS]
  BY DEF SumOf, MapThenSumSet, MapThenFoldSet
<1>2. \A g : Iterates(g) <=> Sums(g, AS, At(c, l))
  <2> SUFFICES ASSUME NEW g PROVE Iterates(g) <=> Sums(g, AS, At(c, l))
    OBVIOUS
  <2> DEFINE left == [s \in SUBSET AS |-> IF s = {} THEN 0
                       ELSE LET x == CHOOSE x \in s : TRUE IN c[x][l] + g[s \ {x}]]
             right == [s \in SUBSET AS |-> IF s = {} THEN 0
                        ELSE LET x == CHOOSE x \in s : TRUE IN At(c, l)[x] + g[s \ {x}]]
  <2>1. left = right
    <3>1. ASSUME NEW s \in SUBSET AS, s # {}
          PROVE  At(c, l)[CHOOSE x \in s : TRUE] = c[CHOOSE x \in s : TRUE][l]
      <4> DEFINE x == CHOOSE x \in s : TRUE
      <4>1. x \in AS
        BY <3>1
      <4> HIDE DEF x
      <4>2. At(c, l)[x] = c[x][l]
        BY <4>1 DEF At
      <4> QED
        BY <4>2 DEF x
    <3> QED
      BY <3>1
  <2>2. Iterates(g) <=> g = left
    OBVIOUS
  <2>3. Sums(g, AS, At(c, l)) <=> g = right
    BY DEF Sums
  <2> HIDE DEF left, right, Iterates
  <2> QED
    BY <2>1, <2>2, <2>3
<1>3. \E g : Iterates(g)
  <2>1. At(c, l) \in [AS -> Nat]
    BY DEF At
  <2>2. \E g : Sums(g, AS, At(c, l))
    BY <2>1, SumsExist, ConstantsAssumption
  <2> HIDE DEF Iterates
  <2> QED
    BY <1>2, <2>2
<1>4. Iterates(sum)
  <2> HIDE DEF Iterates
  <2> QED
    BY <1>3
<1> HIDE DEF sum, Iterates
<1> QED
  BY <1>1, <1>2, <1>4

LEMMA SumOfZero ==
  ASSUME NEW l \in Levels
  PROVE  SumOf(Zero, l) = 0
<1>1. Zero \in [AS -> [Levels -> Nat]] /\ \A a \in AS : At(Zero, l)[a] = 0
  BY DEF Zero, At
<1>2. PICK sum : Sums(sum, AS, At(Zero, l)) /\ SumOf(Zero, l) = sum[AS]
  BY <1>1, SumOfIsSum
<1> QED
  BY <1>1, <1>2, SumOfZeros, ConstantsAssumption

(* One more at a level of an AS is one more in the sum of that level.      *)
LEMMA SumOfOneMore ==
  ASSUME NEW c \in [AS -> [Levels -> Nat]], NEW a \in AS, NEW k \in Levels,
         NEW l \in Levels
  PROVE  /\ SumOf(c, l) \in Nat
         /\ SumOf(OneMore(c, a, k), l) = SumOf(c, l) + (IF l = k THEN 1 ELSE 0)
<1> DEFINE d == OneMore(c, a, k)
           n == IF l = k THEN 1 ELSE 0
<1>1. d \in [AS -> [Levels -> Nat]]
  BY OneMoreInTotal
<1>2. At(c, l) \in [AS -> Nat] /\ At(d, l) \in [AS -> Nat]
  <2> HIDE DEF d
  <2> QED
    BY <1>1 DEF At
<1>3. ASSUME NEW b \in AS
      PROVE  At(d, l)[b] = At(c, l)[b] + (IF b = a THEN n ELSE 0)
  <2>1. d[b][l] = c[b][l] + (IF b = a /\ l = k THEN 1 ELSE 0)
    BY OneMoreAtLevel
  <2>2. At(d, l)[b] = d[b][l] /\ At(c, l)[b] = c[b][l]
    BY DEF At
  <2> HIDE DEF d
  <2> QED
    BY <2>1, <2>2
<1> HIDE DEF d
<1>4. PICK sum : Sums(sum, AS, At(c, l)) /\ SumOf(c, l) = sum[AS]
  BY SumOfIsSum
<1>5. PICK more : Sums(more, AS, At(d, l)) /\ SumOf(d, l) = more[AS]
  BY <1>1, SumOfIsSum
<1>6. n \in Nat
  OBVIOUS
<1> HIDE DEF n
<1>7. sum[AS] \in Nat /\ more[AS] = sum[AS] + n
  <2>1. DiffersAt(At(c, l), At(d, l), AS, a, n)
    BY <1>3 DEF DiffersAt
  <2> QED
    BY <1>2, <1>4, <1>5, <1>6, <2>1, SumsDiffer, ConstantsAssumption
<1> QED
  BY <1>4, <1>5, <1>7 DEF d, n

Counting == {"lock", "get", "insert"}

One(b) == IF b THEN 1 ELSE 0

(* From the end, the updates still to come are in pairs, of which the      *)
(* second is at the level opposite to the first's.                         *)
InPairs ==
  \A k \in 1..(Len(todo) - 1) :
    (Len(todo) - k) % 2 = 1 => todo[k + 1].level = Opposite(todo[k].level)

(* What is counted: all found, but for the updates still to come.  Between *)
(* the two updates of a conflict the one that is missing makes the sums of *)
(* the two levels equal.                                                   *)
CountInv ==
  /\ pc["main"] \notin Counting => todo = <<>>
  /\ InPairs
  /\ SumOf(counter, "lessSpecific") + SumOf(counter, "sameSubnet")
       + SumOf(counter, "moreSpecific") + Len(todo) = 2 * countConflicts
  /\ Len(todo) % 2 = 0 =>
       SumOf(counter, "lessSpecific") = SumOf(counter, "moreSpecific")
  /\ Len(todo) % 2 = 1 =>
       SumOf(counter, "lessSpecific") + One(todo[1].level = "lessSpecific")
         = SumOf(counter, "moreSpecific") + One(todo[1].level = "moreSpecific")

LEMMA InitCountInv == Init => CountInv
<1> SUFFICES ASSUME Init PROVE CountInv
  OBVIOUS
<1>1. todo = <<>> /\ Len(todo) = 0 /\ counter = Zero /\ countConflicts = 0
  BY EmptySeq DEF Init
<1>2. \A l \in Levels : SumOf(counter, l) = 0
  BY <1>1, SumOfZero
<1>3. /\ SumOf(counter, "lessSpecific") = 0 /\ SumOf(counter, "sameSubnet") = 0
      /\ SumOf(counter, "moreSpecific") = 0
  BY <1>2 DEF Levels
<1> QED
  BY <1>1, <1>3 DEF CountInv, InPairs

LEMMA SumsAreNumbers ==
  ASSUME NEW c \in [AS -> [Levels -> Nat]], NEW l \in Levels
  PROVE  SumOf(c, l) \in Nat
<1>1. At(c, l) \in [AS -> Nat]
  BY DEF At
<1>2. PICK sum : Sums(sum, AS, At(c, l)) /\ SumOf(c, l) = sum[AS]
  BY SumOfIsSum
<1>3. CASE AS = {}
  BY <1>2, <1>3 DEF Sums
<1>4. CASE AS # {}
  BY <1>4, SumOfOneMore
<1> QED
  BY <1>3, <1>4

LEMMA CountKeepsCountInv ==
  ASSUME TypeInv, CountInv, NEW from \in {"get", "insert"}, Count(from)
  PROVE  CountInv'
<1> DEFINE u == Head(todo)
           a == u.asn
           k == u.level
           n == Len(todo)
           less == "lessSpecific"
           same == "sameSubnet"
           more == "moreSpecific"
<1>1. /\ pc["main"] = from
      /\ pc' = [pc EXCEPT !["main"] = IF Len(todo) = 1 THEN "idle" ELSE "lock"]
      /\ pc \in [Goroutines -> Places] /\ "main" \in Goroutines
  BY DEF Count, GoTo, TypeInv, TypeOK, Goroutines, Places
<1>2. todo \in Seq(Update) /\ todo # <<>>
  BY <1>1 DEF TypeInv, TypeOK
<1>3. /\ u \in Update /\ u = todo[1] /\ Tail(todo) \in Seq(Update)
      /\ Len(Tail(todo)) = n - 1 /\ n \in Nat
      /\ \A j \in 1..Len(Tail(todo)) : Tail(todo)[j] = todo[j + 1]
  BY <1>2, HeadTailProperties, LenProperties
<1>4. n # 0
  BY <1>2, EmptySeq
<1>5. a \in AS /\ k \in Levels /\ counter \in [AS -> [Levels -> Nat]]
  BY <1>3 DEF Update, TypeInv, TypeOK
<1>6. counter' = OneMore(counter, a, k) /\ todo' = Tail(todo) /\ countConflicts' = countConflicts
  BY DEF Count, OneMore, bounded
<1> HIDE DEF u, a, k
<1>7. \A l \in Levels : /\ SumOf(counter, l) \in Nat
                        /\ SumOf(counter', l) = SumOf(counter, l) + One(l = k)
  BY <1>5, <1>6, SumOfOneMore DEF One
<1>9. less \in Levels /\ same \in Levels /\ more \in Levels
      /\ less # same /\ less # more /\ same # more
      /\ (k = less \/ k = same \/ k = more)
  BY <1>5 DEF Levels
<1>11. (n - 1) % 2 = 1 <=> n % 2 = 0
  BY <1>3
<1> DEFINE sl == SumOf(counter, less)
           ss == SumOf(counter, same)
           sm == SumOf(counter, more)
<1>12. /\ sl \in Nat /\ ss \in Nat /\ sm \in Nat
       /\ SumOf(counter', less) = sl + One(less = k)
       /\ SumOf(counter', same) = ss + One(same = k)
       /\ SumOf(counter', more) = sm + One(more = k)
  BY <1>7, <1>9
<1>13. sl + ss + sm + n = 2 * countConflicts /\ countConflicts \in Nat
  BY ConstantsAssumption DEF CountInv, TypeInv, TypeOK
<1>14. n % 2 = 0 => sl = sm
  BY DEF CountInv
<1>15. n % 2 = 1 => sl + One(k = less) = sm + One(k = more)
  BY <1>3 DEF CountInv, k
<1>16. InPairs'
  <2> SUFFICES ASSUME NEW j \in 1..((n - 1) - 1), ((n - 1) - j) % 2 = 1
               PROVE  Tail(todo)[j + 1].level = Opposite(Tail(todo)[j].level)
    BY <1>3, <1>6 DEF InPairs
  <2>1. j + 1 \in 1..(n - 1) /\ (n - (j + 1)) % 2 = 1 /\ j \in 1..(n - 1)
    BY <1>3
  <2>2. todo[(j + 1) + 1].level = Opposite(todo[j + 1].level)
    BY <2>1 DEF CountInv, InPairs
  <2> QED
    BY <1>3, <2>1, <2>2
<1>17. n % 2 = 0 => todo'[1].level = Opposite(k)
  <2> SUFFICES ASSUME n % 2 = 0
               PROVE  todo'[1].level = Opposite(k)
    OBVIOUS
  <2>1. 1 \in 1..(n - 1) /\ (n - 1) % 2 = 1
    BY <1>3, <1>4
  <2>2. todo[1 + 1].level = Opposite(todo[1].level)
    BY <2>1 DEF CountInv, InPairs
  <2>3. todo'[1] = todo[1 + 1]
    BY <1>3, <1>6, <2>1
  <2> QED
    BY <1>3, <2>2, <2>3 DEF k
<1>18. pc'["main"] \notin Counting => todo' = <<>>
  <2>1. pc'["main"] \notin Counting => n = 1
    BY <1>1 DEF Counting
  <2> QED
    BY <1>3, <1>6, <2>1, EmptySeq
<1>19. Len(todo') = n - 1
  BY <1>3, <1>6
<1> HIDE DEF sl, ss, sm, n, less, same, more
<1>20. /\ (sl + One(less = k)) + (ss + One(same = k)) + (sm + One(more = k)) + (n - 1)
            = 2 * countConflicts
       /\ (n - 1) % 2 = 0 => sl + One(less = k) = sm + One(more = k)
  BY <1>3, <1>9, <1>11, <1>12, <1>13, <1>15 DEF One
<1>21. (n - 1) % 2 = 1 => (sl + One(less = k)) + One(todo'[1].level = less)
                           = (sm + One(more = k)) + One(todo'[1].level = more)
  <2>1. CASE n % 2 = 0
    <3>1. /\ k = less => todo'[1].level = more
          /\ k = same => todo'[1].level = same
          /\ k = more => todo'[1].level = less
      BY <1>9, <1>17, <2>1 DEF Opposite, less, same, more
    <3> QED
      BY <1>9, <1>12, <1>14, <2>1, <3>1 DEF One
  <2> QED
    BY <1>11, <2>1
<1> QED
  BY <1>6, <1>12, <1>16, <1>18, <1>19, <1>20, <1>21
  DEF CountInv, less, same, more, sl, ss, sm

LEMMA FindConflictsKeepsCountInv ==
  ASSUME TypeInv, CountInv, FindConflicts
  PROVE  CountInv'
<1>1. PICK origin \in AS, n \in 1..(MaxConflicts - countConflicts) :
        \E cs : Finds(origin, n, cs)
  BY DEF FindConflicts, Finds
<1>2. PICK cs : Finds(origin, n, cs)
  BY <1>1
<1>3. n \in Nat /\ n > 0 /\ countConflicts \in Nat /\ countConflicts' = countConflicts + n
  BY <1>2, ConstantsAssumption DEF Finds, TypeInv, TypeOK
<1>4. todo' = [k \in 1..(2 * n) |->
                 Updates(origin, cs[(k + 1) \div 2])[IF k % 2 = 1 THEN 1 ELSE 2]]
  BY <1>2 DEF Finds
<1>5. Len(todo') = 2 * n
  BY <1>3, <1>4
<1>6. todo = <<>> /\ Len(todo) = 0
  <2>1. pc["main"] = "idle"
    BY <1>2 DEF Finds, GoTo
  <2> QED
    BY <2>1, EmptySeq DEF CountInv, Counting
<1>7. pc'["main"] \in Counting
  BY <1>2 DEF Finds, GoTo, TypeInv, TypeOK, Goroutines, Counting
<1>8. InPairs'
  <2> SUFFICES ASSUME NEW k \in 1..(2 * n - 1), (2 * n - k) % 2 = 1
               PROVE  todo'[k + 1].level = Opposite(todo'[k].level)
    BY <1>5 DEF InPairs
  <2> DEFINE c == cs[(k + 1) \div 2]
  <2>1. /\ k \in 1..(2 * n) /\ k + 1 \in 1..(2 * n)
        /\ k % 2 = 1 /\ (k + 1) % 2 # 1 /\ ((k + 1) + 1) \div 2 = (k + 1) \div 2
    BY <1>3
  <2>2. todo'[k] = Updates(origin, c)[1] /\ todo'[k + 1] = Updates(origin, c)[2]
    BY <1>4, <2>1
  <2> HIDE DEF c
  <2>3. /\ Updates(origin, c)[1].level = c.level
        /\ Updates(origin, c)[2].level = Opposite(c.level)
    BY DEF Updates
  <2> QED
    BY <2>2, <2>3
<1>9. counter' = counter
  BY <1>2 DEF Finds, counters
<1>10. \A l \in Levels : SumOf(counter, l) \in Nat
  BY SumsAreNumbers DEF TypeInv, TypeOK
<1> DEFINE sl == SumOf(counter, "lessSpecific")
           ss == SumOf(counter, "sameSubnet")
           sm == SumOf(counter, "moreSpecific")
<1>11. /\ sl \in Nat /\ ss \in Nat /\ sm \in Nat
       /\ sl + ss + sm + 0 = 2 * countConflicts /\ sl = sm
  <2>1. sl \in Nat /\ ss \in Nat /\ sm \in Nat
    BY <1>10 DEF Levels
  <2> QED
    BY <1>6, <2>1 DEF CountInv
<1> HIDE DEF sl, ss, sm
<1>12. sl + ss + sm + 2 * n = 2 * (countConflicts + n) /\ (2 * n) % 2 = 0
  BY <1>3, <1>11
<1>13. /\ (sl + ss + sm + Len(todo'))  = 2 * countConflicts'
       /\ sl = sm /\ Len(todo') % 2 # 1
  BY <1>3, <1>5, <1>11, <1>12
<1> QED
  BY <1>7, <1>8, <1>9, <1>13 DEF CountInv, sl, ss, sm

(* No other step counts or finds a conflict, or brings main to or from its *)
(* counting.                                                               *)
LEMMA NextKeepsCountInv ==
  ASSUME TypeInv, CountInv, [Next]_vars
  PROVE  CountInv'
<1>1. CASE UpdateCounter \/ InsertCounter
  BY <1>1, CountKeepsCountInv DEF UpdateCounter, InsertCounter
<1>2. CASE FindConflicts
  BY <1>2, FindConflictsKeepsCountInv
<1>3. CASE ~(UpdateCounter \/ InsertCounter \/ FindConflicts)
  <2>1. UNCHANGED <<counter, todo, countConflicts>>
    BY <1>3
    DEF Next, Main, Ticker, Cleanup, StartMain, StartMainFails,
        LockCounter, LookUp, MapRace, EndMain, StartTicker, Tick, LockToWrite,
        WriteInterval, WriteIntervalFails, LockToReset, Reset, WaitForSignal, Signal,
        SignalDropped, StartCleanup, HeapProfileFails, PrintShortSummary, LockToFinish,
        CreateFinal, CreateFinalFails, WriteRows, WriteRowsFails, Exit, Lock, vars,
        counters, bounded
  <2>2. \/ UNCHANGED pc
        \/ \E g \in Goroutines : \E from, to :
             GoTo(g, from, to) /\ (g = "main" => (from \in Counting <=> to \in Counting))
    BY <1>3
    DEF Next, Main, Ticker, Cleanup, StartMain, StartMainFails,
        LockCounter, LookUp, MapRace, EndMain, StartTicker, Tick, LockToWrite,
        WriteInterval, WriteIntervalFails, LockToReset, Reset, WaitForSignal, Signal,
        SignalDropped, StartCleanup, HeapProfileFails, PrintShortSummary, LockToFinish,
        CreateFinal, CreateFinalFails, WriteRows, WriteRowsFails, Exit, Lock, vars,
        Counting, Goroutines
  <2>3. pc'["main"] \in Counting <=> pc["main"] \in Counting
    <3>1. pc \in [Goroutines -> Places] /\ "main" \in Goroutines
      BY DEF TypeInv, TypeOK, Places, Goroutines
    <3> QED
      BY <2>2, <3>1 DEF GoTo
  <2> QED
    BY <2>1, <2>3 DEF CountInv, InPairs
<1> QED
  BY <1>1, <1>2, <1>3

(* Each conflict found is counted for its two origins, at opposite levels, *)
(* whatever the ticker and cleanup do between the two.                     *)
THEOREM EveryConflictCountedTwiceAlways == Spec => []EveryConflictCountedTwice
<1>1. Init => TypeInv /\ RelatedAtMostTotal /\ CountInv
  BY InitTypeInv, InitCountInv
<1>2. (TypeInv /\ RelatedAtMostTotal /\ CountInv) /\ [Next]_vars
        => (TypeInv /\ RelatedAtMostTotal /\ CountInv)'
  BY NextKeepsTypeInv, NextKeepsCountInv
<1>3. CountInv => EveryConflictCountedTwice
  BY DEF CountInv, EveryConflictCountedTwice
<1> QED
  BY <1>1, <1>2, <1>3, PTL DEF Spec

=============================================================================
