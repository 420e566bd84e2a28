----------------------------- MODULE ASsummary ------------------------------
(***************************************************************************)
(* The counters of the origin ASes (ASsummary.go) and the goroutines that  *)
(* use them, in part under the lock "mutex":                               *)
(*   main     counts the conflicts it finds and, at the end of its input,  *)
(*            calls cleanup (Main.go);                                     *)
(*   ticker   checkForTimeIntervall: writes and resets the recent counters;*)
(*   handler  waits for SIGTERM and calls cleanup.                         *)
(*                                                                         *)
(* A lookup of an AS is an external call, which answers or fails at last.  *)
(* The names and countries it returns, and the order of the rows of a file,*)
(* are left out.                                                           *)
(***************************************************************************)
EXTENDS Naturals, Sequences, FiniteSets, FiniteSetsExt

CONSTANTS AS,            (* the AS numbers                                 *)
          Live,          (* the flag -live                                 *)
          MainEnds,      (* the input ends, or -endlive is given           *)
          FilesMayFail,  (* a file may not be created or written           *)
          MaxConflicts,  (* bound: conflicts found                         *)
          MaxTicks,      (* bound: intervals                               *)
          MaxSignals     (* bound: signals sent                            *)

ASSUME ConstantsAssumption ==
  /\ IsFiniteSet(AS)
  /\ Live \in BOOLEAN /\ MainEnds \in BOOLEAN /\ FilesMayFail \in BOOLEAN
  /\ MaxConflicts \in Nat /\ MaxTicks \in Nat /\ MaxSignals \in Nat

VARIABLES
  pc,                (* where each goroutine is                            *)
  outcome,           (* of the program                                     *)
  mutex,             (* its holder, "nil" before it is allocated           *)
  originCounters,    (* the ASes that have a counter                       *)
  counter,           (* per AS and level                                   *)
  topographicallyRelated,
  counterRecent, topographicallyRelatedRecent,
  countConflicts,    (* conflicts found                                    *)
  todo,              (* main's calls of updateOriginCounter still to come  *)
  originsFile,       (* the rows of the final csv file                     *)
  recentFilesCounter,(* the number of interval files                       *)
  signals,           (* signals sent                                       *)
  reported,          (* history: the origins in the conflicts file         *)
  filed,             (* history: the sums of the interval files            *)
  atCleanup          (* history: the counters when cleanup first started   *)

counters == <<originCounters, counter, topographicallyRelated>>
recents == <<counterRecent, topographicallyRelatedRecent>>
bounded == <<countConflicts, recentFilesCounter, signals>>
history == <<reported, filed, atCleanup>>
vars == <<pc, outcome, mutex, counters, recents, todo, originsFile, bounded, history>>

Goroutines == {"main", "ticker", "handler"}

Levels == {"lessSpecific", "sameSubnet", "moreSpecific"}

Update == [asn : AS, level : Levels, inPath : BOOLEAN]

Row == [asn : AS, counts : [Levels -> Nat], related : Nat]

Zero == [a \in AS |-> [l \in Levels |-> 0]]

(* Between mutex.Lock and mutex.Unlock.                                    *)
CriticalSection == {"get", "insert", "write", "reset", "create", "rows"}

-----------------------------------------------------------------------------
Total(c, a) == c[a]["lessSpecific"] + c[a]["sameSubnet"] + c[a]["moreSpecific"]

(* Faulty variant: the next level, where there is one.                     *)
NextLevel(l) == CASE l = "lessSpecific" -> "sameSubnet"
                  [] l = "sameSubnet"   -> "moreSpecific"
                  [] l = "moreSpecific" -> "none"

(* The level of the other origin of a conflict.                            *)
Opposite(l) == CASE l = "lessSpecific" -> "moreSpecific"
                 [] l = "sameSubnet"   -> "sameSubnet"
                 [] l = "moreSpecific" -> "lessSpecific"

(* A conflict of an announcement, seen from the announcement's origin.     *)
Conflicts(origin) == [origin : AS \ {origin}, level : Levels, inPath : BOOLEAN]

(* Faulty variant: the other origin is counted at the same level.          *)
UpdatesAtOneLevel(origin, c) ==
  <<[asn |-> origin,   level |-> c.level, inPath |-> c.inPath],
    [asn |-> c.origin, level |-> c.level, inPath |-> c.inPath]>>

Updates(origin, c) ==
  <<[asn |-> origin,   level |-> c.level,           inPath |-> c.inPath],
    [asn |-> c.origin, level |-> Opposite(c.level), inPath |-> c.inPath]>>

Rows(asns) == {[asn |-> a, counts |-> counter[a],
                related |-> topographicallyRelated[a]] : a \in asns}

-----------------------------------------------------------------------------
Init ==
  /\ pc = [main    |-> "start",
           ticker  |-> "start",
           handler |-> "start"]
  /\ outcome = "running"
  /\ mutex = "nil"
  /\ originCounters = {}
  /\ counter = Zero /\ topographicallyRelated = [a \in AS |-> 0]
  /\ counterRecent = Zero /\ topographicallyRelatedRecent = [a \in AS |-> 0]
  /\ todo = <<>>
  /\ originsFile = {}
  /\ countConflicts = 0 /\ recentFilesCounter = 0 /\ signals = 0
  /\ reported = {} /\ filed = Zero /\ atCleanup = Zero

GoTo(g, from, to) ==
  /\ outcome = "running"
  /\ pc[g] = from
  /\ pc' = [pc EXCEPT ![g] = to]

(* Faulty variant: the lock is tried, and the answer not looked at.        *)
TryLock(g, from, to) ==
  /\ GoTo(g, from, to)
  /\ mutex' = IF mutex = "free" THEN g ELSE mutex
  /\ UNCHANGED <<outcome, counters, recents, todo, originsFile, bounded, history>>

(* While the lock is nil, locking it panics.                               *)
Lock(g, from, to) ==
  /\ \/ /\ mutex = "free"
        /\ GoTo(g, from, to)
        /\ mutex' = g
        /\ UNCHANGED outcome
     \/ /\ mutex = "nil"
        /\ GoTo(g, from, from)
        /\ outcome' = "panicked"
        /\ UNCHANGED mutex
  /\ UNCHANGED <<counters, recents, todo, originsFile, bounded, history>>

-----------------------------------------------------------------------------
(* main *)

(* The conflicts file is created, the lock allocated; the ticker is started*)
(* later, when the files have been read, which shows as its first tick.    *)
StartMain ==
  /\ GoTo("main", "start", "idle")
  /\ mutex' = "free"
  /\ UNCHANGED <<outcome, counters, recents, todo, originsFile, bounded, history>>

StartMainFails ==
  /\ FilesMayFail
  /\ GoTo("main", "start", "returned")
  /\ outcome' = "returned"
  /\ UNCHANGED <<mutex, counters, recents, todo, originsFile, bounded, history>>

(* prepareJSON and writeJson; that writing fails is only printed.          *)
WriteJson(origins) == \/ reported' = reported \cup origins
                      \/ FilesMayFail /\ UNCHANGED reported

(* An announcement has conflicts: they are written to the conflicts file,  *)
(* then updateSummary counts each of them with two calls.                  *)
FindConflicts ==
  \E origin \in AS :
    \E n \in 1..(MaxConflicts - countConflicts) :
      \E cs \in [1..n -> Conflicts(origin)] :
        /\ GoTo("main", "idle", "lock")
        /\ countConflicts' = countConflicts + n
        /\ WriteJson({origin} \cup {cs[i].origin : i \in 1..n})
        /\ todo' = [k \in 1..(2 * n) |->
                      Updates(origin, cs[(k + 1) \div 2])[IF k % 2 = 1 THEN 1 ELSE 2]]
        /\ UNCHANGED <<outcome, mutex, counters, recents, originsFile,
                       recentFilesCounter, signals, filed, atCleanup>>

LockCounter == Lock("main", "lock", "get")

(* The counter is missing: look up the AS, which leaves the lock locked.   *)
LookUp ==
  /\ GoTo("main", "get", "insert")
  /\ Head(todo).asn \notin originCounters
  /\ UNCHANGED <<outcome, mutex, counters, recents, todo, originsFile, bounded, history>>

(* Count the first update and unlock.                                      *)
Count(from) ==
  LET u == Head(todo)
      relatedBy == IF u.inPath THEN 1 ELSE 0
  IN  /\ GoTo("main", from, IF Len(todo) = 1 THEN "idle" ELSE "lock")
      /\ originCounters' = originCounters \cup {u.asn}
      /\ counter' = [counter EXCEPT ![u.asn][u.level] = @ + 1]
      /\ topographicallyRelated' =
           [topographicallyRelated EXCEPT ![u.asn] = @ + relatedBy]
      /\ counterRecent' = [counterRecent EXCEPT ![u.asn][u.level] = @ + 1]
      /\ topographicallyRelatedRecent' =
           [topographicallyRelatedRecent EXCEPT ![u.asn] = @ + relatedBy]
      /\ todo' = Tail(todo)
      /\ mutex' = "free"
      /\ UNCHANGED <<outcome, originsFile, bounded, history>>

(* The counter is there, or has been looked up.                            *)
UpdateCounter == Count("get") /\ Head(todo).asn \in originCounters

InsertCounter == Count("insert")

(* Go detects a write to a map that is being read and stops the program;   *)
(* it need not detect it.                                                  *)
MapRace ==
  /\ GoTo("main", "insert", "insert")
  /\ pc["handler"] = "summary"
  /\ outcome' = "panicked"
  /\ UNCHANGED <<mutex, counters, recents, todo, originsFile, bounded, history>>

-----------------------------------------------------------------------------
(* checkForTimeIntervall *)

StartTicker ==
  /\ Live
  /\ pc["main"] # "start"
  /\ GoTo("ticker", "start", "wait")
  /\ UNCHANGED <<outcome, mutex, counters, recents, todo, originsFile, bounded, history>>

Tick ==
  /\ recentFilesCounter < MaxTicks
  /\ GoTo("ticker", "wait", "lock")
  /\ UNCHANGED <<outcome, mutex, counters, recents, todo, originsFile, bounded, history>>

LockToWrite == Lock("ticker", "lock", "write")

(* Faulty variant: the lock is left locked.                                *)
WriteWithoutUnlock ==
  /\ GoTo("ticker", "write", "relock")
  /\ recentFilesCounter' = recentFilesCounter + 1
  /\ filed' = [a \in AS |-> [l \in Levels |-> filed[a][l] + counterRecent[a][l]]]
  /\ UNCHANGED <<outcome, mutex, counters, recents, todo, originsFile,
                 countConflicts, signals, reported, atCleanup>>

WriteInterval ==
  /\ GoTo("ticker", "write", "relock")
  /\ recentFilesCounter' = recentFilesCounter + 1
  /\ filed' = [a \in AS |-> [l \in Levels |-> filed[a][l] + counterRecent[a][l]]]
  /\ mutex' = "free"
  /\ UNCHANGED <<outcome, counters, recents, todo, originsFile,
                 countConflicts, signals, reported, atCleanup>>

(* The file is not created, or breaks off after some rows: the function    *)
(* returns with the lock locked.                                           *)
WriteIntervalFails ==
  /\ FilesMayFail
  /\ GoTo("ticker", "write", "relock")
  /\ recentFilesCounter' = recentFilesCounter + 1
  /\ \E written \in SUBSET originCounters :
       filed' = [a \in AS |-> IF a \in written
                              THEN [l \in Levels |-> filed[a][l] + counterRecent[a][l]]
                              ELSE filed[a]]
  /\ UNCHANGED <<outcome, mutex, counters, recents, todo, originsFile,
                 countConflicts, signals, reported, atCleanup>>

LockToReset == Lock("ticker", "relock", "reset")

(* Faulty variant: the counters of one level are not reset.                *)
ResetTwoLevels ==
  /\ GoTo("ticker", "reset", "wait")
  /\ counterRecent' = [a \in AS |-> [Zero[a] EXCEPT
                         !["sameSubnet"] = counterRecent[a]["sameSubnet"]]]
  /\ topographicallyRelatedRecent' = [a \in AS |-> 0]
  /\ mutex' = "free"
  /\ UNCHANGED <<outcome, counters, todo, originsFile, bounded, history>>

(* Faulty variant: topographicallyRelatedRecent is not reset.              *)
ResetLevelsOnly ==
  /\ GoTo("ticker", "reset", "wait")
  /\ counterRecent' = Zero
  /\ mutex' = "free"
  /\ UNCHANGED <<outcome, counters, topographicallyRelatedRecent, todo,
                 originsFile, bounded, history>>

Reset ==
  /\ GoTo("ticker", "reset", "wait")
  /\ counterRecent' = Zero
  /\ topographicallyRelatedRecent' = [a \in AS |-> 0]
  /\ mutex' = "free"
  /\ UNCHANGED <<outcome, counters, todo, originsFile, bounded, history>>

-----------------------------------------------------------------------------
(* cleanup: in the handler, or in main *)

WaitForSignal ==
  /\ GoTo("handler", "start", "wait")
  /\ UNCHANGED <<outcome, mutex, counters, recents, todo, originsFile, bounded, history>>

InCleanup == {"summary", "final", "create", "rows", "exit"}

StartCleanup(g, from) ==
  /\ GoTo(g, from, "summary")
  /\ atCleanup' = IF \E h \in Goroutines : pc[h] \in InCleanup THEN atCleanup
                                                             ELSE counter
  /\ UNCHANGED <<outcome, mutex, counters, recents, todo, originsFile,
                 countConflicts, recentFilesCounter, reported, filed>>

Signal ==
  /\ signals < MaxSignals
  /\ signals' = signals + 1
  /\ StartCleanup("handler", "wait")

(* The channel has no buffer: without a receiver the signal is dropped.    *)
SignalDropped ==
  /\ signals < MaxSignals
  /\ outcome = "running"
  /\ pc["handler"] # "wait"
  /\ signals' = signals + 1
  /\ UNCHANGED <<pc, outcome, mutex, counters, recents, todo, originsFile,
                 countConflicts, recentFilesCounter, history>>

(* The last file is read, or a message comes after the stop time.          *)
EndMain ==
  /\ MainEnds
  /\ StartCleanup("main", "idle")
  /\ UNCHANGED signals

(* The heap profile cannot be created or written: cleanup panics before it *)
(* has printed or written anything.                                        *)
HeapProfileFails(g) ==
  /\ FilesMayFail
  /\ GoTo(g, "summary", "summary")
  /\ outcome' = "panicked"
  /\ UNCHANGED <<mutex, counters, recents, todo, originsFile, bounded, history>>

(* Faulty variant: the summary is printed under the lock, which is kept.   *)
PrintSummaryLocked(g) ==
  /\ GoTo(g, "summary", "final")
  /\ mutex' = g
  /\ UNCHANGED <<outcome, counters, recents, todo, originsFile, bounded, history>>

(* printShortSummary reads the table without the lock, from the step to    *)
(* "summary" to this step.                                                 *)
PrintShortSummary(g) ==
  /\ GoTo(g, "summary", "final")
  /\ UNCHANGED <<outcome, mutex, counters, recents, todo, originsFile, bounded, history>>

LockToFinish(g) == Lock(g, "final", "create")

(* Creating the file truncates it.                                         *)
CreateFinal(g) ==
  /\ GoTo(g, "create", "rows")
  /\ originsFile' = {}
  /\ UNCHANGED <<outcome, mutex, counters, recents, todo, bounded, history>>

CreateFinalFails(g) ==
  /\ FilesMayFail
  /\ GoTo(g, "create", "exit")
  /\ UNCHANGED <<outcome, mutex, counters, recents, todo, originsFile, bounded, history>>

(* Faulty variant: the recent counters are written.                        *)
WriteRecentRows(g) ==
  /\ GoTo(g, "rows", "exit")
  /\ originsFile' = {[asn |-> a, counts |-> counterRecent[a],
                      related |-> topographicallyRelatedRecent[a]] : a \in originCounters}
  /\ mutex' = "free"
  /\ UNCHANGED <<outcome, counters, recents, todo, bounded, history>>

(* Faulty variant: only the origins of the last interval are written.      *)
WriteRowsOfInterval(g) ==
  /\ GoTo(g, "rows", "exit")
  /\ originsFile' = Rows({a \in originCounters : Total(counterRecent, a) > 0})
  /\ mutex' = "free"
  /\ UNCHANGED <<outcome, counters, recents, todo, bounded, history>>

WriteRows(g) ==
  /\ GoTo(g, "rows", "exit")
  /\ originsFile' = Rows(originCounters)
  /\ mutex' = "free"
  /\ UNCHANGED <<outcome, counters, recents, todo, bounded, history>>

(* The rows break off: return with the lock locked, and exit.              *)
WriteRowsFails(g) ==
  /\ FilesMayFail
  /\ GoTo(g, "rows", "exit")
  /\ \E written \in SUBSET originCounters : originsFile' = Rows(written)
  /\ UNCHANGED <<outcome, mutex, counters, recents, todo, bounded, history>>

Exit(g) ==
  /\ GoTo(g, "exit", "exit")
  /\ outcome' = "exited"
  /\ UNCHANGED <<mutex, counters, recents, todo, originsFile, bounded, history>>

-----------------------------------------------------------------------------
Main == \/ StartMain \/ StartMainFails
        \/ FindConflicts \/ LockCounter \/ LookUp \/ UpdateCounter \/ InsertCounter
        \/ MapRace \/ EndMain

Ticker == \/ StartTicker \/ Tick
          \/ LockToWrite \/ WriteInterval \/ WriteIntervalFails
          \/ LockToReset \/ Reset

Cleanup(g) == \/ HeapProfileFails(g) \/ PrintShortSummary(g)
              \/ LockToFinish(g) \/ CreateFinal(g) \/ CreateFinalFails(g)
              \/ WriteRows(g) \/ WriteRowsFails(g)
              \/ Exit(g)

Next == \/ Main
        \/ Ticker
        \/ WaitForSignal \/ Signal \/ SignalDropped
        \/ \E g \in {"main", "handler"} : Cleanup(g)

(* The scheduler runs every goroutine that can run.  A waiter gets a lock  *)
(* that is free again and again, since sync.Mutex hands it over to one that*)
(* has waited for a millisecond.  Nothing makes a conflict, a tick or a    *)
(* signal happen.                                                          *)
Fairness ==
  /\ WF_vars(StartMain)
  /\ SF_vars(LockCounter) /\ WF_vars(LookUp)
  /\ WF_vars(UpdateCounter) /\ WF_vars(InsertCounter)
  /\ SF_vars(LockToWrite) /\ WF_vars(WriteInterval \/ WriteIntervalFails)
  /\ SF_vars(LockToReset) /\ WF_vars(Reset)
  /\ \A g \in {"main", "handler"} :
       /\ WF_vars(PrintShortSummary(g) \/ HeapProfileFails(g))
       /\ SF_vars(LockToFinish(g))
       /\ WF_vars(CreateFinal(g) \/ CreateFinalFails(g))
       /\ WF_vars(WriteRows(g) \/ WriteRowsFails(g))
       /\ WF_vars(Exit(g))

Spec == Init /\ [][Next]_vars /\ Fairness

-----------------------------------------------------------------------------
(* Every variable has the type its declaration gives it.                   *)
TypeOK ==
  /\ pc \in [Goroutines -> {"start", "idle", "returned", "wait", "lock", "relock",
                            "summary", "final", "exit"} \cup CriticalSection]
  /\ outcome \in {"running", "returned", "panicked", "exited"}
  /\ mutex \in {"nil", "free"} \cup Goroutines
  /\ originCounters \subseteq AS
  /\ counter \in [AS -> [Levels -> Nat]]
  /\ topographicallyRelated \in [AS -> Nat]
  /\ counterRecent \in [AS -> [Levels -> Nat]]
  /\ topographicallyRelatedRecent \in [AS -> Nat]
  /\ countConflicts \in 0..MaxConflicts
  /\ todo \in Seq(Update)
  /\ originsFile \subseteq Row
  /\ recentFilesCounter \in 0..MaxTicks
  /\ signals \in 0..MaxSignals
  /\ reported \subseteq AS
  /\ filed \in [AS -> [Levels -> Nat]]
  /\ atCleanup \in [AS -> [Levels -> Nat]]

(* Two goroutines are never both between Lock and Unlock.                  *)
MutualExclusion ==
  \A g, h \in Goroutines :
    pc[g] \in CriticalSection /\ pc[h] \in CriticalSection => g = h

(* A conflict is counted in one interval file at most, although the ticker *)
(* lets go of the lock between writing the counters and resetting them.    *)
CountedInOneInterval ==
  \A a \in AS, l \in Levels : filed[a][l] <= counter[a][l]

(* The percentage of conflicts whose origins are related is at most 100,   *)
(* for all conflicts and for those of the interval.                        *)
RelatedAtMostTotal ==
  \A a \in AS :
    /\ topographicallyRelated[a] <= Total(counter, a)
    /\ topographicallyRelatedRecent[a] <= Total(counterRecent, a)

SumOf(c, l) == MapThenSumSet(LAMBDA a : c[a][l], AS)

(* Each conflict is counted once for each of its two origins; as often as  *)
(* an AS is the less specific origin, another one is the more specific.    *)
EveryConflictCountedTwice ==
  /\ SumOf(counter, "lessSpecific") + SumOf(counter, "sameSubnet")
       + SumOf(counter, "moreSpecific") + Len(todo) = 2 * countConflicts
  /\ Len(todo) % 2 = 0 =>
       SumOf(counter, "lessSpecific") = SumOf(counter, "moreSpecific")

(* Only goroutine g has called cleanup.                                    *)
SoleCleanup(g) == {h \in Goroutines : pc[h] \in InCleanup} = {g}

(* The final file has all that was counted when the stop was initiated,    *)
(* however counting and intervals go on beside cleanup.  With two cleanups *)
(* the exit of the one can meet the file that the other has truncated.     *)
FinalFileComplete ==
  outcome = "exited" /\ (\E g \in Goroutines : SoleCleanup(g)) =>
    \A a \in AS, l \in Levels : atCleanup[a][l] > 0 =>
      \E row \in originsFile : row.asn = a /\ row.counts[l] >= atCleanup[a][l]

(* When the input has ended, all origins in the conflicts file are in the  *)
(* csv file.  A signal can come between the one and the other.             *)
AllOriginsWritten ==
  outcome = "exited" /\ SoleCleanup("main") =>
    \A a \in reported : \E row \in originsFile : row.asn = a

(* Once a signal is taken, or the input has ended, the program ends.       *)
SignalEnds ==
  \A g \in {"main", "handler"} : pc[g] = "summary" ~> outcome # "running"

(* main is not held up for ever: every conflict found is counted.          *)
ConflictsCounted ==
  todo # <<>> ~> todo = <<>> \/ outcome # "running"

(* A conflict counted in an interval is in the interval's file, or waits   *)
(* for the next one.                                                       *)
NoConflictLost ==
  pc["ticker"] \in {"wait", "lock", "write"} =>
    \A a \in AS, l \in Levels : filed[a][l] + counterRecent[a][l] = counter[a][l]
=============================================================================
