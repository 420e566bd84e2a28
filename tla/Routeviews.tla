----------------------------- MODULE Routeviews -----------------------------
(***************************************************************************)
(* Reading the files of Routeviews (processBGPFiles of Main.go,            *)
(* Routeviews.go, Scanner.go): the choice of the RIB and of the updates    *)
(* files by their names, the records of a file one by one, the peers and   *)
(* messages they contain, and the insertion of the messages.               *)
(*                                                                         *)
(* The trie is the table of routes it has been proved to implement         *)
(* (AdjRib), keyed by peer IDs.  A file may fail to open, and its scanner  *)
(* may end early, which no caller of it notices.                           *)
(***************************************************************************)
EXTENDS BGPMessages, PeerTable

CONSTANTS Directories,  (* the contents of -input: functions from names to *)
                        (* the records of a file                           *)
          NoFile,       (* no name                                         *)
          RibFlags,     (* the values of the flag -rib, NoFile when not set*)
          StopTimeSet,  (* the flag -endlive is given                      *)
          NoRoute       (* a peer has no route                             *)

(* rib.YYYYMMDD.HHMM or updates.YYYYMMDD.HHMM; "parts" are those the dots  *)
(* separate, without an ending.                                            *)
FileName == [kind : {"rib", "updates"}, time : Nat, parts : 1..3]

ASSUME FilesAssumption ==
  /\ \A d \in Directories : /\ DOMAIN d \subseteq FileName /\ IsFiniteSet(DOMAIN d)
                            /\ \A n \in DOMAIN d : d[n] \in Seq(Record(IPs, PeerASes))
  /\ RibFlags \subseteq FileName \cup {NoFile}
  /\ NoFile \notin FileName
  /\ StopTimeSet \in BOOLEAN
  /\ NoRoute \notin Origins

VARIABLES
  pc,         (* where main is                                             *)
  directory,  (* what is in -input                                         *)
  rib,        (* the name of the RIB                                       *)
  records,    (* the records of the open file that are still to be read    *)
  tables,     (* indexTableCount                                           *)
  left,       (* the names of updates files still to be looked at          *)
  todo,       (* the messages of the last record still to be inserted      *)
  table,      (* the routes in the trie, per peer ID and net               *)
  read,       (* history: the records read                                 *)
  failed      (* history: a file could not be read to its end              *)

fileVars == <<directory, rib, records, tables, left>>
history == <<read, failed>>

Trie == INSTANCE AdjRib WITH Peers   <- Ids,
                             Subnets <- Nets,
                             rib     <- table

FilesInit ==
  /\ pc = "start"
  /\ directory \in Directories
  /\ records = <<>> /\ tables = 0 /\ left = {} /\ todo = <<>>
  /\ Trie!Init
  /\ read = <<>> /\ failed = FALSE

(* A step of main from pc "from" to pc "to", with nothing left to insert.  *)
GoTo(from, to) ==
  /\ pc = from /\ todo = <<>>
  /\ pc' = to

-----------------------------------------------------------------------------
(* insertAndFindConflicts, for the first message of todo                   *)

InsertStep ==
  /\ todo # <<>> /\ Head(todo) # Panic
  /\ todo' = Tail(todo)
  /\ UNCHANGED <<pc, peerVars, fileVars, history>>

InsertAnnouncement ==
  /\ InsertStep
  /\ Head(todo).net # <<>> /\ Head(todo).isAnnouncement
  /\ Trie!Announce(Head(todo).peerID, Head(todo).net, Head(todo).origin)

InsertWithdrawal ==
  /\ InsertStep
  /\ Head(todo).net # <<>> /\ ~Head(todo).isAnnouncement
  /\ Trie!Withdraw(Head(todo).peerID, Head(todo).net)

(* IPv6, or a subnet of length 0.                                          *)
Discard ==
  /\ InsertStep
  /\ Head(todo).net = <<>>
  /\ UNCHANGED table

(* The message comes after the stop time: cleanup and exit.  In the live   *)
(* feed IPv6 is skipped before the time is looked at.                      *)
StopTimeReached ==
  /\ StopTimeSet
  /\ todo # <<>> /\ Head(todo) # Panic
  /\ pc = "live" => Head(todo).isIPv4
  /\ pc' = "stopped" /\ todo' = <<>>
  /\ UNCHANGED <<peerVars, fileVars, table, history>>

(* Making the message panics.                                              *)
MessagePanics ==
  /\ todo # <<>> /\ Head(todo) = Panic
  /\ pc' = "panicked" /\ todo' = <<>>
  /\ UNCHANGED <<peerVars, fileVars, table, history>>

Insert == \/ InsertAnnouncement \/ InsertWithdrawal \/ Discard
          \/ StopTimeReached \/ MessagePanics

-----------------------------------------------------------------------------
(* processBGPFiles *)

(* Faulty variant: the search for the newest RIB starts at the front.      *)
OldestRib ==
  LET ribs == {n \in DOMAIN directory : n.kind = "rib"}
  IN  IF ribs = {} THEN NoFile
      ELSE CHOOSE n \in ribs : \A m \in ribs : m.time >= n.time

(* ioutil.ReadDir sorts by name, so the newest RIB is the last one.        *)
NewestRib ==
  LET ribs == {n \in DOMAIN directory : n.kind = "rib"}
  IN  IF ribs = {} THEN NoFile
      ELSE CHOOSE n \in ribs : \A m \in ribs : m.time <= n.time

(* -input is not given, or cannot be listed.                               *)
SkipFiles ==
  /\ GoTo("files", "done")
  /\ failed' = TRUE
  /\ UNCHANGED <<peerVars, fileVars, todo, table, read>>

ChooseRib ==
  /\ rib' = IF rib = NoFile THEN NewestRib ELSE rib
  /\ GoTo("files", IF rib' = NoFile THEN "updates" ELSE "openRib")
  /\ left' = {n \in DOMAIN directory : n.kind = "updates"}
  /\ UNCHANGED <<peerVars, directory, records, tables, todo, table, history>>

(* The time of the RIB, or 0 ("0000.0000") without one.                    *)
StartReading == IF rib = NoFile THEN 0 ELSE rib.time

-----------------------------------------------------------------------------
(* parseRIBAndInsert; when it returns an error no updates are read         *)

OpenRib ==
  /\ GoTo("openRib", "rib")
  /\ rib \in DOMAIN directory
  /\ records' = directory[rib]
  /\ UNCHANGED <<peerVars, directory, rib, tables, left, todo, table, history>>

OpenRibFails ==
  /\ GoTo("openRib", "done")
  /\ failed' = TRUE
  /\ UNCHANGED <<peerVars, fileVars, todo, table, read>>

(* The next record of the open file.                                       *)
NextRecord(types) ==
  /\ records # <<>> /\ Head(records).type \in types
  /\ records' = Tail(records)

ReadRecord(types) == NextRecord(types) /\ read' = Append(read, Head(records))

ReadPeerTable ==
  /\ GoTo("rib", "rib")
  /\ ReadRecord({"table"})
  /\ tables = 0
  /\ tables' = 1
  /\ InsertPeers(Head(records).peers)
  /\ UNCHANGED <<directory, rib, left, todo, table, failed>>

ReadRib ==
  /\ GoTo("rib", "rib")
  /\ ReadRecord({"rib"})
  /\ todo' = MessagesOfRib(Head(records), ourPeers)
  /\ UNCHANGED <<peerVars, directory, rib, tables, left, table, failed>>

(* A second peer table, another type of record, or a broken header.        *)
RibError ==
  /\ GoTo("rib", "done")
  /\ NextRecord({"table", "update", "other", "broken"})
  /\ Head(records).type = "table" => tables # 0
  /\ failed' = TRUE
  /\ UNCHANGED <<peerVars, directory, rib, tables, left, todo, table, read>>

(* The RIB is in the trie when its name turns out to lack the date, which  *)
(* is an error, or the time of day, which panics.                          *)
EndOfRib ==
  /\ GoTo("rib", <<"done", "panicked", "updates">>[rib.parts])
  /\ records = <<>>
  /\ failed' = (failed \/ rib.parts < 3)
  /\ UNCHANGED <<peerVars, fileVars, todo, table, read>>

-----------------------------------------------------------------------------
(* The updates files, and parseUpdatesAndInsert                            *)

(* The next name is the first in the listing; one without date is before   *)
(* the others.                                                             *)
NextFile(n, to) ==
  /\ GoTo("updates", to)
  /\ n \in left /\ \A m \in left : m.time >= n.time
  /\ left' = left \ {n}
  /\ UNCHANGED <<peerVars, directory, rib, tables, todo, table, read>>

(* Faulty variant: only files that are later than the RIB.                 *)
IsLater(n) == n.parts = 3 /\ n.time > StartReading

IsFollowing(n) == n.parts = 3 /\ n.time >= StartReading

(* The name has no date, or an earlier one than the RIB.                   *)
SkipFile(n) ==
  /\ NextFile(n, "updates")
  /\ n.parts # 2 /\ ~IsFollowing(n)
  /\ UNCHANGED <<records, failed>>

(* The name has no time of day.                                            *)
MisnamedFile(n) ==
  /\ NextFile(n, "panicked")
  /\ n.parts = 2
  /\ UNCHANGED <<records, failed>>

OpenUpdates(n) ==
  /\ NextFile(n, "file")
  /\ IsFollowing(n)
  /\ records' = directory[n]
  /\ UNCHANGED failed

OpenUpdatesFails(n) ==
  /\ NextFile(n, "updates")
  /\ IsFollowing(n)
  /\ failed' = TRUE
  /\ UNCHANGED records

(* The peer is looked up, and added, also by an update that is empty.      *)
ReadUpdate ==
  /\ GoTo("file", "file")
  /\ ReadRecord({"update"})
  /\ LET u == Head(records)
     IN  /\ FindPeerIDbyIP(u.ip, u.as)
         /\ todo' = MessagesOfUpdate(u, peermapByIP'[u.ip].id)
  /\ UNCHANGED <<directory, rib, tables, left, table, failed>>

(* The rest of the file is given up.                                       *)
UpdatesError ==
  /\ GoTo("file", "updates")
  /\ NextRecord({"broken"})
  /\ failed' = TRUE
  /\ UNCHANGED <<peerVars, directory, rib, tables, left, todo, table, read>>

EndOfFile ==
  /\ GoTo("file", "updates")
  /\ records = <<>>
  /\ UNCHANGED <<peerVars, fileVars, todo, table, history>>

(* All names have been looked at.                                          *)
EndOfFiles ==
  /\ GoTo("updates", "done")
  /\ left = {}
  /\ UNCHANGED <<peerVars, fileVars, todo, table, history>>

-----------------------------------------------------------------------------
(* Both kinds of files *)

(* What can be skipped: a body that cannot be parsed, and in an updates    *)
(* file what is no BGP update.                                             *)
Skippable == IF pc = "file" THEN {"unparsable", "other", "table", "rib"} ELSE {"unparsable"}

(* What is read of a record that is skipped.                               *)
Skipped(r) == [type |-> "skipped", record |-> r]

(* Faulty variant: "continue" does not take the record off.                *)
SkipForEver ==
  /\ pc \in {"rib", "file"} /\ todo = <<>>
  /\ records # <<>> /\ Head(records).type \in Skippable
  /\ UNCHANGED <<pc, peerVars, fileVars, todo, table, history>>

SkipRecord ==
  /\ pc \in {"rib", "file"} /\ todo = <<>>
  /\ NextRecord(Skippable)
  /\ read' = Append(read, Skipped(Head(records)))
  /\ UNCHANGED <<pc, peerVars, directory, rib, tables, left, todo, table, failed>>

(* The scanner ends early: corrupt compression, or a record longer than    *)
(* its buffer.  Its Err is never asked, so this looks like an end of file. *)
ScanEndsEarly ==
  /\ pc \in {"rib", "file"} /\ todo = <<>>
  /\ records # <<>>
  /\ records' = <<>>
  /\ failed' = TRUE
  /\ UNCHANGED <<pc, peerVars, directory, rib, tables, left, todo, table, read>>

(* All steps but the failure of a scanner.                                 *)
ReadFiles ==
  \/ SkipFiles \/ ChooseRib
  \/ OpenRib \/ OpenRibFails \/ ReadPeerTable \/ ReadRib \/ RibError \/ EndOfRib
  \/ \E n \in left :
       SkipFile(n) \/ MisnamedFile(n) \/ OpenUpdates(n) \/ OpenUpdatesFails(n)
  \/ ReadUpdate \/ UpdatesError \/ EndOfFile \/ EndOfFiles
  \/ SkipRecord
=============================================================================
