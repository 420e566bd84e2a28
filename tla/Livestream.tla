----------------------------- MODULE Livestream -----------------------------
(***************************************************************************)
(* The live feed (Livestream.go): the goroutine Listen decodes what the    *)
(* RIS Live service sends and passes it on through a buffered channel, and *)
(* main takes it out (Get), splits it into messages (handle) and inserts   *)
(* them, until the stop time is over.                                      *)
(*                                                                         *)
(* The service is external: it may refuse a connection, send content that  *)
(* cannot be decoded, fall silent, or end the stream.  A message it sends  *)
(* has data, and prefixes that can be parsed; the code panics on others.   *)
(* What an insertion does is the subject of PrefixTrie and ASsummary.      *)
(***************************************************************************)
EXTENDS Sequences, SequencesExt, Naturals

CONSTANTS Buffer,        (* the flag -buffer                               *)
          StopTimeSet,   (* the flag -endlive is given                     *)
          IPv4, IPv6,    (* the prefixes the service sends; IPv6 ones are  *)
                         (* not inserted                                   *)
          Contents,      (* the contents of a RIS message                  *)
          MaxMessages,   (* bound: RIS messages                            *)
          MaxRestarts    (* bound: contents that cannot be decoded         *)

(* Of the announcements of a RIS message the code reads the first only.    *)
(* DigestedPath matters when it is empty, as there is no origin then.      *)
RisMessage == [isUpdate      : BOOLEAN,
               withdrawals   : Seq(IPv4 \cup IPv6),
               announcements : Seq(IPv4 \cup IPv6),
               hasPath       : BOOLEAN]

ASSUME ConstantsAssumption ==
  /\ Buffer \in Nat \ {0}
  /\ StopTimeSet \in BOOLEAN
  /\ Contents \subseteq RisMessage
  /\ MaxMessages \in Nat /\ MaxRestarts \in Nat

VARIABLES
  listener,  (* where Listen is                                            *)
  main,      (* where main is                                              *)
  c,         (* the channel                                                *)
  closed,    (* it is closed                                               *)
  rm,        (* the RIS message Listen has decoded last                    *)
  result,    (* the one main has got last                                  *)
  i,         (* main's index into the prefixes of result                   *)
  late,      (* the stop time is over                                      *)
  messages,  (* RIS messages decoded                                       *)
  restarts,  (* connections given up                                       *)
  arrived,   (* history: the messages in the updates decoded               *)
  handled    (* history: those main is done with                           *)

channel == <<c, closed>>
bounded == <<messages, restarts>>
vars == <<listener, main, channel, rm, result, i, late, bounded, arrived, handled>>

Message == [subnet : IPv4 \cup IPv6, isAnnouncement : BOOLEAN]

Empty == [isUpdate |-> FALSE, withdrawals |-> <<>>, announcements |-> <<>>,
          hasPath |-> FALSE]

-----------------------------------------------------------------------------
(* The messages in RIS message r, in the order in which they count.        *)
MessagesOf(r) ==
  LET all(prefixes, isAnnouncement) ==
        [k \in DOMAIN prefixes |-> [subnet         |-> prefixes[k],
                                    isAnnouncement |-> isAnnouncement]]
  IN  IF r.isUpdate
      THEN all(r.withdrawals, FALSE)
             \o (IF r.hasPath THEN all(r.announcements, TRUE) ELSE <<>>)
      ELSE <<>>

-----------------------------------------------------------------------------
Init ==
  /\ listener = "connect" /\ main = "get"
  /\ c = <<>> /\ closed = FALSE
  /\ rm = Empty /\ result = Empty /\ i = 0
  /\ late = FALSE
  /\ messages = 0 /\ restarts = 0
  /\ arrived = <<>> /\ handled = <<>>

(* The program runs until main calls cleanup or panics.                    *)
Running == main \in {"get", "handle"}

PassStopTime ==
  /\ Running
  /\ StopTimeSet /\ ~late
  /\ late' = TRUE
  /\ UNCHANGED <<listener, main, channel, rm, result, i, bounded, arrived, handled>>

-----------------------------------------------------------------------------
(* Listen *)

ListenerStep(from, to) ==
  /\ Running
  /\ listener = from
  /\ listener' = to
  /\ UNCHANGED <<main, result, i, late, handled>>

Connect ==
  /\ ListenerStep("connect", "decode")
  /\ UNCHANGED <<channel, rm, bounded, arrived>>

(* Listen returns, and leaves the channel open.                            *)
ConnectFails ==
  /\ ListenerStep("connect", "returned")
  /\ UNCHANGED <<channel, rm, bounded, arrived>>

(* A RIS message is passed on whatever its type is, and also if not all of *)
(* its path has been digested.                                             *)
Decode ==
  /\ ListenerStep("decode", "send")
  /\ messages < MaxMessages
  /\ messages' = messages + 1
  /\ \E r \in Contents : rm' = r /\ arrived' = arrived \o MessagesOf(r)
  /\ UNCHANGED <<channel, restarts>>

(* The rest of the connection is given up for a new one.                   *)
DecodeFails ==
  /\ ListenerStep("decode", "connect")
  /\ restarts < MaxRestarts
  /\ restarts' = restarts + 1
  /\ UNCHANGED <<channel, rm, messages, arrived>>

EndOfStream ==
  /\ ListenerStep("decode", "returned")
  /\ closed' = TRUE
  /\ UNCHANGED <<c, rm, bounded, arrived>>

(* Faulty variant: sending never waits.                                    *)
SendAtOnce ==
  /\ ListenerStep("send", "decode")
  /\ c' = Append(c, rm)
  /\ UNCHANGED <<closed, rm, bounded, arrived>>

(* Faulty variant: what does not fit into the buffer is dropped.           *)
SendOrDrop ==
  /\ ListenerStep("send", "decode")
  /\ c' = IF Len(c) < Buffer THEN Append(c, rm) ELSE c
  /\ UNCHANGED <<closed, rm, bounded, arrived>>

(* Sending waits as long as the buffer is full.                            *)
Send ==
  /\ ListenerStep("send", "decode")
  /\ Len(c) < Buffer
  /\ c' = Append(c, rm)
  /\ UNCHANGED <<closed, rm, bounded, arrived>>

-----------------------------------------------------------------------------
(* main: Get *)

(* Faulty variant: the last one in is the first one out.                   *)
ReceiveLast ==
  /\ main = "get"
  /\ c # <<>>
  /\ c' = Front(c)
  /\ result' = Last(c) /\ i' = 0
  /\ main' = IF Last(c).isUpdate THEN "handle" ELSE "get"
  /\ UNCHANGED <<listener, closed, rm, late, bounded, arrived, handled>>

(* What is no update is skipped.                                           *)
Receive ==
  /\ main = "get"
  /\ c # <<>>
  /\ c' = Tail(c)
  /\ result' = Head(c) /\ i' = 0
  /\ main' = IF Head(c).isUpdate THEN "handle" ELSE "get"
  /\ UNCHANGED <<listener, closed, rm, late, bounded, arrived, handled>>

(* Faulty variant: a closed channel gives out nothing any more.            *)
ReceiveClosedAtOnce ==
  /\ main = "get"
  /\ closed
  /\ main' = "panicked"
  /\ UNCHANGED <<listener, channel, rm, result, i, late, bounded, arrived, handled>>

(* The channel is closed and empty: Get returns nil, which main looks into.*)
ReceiveClosed ==
  /\ main = "get"
  /\ c = <<>> /\ closed
  /\ main' = "panicked"
  /\ UNCHANGED <<listener, channel, rm, result, i, late, bounded, arrived, handled>>

(* main: handle, at prefix number i of the withdrawals, then announcements *)

IsWithdrawal == i < Len(result.withdrawals)

Prefix == IF IsWithdrawal
          THEN result.withdrawals[i + 1]
          ELSE result.announcements[i - Len(result.withdrawals) + 1]

HandleStep ==
  /\ main = "handle"
  /\ UNCHANGED <<listener, channel, rm, result, bounded, arrived>>

MoreToHandle == i < Len(result.withdrawals) + Len(result.announcements)

(* All prefixes are done, or the announcements to come have no origin.     *)
EndHandle ==
  /\ HandleStep
  /\ ~MoreToHandle \/ (~IsWithdrawal /\ ~result.hasPath)
  /\ main' = "get"
  /\ UNCHANGED <<i, late, handled>>

CanInsert == MoreToHandle /\ (IsWithdrawal \/ result.hasPath)

(* Prefix number i is done with.                                           *)
Done ==
  /\ handled' = Append(handled, [subnet |-> Prefix, isAnnouncement |-> ~IsWithdrawal])
  /\ i' = i + 1
  /\ UNCHANGED <<main, late>>

SkipIPv6 ==
  /\ HandleStep
  /\ CanInsert
  /\ Prefix \notin IPv4
  /\ Done

(* Faulty variant: the stop time is not looked at.                         *)
InsertAnyTime ==
  /\ HandleStep
  /\ CanInsert
  /\ Prefix \in IPv4
  /\ Done

(* insertAndFindConflicts *)
Insert ==
  /\ HandleStep
  /\ CanInsert
  /\ Prefix \in IPv4
  /\ ~late
  /\ Done

(* Only an IPv4 prefix makes main look at the time.                        *)
StopTimeReached ==
  /\ HandleStep
  /\ CanInsert
  /\ Prefix \in IPv4
  /\ late
  /\ main' = "ended"
  /\ UNCHANGED <<i, late, handled>>

-----------------------------------------------------------------------------
Listen == \/ Connect \/ ConnectFails
          \/ Decode \/ DecodeFails \/ EndOfStream \/ Send

Main == \/ Receive \/ ReceiveClosed
        \/ EndHandle \/ SkipIPv6 \/ Insert \/ StopTimeReached

Next == Listen \/ Main \/ PassStopTime

(* The scheduler runs both goroutines, a request is answered or fails, and *)
(* the stop time comes.  Nothing makes the service send anything.          *)
Fairness ==
  /\ WF_vars(Connect \/ ConnectFails)
  /\ WF_vars(Send)
  /\ WF_vars(Main)
  /\ WF_vars(PassStopTime)

Spec == Init /\ [][Next]_vars /\ Fairness

-----------------------------------------------------------------------------
(* Every variable has the type its declaration gives it.                   *)
TypeOK ==
  /\ listener \in {"connect", "decode", "send", "returned"}
  /\ main \in {"get", "handle", "ended", "panicked"}
  /\ c \in Seq(RisMessage) /\ Len(c) <= Buffer
  /\ closed \in BOOLEAN
  /\ rm \in RisMessage /\ result \in RisMessage
  /\ i \in Nat
  /\ late \in BOOLEAN
  /\ messages \in 0..MaxMessages /\ restarts \in 0..MaxRestarts
  /\ arrived \in Seq(Message) /\ handled \in Seq(Message)

(* The decoded messages are handled once each and in order, across         *)
(* reconnections, with the withdrawals of an update before its             *)
(* announcements, which a prefix that is in both depends on.               *)
Promise == INSTANCE Feed

ImplementsFeed == Promise!Spec

(* When the stream has ended, everything sent before is still handled.     *)
NothingLostAtEnd ==
  main = "panicked" => handled = arrived

(* The buffer holds up Listen and never main: what has arrived is handled  *)
(* or the program ends.  (The RIS messages of the runs have 3 prefixes.)   *)
EveryMessageHandled ==
  \A k \in 1..(3 * MaxMessages) :
    Len(arrived) >= k ~> Len(handled) >= k \/ ~Running

(* After the stop time, one message for an IPv4 prefix that is still to be *)
(* handled ends the program.                                               *)
NextMessageEnds ==
  late /\ (\E k \in DOMAIN arrived : k > Len(handled) /\ arrived[k].subnet \in IPv4)
    ~> ~Running

(* The livestream is ended at the stop time.                               *)
EndedAtStopTime ==
  late ~> ~Running
=============================================================================
