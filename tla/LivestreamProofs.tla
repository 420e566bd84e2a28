-------------------------- MODULE LivestreamProofs --------------------------
(***************************************************************************)
(* Proofs about the live feed, for every buffer size and whatever the      *)
(* service sends.                                                          *)
(***************************************************************************)
EXTENDS Livestream, TLAPS, SequenceTheorems

-----------------------------------------------------------------------------
(* The messages of a RIS message.                                          *)

Withdrawal(p) == [subnet |-> p, isAnnouncement |-> FALSE]
Announcement(p) == [subnet |-> p, isAnnouncement |-> TRUE]

Withdrawn(r) == [k \in DOMAIN r.withdrawals |-> Withdrawal(r.withdrawals[k])]
AllAnnounced(r) == [k \in DOMAIN r.announcements |-> Announcement(r.announcements[k])]
Announced(r) == IF r.hasPath THEN AllAnnounced(r) ELSE <<>>

LEMMA MessagesAre ==
  ASSUME NEW r
  PROVE  MessagesOf(r) = IF r.isUpdate THEN Withdrawn(r) \o Announced(r) ELSE <<>>
BY DEF MessagesOf, Withdrawn, Announced, AllAnnounced, Withdrawal, Announcement

LEMMA OneMessage ==
  ASSUME NEW p \in IPv4 \cup IPv6
  PROVE  Withdrawal(p) \in Message /\ Announcement(p) \in Message
BY DEF Withdrawal, Announcement, Message

LEMMA WithdrawnAre ==
  ASSUME NEW r \in RisMessage
  PROVE  /\ Withdrawn(r) \in Seq(Message)
         /\ Len(Withdrawn(r)) = Len(r.withdrawals) /\ Len(r.withdrawals) \in Nat
         /\ \A k \in 1..Len(r.withdrawals) : Withdrawn(r)[k] = Withdrawal(r.withdrawals[k])
<1>1. r.withdrawals \in Seq(IPv4 \cup IPv6)
  BY DEF RisMessage
<1>2. DOMAIN r.withdrawals = 1..Len(r.withdrawals) /\ Len(r.withdrawals) \in Nat
  BY <1>1, LenProperties
<1>3. \A k \in 1..Len(r.withdrawals) : r.withdrawals[k] \in IPv4 \cup IPv6
  BY <1>1, ElementOfSeq
<1>4. Withdrawn(r) \in [1..Len(r.withdrawals) -> Message]
  BY <1>2, <1>3, OneMessage DEF Withdrawn
<1>5. Withdrawn(r) \in Seq(Message)
  BY <1>2, <1>4, IsASeq
<1>6. QED
  BY <1>2, <1>4, <1>5, LenProperties DEF Withdrawn

LEMMA AllAnnouncedAre ==
  ASSUME NEW r \in RisMessage
  PROVE  /\ AllAnnounced(r) \in Seq(Message)
         /\ Len(AllAnnounced(r)) = Len(r.announcements) /\ Len(r.announcements) \in Nat
         /\ \A k \in 1..Len(r.announcements) :
              AllAnnounced(r)[k] = Announcement(r.announcements[k])
<1>1. r.announcements \in Seq(IPv4 \cup IPv6)
  BY DEF RisMessage
<1>2. DOMAIN r.announcements = 1..Len(r.announcements) /\ Len(r.announcements) \in Nat
  BY <1>1, LenProperties
<1>3. \A k \in 1..Len(r.announcements) : r.announcements[k] \in IPv4 \cup IPv6
  BY <1>1, ElementOfSeq
<1>4. AllAnnounced(r) \in [1..Len(r.announcements) -> Message]
  BY <1>2, <1>3, OneMessage DEF AllAnnounced
<1>5. AllAnnounced(r) \in Seq(Message)
  BY <1>2, <1>4, IsASeq
<1>6. QED
  BY <1>2, <1>4, <1>5, LenProperties DEF AllAnnounced

LEMMA AnnouncedAre ==
  ASSUME NEW r \in RisMessage
  PROVE  /\ Announced(r) \in Seq(Message)
         /\ Len(Announced(r)) = (IF r.hasPath THEN Len(r.announcements) ELSE 0)
         /\ \A k \in 1..Len(Announced(r)) :
              Announced(r)[k] = Announcement(r.announcements[k])
<1>1. CASE r.hasPath
  <2>1. Announced(r) = AllAnnounced(r)
    BY <1>1 DEF Announced
  <2>2. QED
    BY <1>1, <2>1, AllAnnouncedAre, Zenon
<1>2. CASE ~r.hasPath
  <2>1. Announced(r) = <<>>
    BY <1>2 DEF Announced
  <2>2. Announced(r) \in Seq(Message) /\ Len(Announced(r)) = 0
    BY <2>1, EmptySeq
  <2>3. 1..Len(Announced(r)) = {}
    BY <2>2
  <2>4. QED
    BY <1>2, <2>2, <2>3, Zenon
<1>3. QED
  BY <1>1, <1>2

LEMMA MessagesAreType ==
  ASSUME NEW r \in RisMessage
  PROVE  /\ MessagesOf(r) \in Seq(Message)
         /\ Len(MessagesOf(r)) \in Nat
<1>1. Withdrawn(r) \o Announced(r) \in Seq(Message)
  BY WithdrawnAre, AnnouncedAre, ConcatProperties
<1>2. <<>> \in Seq(Message)
  BY EmptySeq
<1>3. MessagesOf(r) \in Seq(Message)
  BY <1>1, <1>2, MessagesAre, Zenon
<1>4. QED
  BY <1>3, LenProperties

(* Message number j of an update, counted from 0, is the one for the       *)
(* prefix that main is at.                                                 *)
PrefixAt(r, j) == IF j < Len(r.withdrawals)
                  THEN Withdrawal(r.withdrawals[j + 1])
                  ELSE Announcement(r.announcements[j - Len(r.withdrawals) + 1])

LEMMA FromZero ==
  ASSUME NEW S, NEW s \in Seq(S), NEW t \in Seq(S)
  PROVE  /\ Len(s \o t) = Len(s) + Len(t)
         /\ \A j \in Nat : j < Len(s) => j + 1 \in 1..Len(s) /\ (s \o t)[j + 1] = s[j + 1]
         /\ \A j \in Nat : ~(j < Len(s)) /\ j < Len(s) + Len(t) =>
              j - Len(s) + 1 \in 1..Len(t) /\ (s \o t)[j + 1] = t[j - Len(s) + 1]
<1>1. Len(s) \in Nat /\ Len(t) \in Nat
  BY LenProperties
<1>2. Len(s \o t) = Len(s) + Len(t)
  BY ConcatProperties
<1>3. ASSUME NEW j \in Nat, j < Len(s)
      PROVE  j + 1 \in 1..Len(s) /\ (s \o t)[j + 1] = s[j + 1]
  <2>1. j + 1 \in 1..Len(s) /\ j + 1 \in 1..(Len(s) + Len(t)) /\ j + 1 <= Len(s)
    BY <1>1, <1>3
  <2>2. QED
    BY <2>1, ConcatProperties
<1>4. ASSUME NEW j \in Nat, ~(j < Len(s)), j < Len(s) + Len(t)
      PROVE  j - Len(s) + 1 \in 1..Len(t) /\ (s \o t)[j + 1] = t[j - Len(s) + 1]
  <2>1. /\ j - Len(s) + 1 \in 1..Len(t) /\ j + 1 \in 1..(Len(s) + Len(t))
        /\ ~(j + 1 <= Len(s)) /\ (j + 1) - Len(s) = j - Len(s) + 1
    BY <1>1, <1>4
  <2>2. (s \o t)[j + 1] = t[(j + 1) - Len(s)]
    BY <2>1, ConcatProperties
  <2>3. QED
    BY <2>1, <2>2
<1>5. QED
  BY <1>2, <1>3, <1>4

LEMMA AllInOrder ==
  ASSUME NEW r \in RisMessage
  PROVE  /\ Len(Withdrawn(r) \o Announced(r)) = Len(r.withdrawals) + Len(Announced(r))
         /\ \A j \in Nat : j < Len(Withdrawn(r) \o Announced(r)) =>
              (Withdrawn(r) \o Announced(r))[j + 1] = PrefixAt(r, j)
<1>1. /\ Withdrawn(r) \in Seq(Message)
      /\ Len(Withdrawn(r)) = Len(r.withdrawals)
      /\ \A k \in 1..Len(r.withdrawals) : Withdrawn(r)[k] = Withdrawal(r.withdrawals[k])
  BY WithdrawnAre
<1>2. /\ Announced(r) \in Seq(Message)
      /\ \A k \in 1..Len(Announced(r)) : Announced(r)[k] = Announcement(r.announcements[k])
  BY AnnouncedAre
<1>3. Len(Withdrawn(r) \o Announced(r)) = Len(r.withdrawals) + Len(Announced(r))
  <2>1. Len(Withdrawn(r) \o Announced(r)) = Len(Withdrawn(r)) + Len(Announced(r))
    BY <1>1, <1>2, FromZero, Zenon
  <2>2. QED
    BY <1>1, <2>1
<1>4. ASSUME NEW j \in Nat, j < Len(Withdrawn(r) \o Announced(r))
      PROVE  (Withdrawn(r) \o Announced(r))[j + 1] = PrefixAt(r, j)
  <2>1. CASE j < Len(r.withdrawals)
    <3>1. j + 1 \in 1..Len(r.withdrawals)
          /\ (Withdrawn(r) \o Announced(r))[j + 1] = Withdrawn(r)[j + 1]
      BY <1>1, <1>2, <2>1, FromZero, Zenon
    <3>2. QED
      BY <1>1, <2>1, <3>1, Zenon DEF PrefixAt
  <2>2. CASE ~(j < Len(r.withdrawals))
    <3>1. ~(j < Len(Withdrawn(r))) /\ j < Len(Withdrawn(r)) + Len(Announced(r))
      BY <1>1, <1>3, <1>4, <2>2
    <3>2. /\ j - Len(Withdrawn(r)) + 1 \in 1..Len(Announced(r))
          /\ (Withdrawn(r) \o Announced(r))[j + 1] = Announced(r)[j - Len(Withdrawn(r)) + 1]
      BY <1>1, <1>2, <3>1, FromZero, Zenon
    <3>3. QED
      BY <1>1, <1>2, <2>2, <3>2, Zenon DEF PrefixAt
  <2>3. QED
    BY <2>1, <2>2
<1>5. QED
  BY <1>3, <1>4, Zenon

LEMMA MessagesOfUpdate ==
  ASSUME NEW r \in RisMessage, r.isUpdate
  PROVE  /\ Len(MessagesOf(r))
              = Len(r.withdrawals) + (IF r.hasPath THEN Len(r.announcements) ELSE 0)
         /\ \A j \in Nat : j < Len(MessagesOf(r)) => MessagesOf(r)[j + 1] = PrefixAt(r, j)
<1>1. MessagesOf(r) = Withdrawn(r) \o Announced(r)
  BY MessagesAre, Zenon
<1>2. Len(Announced(r)) = (IF r.hasPath THEN Len(r.announcements) ELSE 0)
  BY AnnouncedAre, Zenon
<1>3. QED
  BY <1>1, <1>2, AllInOrder, Zenon

-----------------------------------------------------------------------------
(* A queue of RIS messages holds what has arrived from a place on.         *)

(* The messages of r stand in arr after place n.                           *)
StandsAt(r, n, arr) ==
  /\ n + Len(MessagesOf(r)) <= Len(arr)
  /\ \A j \in 1..Len(MessagesOf(r)) : arr[n + j] = MessagesOf(r)[j]

(* at[k] is the place before the messages of the k-th.                     *)
Places(Q, from, arr, at) ==
  /\ at \in [1..(Len(Q) + 1) -> Nat]
  /\ at[1] = from
  /\ at[Len(Q) + 1] = Len(arr)
  /\ \A k \in 1..Len(Q) : /\ at[k + 1] = at[k] + Len(MessagesOf(Q[k]))
                          /\ StandsAt(Q[k], at[k], arr)

Holds(Q, from, arr) == \E at : Places(Q, from, arr, at)

LEMMA NothingHeld ==
  ASSUME NEW arr \in Seq(Message)
  PROVE  Holds(<<>>, Len(arr), arr)
<1>1. Len(arr) \in Nat /\ Len(<<>>) = 0
  BY LenProperties, EmptySeq
<1>2. Places(<<>>, Len(arr), arr, [k \in 1..1 |-> Len(arr)])
  BY <1>1 DEF Places
<1>3. QED
  BY <1>2 DEF Holds

LEMMA NothingHeldIsAll ==
  ASSUME NEW from, NEW arr \in Seq(Message), Holds(<<>>, from, arr)
  PROVE  from = Len(arr)
<1>1. PICK at : Places(<<>>, from, arr, at)
  BY DEF Holds
<1>2. Len(<<>>) = 0
  BY EmptySeq
<1>3. QED
  BY <1>1, <1>2 DEF Places

LEMMA StandsStill ==
  ASSUME NEW arr \in Seq(Message), NEW more \in Seq(Message),
         NEW r \in RisMessage, NEW n \in Nat, StandsAt(r, n, arr)
  PROVE  StandsAt(r, n, arr \o more)
<1>1. /\ Len(MessagesOf(r)) \in Nat /\ Len(arr) \in Nat /\ Len(more) \in Nat
      /\ Len(arr \o more) = Len(arr) + Len(more)
  BY MessagesAreType, LenProperties, ConcatProperties
<1>2. n + Len(MessagesOf(r)) <= Len(arr)
  BY DEF StandsAt
<1>3. ASSUME NEW j \in 1..Len(MessagesOf(r))
      PROVE  (arr \o more)[n + j] = MessagesOf(r)[j]
  <2>1. n + j \in 1..Len(arr)
    BY <1>1, <1>2
  <2>2. (arr \o more)[n + j] = arr[n + j]
    BY <1>1, <2>1, ConcatProperties
  <2>3. QED
    BY <1>3, <2>2 DEF StandsAt
<1>4. QED
  BY <1>1, <1>2, <1>3 DEF StandsAt

LEMMA StandsAtEnd ==
  ASSUME NEW arr \in Seq(Message), NEW r \in RisMessage
  PROVE  StandsAt(r, Len(arr), arr \o MessagesOf(r))
<1>1. MessagesOf(r) \in Seq(Message) /\ Len(arr) \in Nat /\ Len(MessagesOf(r)) \in Nat
  BY MessagesAreType, LenProperties
<1>2. Len(arr \o MessagesOf(r)) = Len(arr) + Len(MessagesOf(r))
  BY <1>1, ConcatProperties
<1>3. ASSUME NEW j \in 1..Len(MessagesOf(r))
      PROVE  (arr \o MessagesOf(r))[Len(arr) + j] = MessagesOf(r)[j]
  <2>1. Len(arr) + j \in 1..(Len(arr) + Len(MessagesOf(r))) /\ Len(arr) + j > Len(arr)
    BY <1>1
  <2>2. (arr \o MessagesOf(r))[Len(arr) + j] = MessagesOf(r)[(Len(arr) + j) - Len(arr)]
    BY <1>1, <2>1, ConcatProperties
  <2>3. (Len(arr) + j) - Len(arr) = j
    BY <1>1
  <2>4. QED
    BY <2>2, <2>3
<1>4. QED
  BY <1>1, <1>2, <1>3 DEF StandsAt

(* A message that arrives is put behind the others.                        *)
LEMMA MoreHeld ==
  ASSUME NEW Q \in Seq(RisMessage), NEW from \in Nat, NEW arr \in Seq(Message),
         NEW r \in RisMessage, Holds(Q, from, arr)
  PROVE  Holds(Append(Q, r), from, arr \o MessagesOf(r))
<1>1. PICK at : Places(Q, from, arr, at)
  BY DEF Holds
<1>2. /\ MessagesOf(r) \in Seq(Message) /\ Len(arr) \in Nat /\ Len(MessagesOf(r)) \in Nat
      /\ Len(Q) \in Nat
      /\ Len(arr \o MessagesOf(r)) = Len(arr) + Len(MessagesOf(r))
  BY MessagesAreType, LenProperties, ConcatProperties
<1>3. /\ Len(Append(Q, r)) = Len(Q) + 1
      /\ \A k \in 1..Len(Q) : Append(Q, r)[k] = Q[k] /\ Q[k] \in RisMessage
      /\ Append(Q, r)[Len(Q) + 1] = r
  BY <1>2, AppendProperties, ElementOfSeq
<1>4. PICK next : next = [k \in 1..(Len(Q) + 2) |->
                            IF k <= Len(Q) + 1 THEN at[k] ELSE Len(arr) + Len(MessagesOf(r))]
  OBVIOUS
<1>5. /\ next \in [1..(Len(Q) + 2) -> Nat]
      /\ \A k \in 1..(Len(Q) + 1) : next[k] = at[k]
      /\ next[Len(Q) + 2] = Len(arr) + Len(MessagesOf(r))
  BY <1>1, <1>2, <1>4 DEF Places
<1>6. ASSUME NEW k \in 1..(Len(Q) + 1)
      PROVE  /\ next[k + 1] = next[k] + Len(MessagesOf(Append(Q, r)[k]))
             /\ StandsAt(Append(Q, r)[k], next[k], arr \o MessagesOf(r))
  <2>1. CASE k \in 1..Len(Q)
    <3>1. at[k + 1] = at[k] + Len(MessagesOf(Q[k])) /\ StandsAt(Q[k], at[k], arr)
      BY <1>1, <2>1 DEF Places
    <3>2. k + 1 \in 1..(Len(Q) + 1) /\ k \in 1..(Len(Q) + 1)
      BY <1>2, <2>1
    <3>3. at[k] \in Nat
      BY <1>1, <3>2 DEF Places
    <3>4. StandsAt(Q[k], at[k], arr \o MessagesOf(r))
      BY <1>2, <1>3, <2>1, <3>1, <3>3, StandsStill
    <3>5. QED
      BY <1>3, <1>5, <2>1, <3>1, <3>2, <3>4
  <2>2. CASE k = Len(Q) + 1
    <3>1. next[k] = Len(arr) /\ next[k + 1] = Len(arr) + Len(MessagesOf(r))
      BY <1>1, <1>2, <1>5, <2>2 DEF Places
    <3>2. QED
      BY <1>3, <2>2, <3>1, StandsAtEnd
  <2>3. QED
    BY <1>2, <2>1, <2>2
<1>7. Places(Append(Q, r), from, arr \o MessagesOf(r), next)
  <2>1. next[1] = from
    BY <1>1, <1>2, <1>5 DEF Places
  <2>2. (Len(Q) + 1) + 1 = Len(Q) + 2
    BY <1>2
  <2>3. QED
    BY <1>2, <1>3, <1>5, <1>6, <2>1, <2>2 DEF Places
<1>8. QED
  BY <1>7 DEF Holds

(* The first is taken out.                                                 *)
LEMMA LessHeld ==
  ASSUME NEW Q \in Seq(RisMessage), Q # <<>>, NEW from \in Nat,
         NEW arr \in Seq(Message), Holds(Q, from, arr)
  PROVE  /\ StandsAt(Head(Q), from, arr)
         /\ Holds(Tail(Q), from + Len(MessagesOf(Head(Q))), arr)
<1>1. PICK at : Places(Q, from, arr, at)
  BY DEF Holds
<1>2. /\ Len(Q) \in Nat /\ Len(Q) >= 1 /\ Head(Q) = Q[1]
      /\ Len(Tail(Q)) = Len(Q) - 1
      /\ \A k \in 1..Len(Tail(Q)) : Tail(Q)[k] = Q[k + 1]
  BY HeadTailProperties, LenProperties, EmptySeq
<1>3. StandsAt(Q[1], from, arr) /\ at[2] = from + Len(MessagesOf(Q[1]))
  BY <1>1, <1>2 DEF Places
<1>4. PICK next : next = [k \in 1..Len(Q) |-> at[k + 1]]
  OBVIOUS
<1>5. /\ next \in [1..Len(Q) -> Nat]
      /\ \A k \in 1..Len(Q) : next[k] = at[k + 1]
  BY <1>1, <1>2, <1>4 DEF Places
<1>6. ASSUME NEW k \in 1..Len(Tail(Q))
      PROVE  /\ next[k + 1] = next[k] + Len(MessagesOf(Tail(Q)[k]))
             /\ StandsAt(Tail(Q)[k], next[k], arr)
  <2>1. k + 1 \in 1..Len(Q) /\ k \in 1..Len(Q)
    BY <1>2
  <2>2. at[(k + 1) + 1] = at[k + 1] + Len(MessagesOf(Q[k + 1])) /\ StandsAt(Q[k + 1], at[k + 1], arr)
    BY <1>1, <2>1 DEF Places
  <2>3. QED
    BY <1>2, <1>5, <2>1, <2>2
<1>7. Places(Tail(Q), from + Len(MessagesOf(Head(Q))), arr, next)
  <2>1. Len(Tail(Q)) + 1 = Len(Q)
    BY <1>2
  <2>2. next[1] = from + Len(MessagesOf(Head(Q))) /\ next[Len(Q)] = Len(arr)
    BY <1>1, <1>2, <1>3, <1>5 DEF Places
  <2>3. QED
    BY <1>5, <1>6, <2>1, <2>2 DEF Places
<1>8. QED
  BY <1>2, <1>3, <1>7 DEF Holds
-----------------------------------------------------------------------------
(* The invariant.                                                          *)

(* What Listen is about to send is behind what is in the channel.          *)
Queue == IF listener = "send" THEN Append(c, rm) ELSE c

(* The place in arrived before the first message of the queue.             *)
QueueStart == IF main = "handle"
              THEN (Len(handled) - i) + Len(MessagesOf(result))
              ELSE Len(handled)

ClosedInv == closed => listener = "returned"

HandledInv ==
  /\ Len(handled) <= Len(arrived)
  /\ \A k \in 1..Len(handled) : handled[k] = arrived[k]

(* The update at hand has arrived i messages before the next to be handled.*)
ResultInv ==
  main = "handle" =>
    /\ result.isUpdate
    /\ i <= Len(MessagesOf(result)) /\ i <= Len(handled)
    /\ StandsAt(result, Len(handled) - i, arrived)

(* The queue holds what has arrived after the update at hand.              *)
QueueInv == Running => Holds(Queue, QueueStart, arrived)

(* Every variable is typed; then, main works on a copy of its own of the   *)
(* message it took out; the queue has exactly what is still to come; and   *)
(* main panics only when nothing is.                                       *)
FeedInv ==
  /\ TypeOK
  /\ ClosedInv
  /\ HandledInv
  /\ ResultInv
  /\ QueueInv
  /\ NothingLostAtEnd

LEMMA InitFeedInv == Init => FeedInv
<1> SUFFICES ASSUME Init PROVE FeedInv
  OBVIOUS
<1>1. /\ <<>> \in Seq(Message) /\ <<>> \in Seq(RisMessage) /\ Len(<<>>) = 0
      /\ <<>> \in Seq(IPv4 \cup IPv6)
  BY EmptySeq
<1>2. Empty \in RisMessage
  BY <1>1 DEF Empty, RisMessage
<1>3. TypeOK
  <2>1. /\ 0 <= Buffer /\ 0 \in Nat
        /\ 0 \in 0..MaxMessages /\ 0 \in 0..MaxRestarts
    BY ConstantsAssumption
  <2>2. QED
    BY <1>1, <1>2, <2>1 DEF Init, TypeOK
<1>4. Queue = <<>> /\ QueueStart = Len(arrived)
  BY DEF Init, Queue, QueueStart
<1>5. QueueInv
  BY <1>1, <1>4, NothingHeld DEF Init, QueueInv
<1>6. ClosedInv /\ HandledInv /\ ResultInv /\ NothingLostAtEnd
  BY <1>1 DEF Init, ClosedInv, HandledInv, ResultInv, NothingLostAtEnd
<1>7. QED
  BY <1>3, <1>5, <1>6 DEF FeedInv

(* A step that leaves alone what has arrived and what main is about, and   *)
(* moves nothing into or out of the queue.                                 *)
LEMMA SameQueueKeepsFeedInv ==
  ASSUME FeedInv, TypeOK', ClosedInv', Queue' = Queue,
         main' = main, result' = result, i' = i, arrived' = arrived, handled' = handled
  PROVE  FeedInv'
<1>1. HandledInv' /\ NothingLostAtEnd' /\ QueueStart' = QueueStart /\ Running' = Running
  BY DEF FeedInv, HandledInv, NothingLostAtEnd, QueueStart, Running
<1>2. ResultInv'
  BY DEF FeedInv, ResultInv
<1>3. QueueInv'
  BY <1>1 DEF FeedInv, QueueInv
<1>4. QED
  BY <1>1, <1>2, <1>3 DEF FeedInv

LEMMA ListenKeepsFeedInv ==
  ASSUME FeedInv, Connect \/ ConnectFails \/ DecodeFails \/ EndOfStream
  PROVE  FeedInv'
<1>1. Queue' = Queue
  BY DEF Connect, ConnectFails, DecodeFails, EndOfStream, ListenerStep, Queue, channel
<1>2. TypeOK'
  <2>1. listener' \in {"decode", "connect", "returned"} /\ closed' \in BOOLEAN
    BY DEF FeedInv, TypeOK, Connect, ConnectFails, DecodeFails, EndOfStream, ListenerStep,
           channel
  <2>2. restarts' \in 0..MaxRestarts
    BY ConstantsAssumption
       DEF FeedInv, TypeOK, Connect, ConnectFails, DecodeFails, EndOfStream, bounded
  <2>3. /\ main' = main /\ c' = c /\ rm' = rm /\ result' = result /\ i' = i
        /\ late' = late /\ messages' = messages /\ arrived' = arrived /\ handled' = handled
    BY DEF Connect, ConnectFails, DecodeFails, EndOfStream, ListenerStep, channel, bounded
  <2>4. QED
    BY <2>1, <2>2, <2>3 DEF FeedInv, TypeOK
<1>3. ClosedInv'
  BY DEF FeedInv, ClosedInv, Connect, ConnectFails, DecodeFails, EndOfStream, ListenerStep,
         channel
<1>4. /\ main' = main /\ result' = result /\ i' = i
      /\ arrived' = arrived /\ handled' = handled
  BY DEF Connect, ConnectFails, DecodeFails, EndOfStream, ListenerStep
<1>5. QED
  BY <1>1, <1>2, <1>3, <1>4, SameQueueKeepsFeedInv

LEMMA SendKeepsFeedInv ==
  ASSUME FeedInv, Send
  PROVE  FeedInv'
<1>1. c \in Seq(RisMessage) /\ rm \in RisMessage /\ Len(c) < Buffer /\ Buffer \in Nat
  BY ConstantsAssumption DEF FeedInv, TypeOK, Send
<1>2. c' = Append(c, rm) /\ c' \in Seq(RisMessage) /\ Len(c') <= Buffer
  BY <1>1, AppendProperties, LenProperties DEF Send
<1>3. TypeOK'
  BY <1>2 DEF FeedInv, TypeOK, Send, ListenerStep, bounded
<1>4. Queue' = Queue
  BY DEF Send, ListenerStep, Queue
<1>5. ClosedInv'
  BY DEF FeedInv, ClosedInv, Send, ListenerStep
<1>6. /\ main' = main /\ result' = result /\ i' = i
      /\ arrived' = arrived /\ handled' = handled
  BY DEF Send, ListenerStep
<1>7. QED
  BY <1>3, <1>4, <1>5, <1>6, SameQueueKeepsFeedInv

LEMMA PassStopTimeKeepsFeedInv ==
  ASSUME FeedInv, PassStopTime
  PROVE  FeedInv'
<1>1. TypeOK'
  BY DEF FeedInv, TypeOK, PassStopTime, channel, bounded
<1>2. Queue' = Queue /\ ClosedInv'
  BY DEF FeedInv, ClosedInv, PassStopTime, Queue, channel
<1>3. /\ main' = main /\ result' = result /\ i' = i
      /\ arrived' = arrived /\ handled' = handled
  BY DEF PassStopTime
<1>4. QED
  BY <1>1, <1>2, <1>3, SameQueueKeepsFeedInv

(* What is appended changes nothing of what has been there.                *)
LEMMA StillHandled ==
  ASSUME NEW s \in Seq(Message), NEW t \in Seq(Message), NEW more \in Seq(Message),
         Len(s) <= Len(t), \A k \in 1..Len(s) : s[k] = t[k]
  PROVE  /\ t \o more \in Seq(Message)
         /\ Len(s) <= Len(t \o more)
         /\ \A k \in 1..Len(s) : s[k] = (t \o more)[k]
<1>1. Len(s) \in Nat /\ Len(t) \in Nat /\ Len(more) \in Nat
  BY LenProperties
<1>2. t \o more \in Seq(Message) /\ Len(t \o more) = Len(t) + Len(more)
  BY ConcatProperties
<1>3. ASSUME NEW k \in 1..Len(s)
      PROVE  s[k] = (t \o more)[k]
  <2>1. k \in 1..(Len(t) + Len(more)) /\ k <= Len(t)
    BY <1>1
  <2>2. QED
    BY <2>1, ConcatProperties
<1>4. QED
  BY <1>1, <1>2, <1>3

LEMMA DecodeKeepsFeedInv ==
  ASSUME FeedInv, Decode
  PROVE  FeedInv'
<1>1. PICK r \in Contents : rm' = r /\ arrived' = arrived \o MessagesOf(r)
  BY DEF Decode
<1>2. r \in RisMessage
  BY ConstantsAssumption
<1>3. MessagesOf(r) \in Seq(Message)
  BY <1>2, MessagesAreType
<1>4. /\ listener = "decode" /\ listener' = "send" /\ c' = c /\ closed' = closed
      /\ main' = main /\ result' = result /\ i' = i /\ late' = late /\ handled' = handled
      /\ messages' = messages + 1 /\ messages < MaxMessages /\ restarts' = restarts
      /\ Running
  BY DEF Decode, ListenerStep, channel
<1>5. arrived \in Seq(Message) /\ handled \in Seq(Message) /\ c \in Seq(RisMessage)
  BY DEF FeedInv, TypeOK
<1>6. HandledInv' /\ arrived' \in Seq(Message)
  BY <1>1, <1>3, <1>4, <1>5, StillHandled DEF FeedInv, HandledInv
<1>7. TypeOK'
  BY <1>1, <1>2, <1>4, <1>6, ConstantsAssumption DEF FeedInv, TypeOK
<1>8. ClosedInv'
  BY <1>4 DEF FeedInv, ClosedInv
<1>9. NothingLostAtEnd'
  BY <1>4 DEF NothingLostAtEnd, Running
<1>10. ResultInv'
  <2>1. SUFFICES ASSUME main = "handle"
                 PROVE  /\ result.isUpdate
                        /\ i <= Len(MessagesOf(result)) /\ i <= Len(handled)
                        /\ StandsAt(result, Len(handled) - i, arrived')
    BY <1>4, Zenon DEF ResultInv
  <2>2. /\ result.isUpdate
        /\ i <= Len(MessagesOf(result)) /\ i <= Len(handled)
        /\ StandsAt(result, Len(handled) - i, arrived)
    BY <2>1 DEF FeedInv, ResultInv
  <2>3. Len(handled) - i \in Nat /\ result \in RisMessage
    BY <1>5, <2>2, LenProperties DEF FeedInv, TypeOK
  <2>4. StandsAt(result, Len(handled) - i, arrived')
    BY <1>1, <1>3, <1>5, <2>2, <2>3, StandsStill
  <2>5. QED
    BY <2>2, <2>4, Zenon
<1>11. QueueStart \in Nat /\ QueueStart' = QueueStart
  <2>1. QueueStart' = QueueStart
    BY <1>4 DEF QueueStart
  <2>2. CASE main = "handle"
    <3>1. result \in RisMessage /\ i \in Nat /\ i <= Len(handled) /\ Len(handled) \in Nat
      BY <1>5, <2>2, LenProperties DEF FeedInv, ResultInv, TypeOK
    <3>2. Len(MessagesOf(result)) \in Nat
      BY <3>1, MessagesAreType
    <3>3. QED
      BY <2>1, <2>2, <3>1, <3>2 DEF QueueStart
  <2>3. CASE main # "handle"
    BY <1>5, <2>1, <2>3, LenProperties DEF QueueStart
  <2>4. QED
    BY <2>2, <2>3
<1>12. QueueInv'
  <2>1. Queue = c /\ Queue' = Append(c, r)
    BY <1>1, <1>4 DEF Queue
  <2>2. Holds(c, QueueStart, arrived)
    BY <1>4, <2>1 DEF FeedInv, QueueInv
  <2>3. Holds(Append(c, r), QueueStart, arrived \o MessagesOf(r))
    BY <1>2, <1>5, <1>11, <2>2, MoreHeld
  <2>4. QED
    BY <1>1, <1>11, <2>1, <2>3 DEF QueueInv
<1>13. QED
  BY <1>6, <1>7, <1>8, <1>9, <1>10, <1>12 DEF FeedInv
(* Taking out the first of the channel takes it out of the queue.          *)
LEMMA TailOfAppend ==
  ASSUME NEW S, NEW s \in Seq(S), s # <<>>, NEW e \in S
  PROVE  /\ Append(s, e) \in Seq(S) /\ Append(s, e) # <<>>
         /\ Head(Append(s, e)) = Head(s)
         /\ Tail(Append(s, e)) = Append(Tail(s), e)
<1>1. /\ Append(s, e) \in Seq(S) /\ Append(s, e) # <<>>
      /\ Len(Append(s, e)) = Len(s) + 1
      /\ \A k \in 1..Len(s) : Append(s, e)[k] = s[k]
      /\ Append(s, e)[Len(s) + 1] = e
  BY AppendProperties
<1>2. Len(s) \in Nat /\ Len(s) >= 1
  BY LenProperties, EmptySeq
<1>3. /\ Head(s) = s[1] /\ Tail(s) \in Seq(S) /\ Len(Tail(s)) = Len(s) - 1
      /\ \A k \in 1..Len(Tail(s)) : Tail(s)[k] = s[k + 1]
  BY HeadTailProperties
<1>4. /\ Head(Append(s, e)) = Append(s, e)[1] /\ Tail(Append(s, e)) \in Seq(S)
      /\ Len(Tail(Append(s, e))) = Len(Append(s, e)) - 1
      /\ \A k \in 1..Len(Tail(Append(s, e))) : Tail(Append(s, e))[k] = Append(s, e)[k + 1]
  BY <1>1, HeadTailProperties
<1>5. /\ Append(Tail(s), e) \in Seq(S)
      /\ Len(Append(Tail(s), e)) = Len(s)
      /\ \A k \in 1..Len(Tail(s)) : Append(Tail(s), e)[k] = Tail(s)[k]
      /\ Append(Tail(s), e)[Len(s)] = e
  <2>1. Len(Tail(s)) + 1 = Len(s)
    BY <1>2, <1>3
  <2>2. QED
    BY <1>3, <2>1, AppendProperties
<1>6. Len(Tail(Append(s, e))) = Len(s)
  BY <1>1, <1>2, <1>4
<1>7. ASSUME NEW k \in 1..Len(s)
      PROVE  Tail(Append(s, e))[k] = Append(Tail(s), e)[k]
  <2>1. Tail(Append(s, e))[k] = Append(s, e)[k + 1]
    BY <1>4, <1>6
  <2>2. CASE k = Len(s)
    BY <1>1, <1>5, <2>1, <2>2
  <2>3. CASE k # Len(s)
    <3>1. Len(Tail(s)) = Len(s) - 1
      BY <1>3
    <3>2. \A m, n \in Nat : m \in 1..n /\ m # n => m \in 1..(n - 1) /\ m + 1 \in 1..n
      OBVIOUS
    <3>3. k \in 1..Len(Tail(s)) /\ k + 1 \in 1..Len(s)
      <4>1. k \in Nat
        OBVIOUS
      <4>2. QED
        BY <1>2, <2>3, <3>1, <3>2, <4>1, Zenon
    <3>4. QED
      BY <1>1, <1>3, <1>5, <2>1, <3>3
  <2>4. QED
    BY <2>2, <2>3
<1>8. Tail(Append(s, e)) = Append(Tail(s), e)
  BY <1>4, <1>5, <1>6, <1>7, SeqEqual
<1>9. QED
  BY <1>1, <1>2, <1>3, <1>4, <1>8

LEMMA ReceiveKeepsFeedInv ==
  ASSUME FeedInv, Receive
  PROVE  FeedInv'
<1>1. /\ main = "get" /\ c # <<>> /\ c' = Tail(c) /\ result' = Head(c) /\ i' = 0
      /\ listener' = listener /\ closed' = closed /\ rm' = rm /\ late' = late
      /\ messages' = messages /\ restarts' = restarts
      /\ arrived' = arrived /\ handled' = handled
  BY DEF Receive, bounded
<1>2. \/ Head(c).isUpdate /\ main' = "handle"
      \/ ~Head(c).isUpdate /\ main' = "get"
  BY DEF Receive
<1>3. c \in Seq(RisMessage) /\ rm \in RisMessage /\ Len(c) <= Buffer /\ Buffer \in Nat
  BY ConstantsAssumption DEF FeedInv, TypeOK
<1>4. Head(c) \in RisMessage /\ Tail(c) \in Seq(RisMessage) /\ Len(Tail(c)) <= Buffer
  BY <1>1, <1>3, HeadTailProperties, LenProperties
<1>5. arrived \in Seq(Message) /\ handled \in Seq(Message) /\ Len(handled) \in Nat
  BY LenProperties DEF FeedInv, TypeOK
<1>6. TypeOK'
  <2>1. main' \in {"get", "handle", "ended", "panicked"}
    BY <1>2
  <2>2. QED
    BY <1>1, <1>4, <2>1 DEF FeedInv, TypeOK
<1>7. ClosedInv' /\ HandledInv'
  BY <1>1 DEF FeedInv, ClosedInv, HandledInv
<1>8. NothingLostAtEnd'
  BY <1>2 DEF NothingLostAtEnd
<1>9. /\ Queue \in Seq(RisMessage) /\ Queue # <<>>
      /\ Head(Queue) = Head(c) /\ Tail(Queue) = Queue'
  <2>1. CASE listener = "send"
    BY <1>1, <1>3, <2>1, TailOfAppend DEF Queue
  <2>2. CASE listener # "send"
    BY <1>1, <1>3, <2>2 DEF Queue
  <2>3. QED
    BY <2>1, <2>2
<1>10. /\ StandsAt(Head(c), Len(handled), arrived)
       /\ Holds(Queue', Len(handled) + Len(MessagesOf(Head(c))), arrived)
  <2>1. QueueStart = Len(handled) /\ Running
    BY <1>1 DEF QueueStart, Running
  <2>2. Holds(Queue, Len(handled), arrived)
    BY <2>1 DEF FeedInv, QueueInv
  <2>3. QED
    BY <1>5, <1>9, <2>2, LessHeld
<1>11. Len(MessagesOf(Head(c))) \in Nat /\ Len(handled) - 0 = Len(handled)
  BY <1>4, <1>5, MessagesAreType
<1>12. CASE Head(c).isUpdate /\ main' = "handle"
  <2>1. ResultInv'
    BY <1>1, <1>5, <1>10, <1>11, <1>12 DEF ResultInv
  <2>2. QueueStart' = Len(handled) + Len(MessagesOf(Head(c)))
    BY <1>1, <1>11, <1>12 DEF QueueStart
  <2>3. QueueInv'
    BY <1>1, <1>10, <2>2 DEF QueueInv
  <2>4. QED
    BY <1>6, <1>7, <1>8, <2>1, <2>3 DEF FeedInv
<1>13. CASE ~Head(c).isUpdate /\ main' = "get"
  <2>1. ResultInv'
    BY <1>13 DEF ResultInv
  <2>2. Len(MessagesOf(Head(c))) = 0
    <3>1. MessagesOf(Head(c)) = <<>>
      BY <1>13, MessagesAre, Zenon
    <3>2. QED
      BY <3>1, EmptySeq
  <2>3. QueueStart' = Len(handled) + Len(MessagesOf(Head(c)))
    BY <1>1, <1>5, <1>13, <2>2 DEF QueueStart
  <2>4. QueueInv'
    BY <1>1, <1>10, <2>3 DEF QueueInv
  <2>5. QED
    BY <1>6, <1>7, <1>8, <2>1, <2>4 DEF FeedInv
<1>14. QED
  BY <1>2, <1>12, <1>13

(* Get returns nil only when the queue is empty, so nothing is to come.    *)
LEMMA ReceiveClosedKeepsFeedInv ==
  ASSUME FeedInv, ReceiveClosed
  PROVE  FeedInv'
<1>1. /\ main = "get" /\ c = <<>> /\ closed /\ main' = "panicked"
      /\ arrived' = arrived /\ handled' = handled
  BY DEF ReceiveClosed
<1>2. listener = "returned"
  BY <1>1 DEF FeedInv, ClosedInv
<1>3. arrived \in Seq(Message) /\ handled \in Seq(Message)
  BY DEF FeedInv, TypeOK
<1>4. Len(handled) = Len(arrived)
  <2>1. Queue = <<>> /\ QueueStart = Len(handled) /\ Running
    BY <1>1, <1>2 DEF Queue, QueueStart, Running
  <2>2. Holds(<<>>, Len(handled), arrived)
    BY <2>1 DEF FeedInv, QueueInv
  <2>3. QED
    BY <1>3, <2>2, NothingHeldIsAll
<1>5. handled = arrived
  <2>1. \A k \in 1..Len(handled) : handled[k] = arrived[k]
    BY DEF FeedInv, HandledInv
  <2>2. QED
    BY <1>3, <1>4, <2>1, SeqEqual
<1>6. TypeOK'
  BY <1>1 DEF FeedInv, TypeOK, ReceiveClosed, channel, bounded
<1>7. ClosedInv' /\ HandledInv'
  BY DEF FeedInv, ClosedInv, HandledInv, ReceiveClosed, channel
<1>8. ResultInv' /\ QueueInv' /\ NothingLostAtEnd'
  BY <1>1, <1>5 DEF ResultInv, QueueInv, NothingLostAtEnd, Running
<1>9. QED
  BY <1>6, <1>7, <1>8 DEF FeedInv

LEMMA Reached ==
  /\ \A m, n \in Nat : m <= n /\ ~(m < n) => m = n
  /\ \A m, n, k \in Nat : ~(m < n + k) => ~(m < n)
OBVIOUS

(* The number of messages in the update at hand decides where handle ends. *)
LEMMA AtHand ==
  ASSUME FeedInv, main = "handle"
  PROVE  /\ result \in RisMessage /\ i \in Nat /\ Len(MessagesOf(result)) \in Nat
         /\ i <= Len(MessagesOf(result))
         /\ CanInsert => i < Len(MessagesOf(result))
         /\ ~MoreToHandle \/ (~IsWithdrawal /\ ~result.hasPath) => i = Len(MessagesOf(result))
<1>1. result \in RisMessage /\ i \in Nat /\ Len(MessagesOf(result)) \in Nat
  BY MessagesAreType DEF FeedInv, TypeOK
<1>2. result.isUpdate /\ i <= Len(MessagesOf(result))
  BY DEF FeedInv, ResultInv
<1>3. Len(MessagesOf(result)) = Len(result.withdrawals)
                                  + (IF result.hasPath THEN Len(result.announcements) ELSE 0)
  BY <1>1, <1>2, MessagesOfUpdate, Zenon
<1>4. Len(result.withdrawals) \in Nat /\ Len(result.announcements) \in Nat
  BY <1>1, WithdrawnAre, AllAnnouncedAre
<1>5. CanInsert => i < Len(MessagesOf(result))
  <2>1. CASE result.hasPath
    <3>1. Len(MessagesOf(result)) = Len(result.withdrawals) + Len(result.announcements)
      BY <1>3, <2>1, Zenon
    <3>2. QED
      BY <3>1 DEF CanInsert, MoreToHandle
  <2>2. CASE ~result.hasPath
    <3>1. Len(MessagesOf(result)) = Len(result.withdrawals)
      BY <1>3, <1>4, <2>2
    <3>2. CanInsert => IsWithdrawal
      BY <2>2, Zenon DEF CanInsert
    <3>3. QED
      BY <3>1, <3>2 DEF IsWithdrawal
  <2>3. QED
    BY <2>1, <2>2
<1>6. ASSUME ~MoreToHandle \/ (~IsWithdrawal /\ ~result.hasPath)
      PROVE  i = Len(MessagesOf(result))
  <2>1. CASE result.hasPath
    <3>1. Len(MessagesOf(result)) = Len(result.withdrawals) + Len(result.announcements)
      BY <1>3, <2>1, Zenon
    <3>2. ~MoreToHandle
      BY <1>6, <2>1, Zenon
    <3>3. ~(i < Len(MessagesOf(result)))
      BY <3>1, <3>2, Zenon DEF MoreToHandle
    <3>4. QED
      BY <1>1, <1>2, <3>3, Reached, Zenon
  <2>2. CASE ~result.hasPath
    <3>1. Len(MessagesOf(result)) = Len(result.withdrawals)
      BY <1>3, <1>4, <2>2
    <3>2. ~MoreToHandle \/ ~IsWithdrawal
      BY <1>6, Zenon
    <3>3. ~(i < Len(result.withdrawals))
      BY <1>1, <1>4, <3>2, Reached, Zenon DEF MoreToHandle, IsWithdrawal
    <3>4. QED
      BY <1>1, <1>2, <3>1, <3>3, Reached, Zenon
  <2>3. QED
    BY <2>1, <2>2
<1>7. QED
  BY <1>1, <1>2, <1>5, <1>6, Zenon

LEMMA EndHandleKeepsFeedInv ==
  ASSUME FeedInv, EndHandle
  PROVE  FeedInv'
<1>1. /\ main = "handle" /\ main' = "get"
      /\ listener' = listener /\ c' = c /\ closed' = closed /\ rm' = rm
      /\ result' = result /\ i' = i /\ late' = late /\ messages' = messages
      /\ restarts' = restarts /\ arrived' = arrived /\ handled' = handled
  BY DEF EndHandle, HandleStep, channel, bounded
<1>2. i = Len(MessagesOf(result))
  BY <1>1, AtHand DEF EndHandle
<1>3. TypeOK'
  BY <1>1 DEF FeedInv, TypeOK
<1>4. ClosedInv' /\ HandledInv' /\ ResultInv' /\ NothingLostAtEnd'
  BY <1>1 DEF FeedInv, ClosedInv, HandledInv, ResultInv, NothingLostAtEnd
<1>5. QueueStart' = QueueStart
  <2>1. i \in Nat /\ Len(handled) \in Nat
    BY LenProperties DEF FeedInv, TypeOK
  <2>2. (Len(handled) - i) + i = Len(handled)
    BY <2>1
  <2>3. QED
    BY <1>1, <1>2, <2>2 DEF QueueStart
<1>6. Queue' = Queue /\ Running
  BY <1>1 DEF Queue, Running
<1>7. QueueInv'
  BY <1>1, <1>5, <1>6 DEF FeedInv, QueueInv
<1>8. QED
  BY <1>3, <1>4, <1>7 DEF FeedInv

(* The prefix that main is done with is that of the next message that has  *)
(* arrived.                                                                *)
LEMMA DoneIsNext ==
  ASSUME FeedInv, main = "handle", CanInsert, Done
  PROVE  /\ Len(handled) < Len(arrived)
         /\ arrived[Len(handled) + 1] \in Message
         /\ handled' = Append(handled, arrived[Len(handled) + 1])
<1>1. /\ result \in RisMessage /\ i \in Nat /\ Len(MessagesOf(result)) \in Nat
      /\ i < Len(MessagesOf(result))
  BY AtHand
<1>2. result.isUpdate /\ i <= Len(handled) /\ StandsAt(result, Len(handled) - i, arrived)
  BY DEF FeedInv, ResultInv
<1>3. arrived \in Seq(Message) /\ Len(arrived) \in Nat /\ Len(handled) \in Nat
  BY LenProperties DEF FeedInv, TypeOK
<1>4. Len(handled) < Len(arrived) /\ arrived[Len(handled) + 1] = MessagesOf(result)[i + 1]
  <2>1. i + 1 \in 1..Len(MessagesOf(result)) /\ (Len(handled) - i) + (i + 1) = Len(handled) + 1
    BY <1>1, <1>2, <1>3
  <2>2. /\ (Len(handled) - i) + Len(MessagesOf(result)) <= Len(arrived)
        /\ arrived[(Len(handled) - i) + (i + 1)] = MessagesOf(result)[i + 1]
    BY <1>2, <2>1 DEF StandsAt
  <2>3. QED
    BY <1>1, <1>2, <1>3, <2>1, <2>2
<1>5. MessagesOf(result)[i + 1] = PrefixAt(result, i)
  BY <1>1, <1>2, MessagesOfUpdate, Zenon
<1>6. PrefixAt(result, i) = [subnet |-> Prefix, isAnnouncement |-> ~IsWithdrawal]
  <2>1. CASE i < Len(result.withdrawals)
    <3>1. Prefix = result.withdrawals[i + 1] /\ (~IsWithdrawal) = FALSE
      BY <2>1 DEF Prefix, IsWithdrawal
    <3>2. PrefixAt(result, i) = [subnet |-> Prefix, isAnnouncement |-> FALSE]
      BY <2>1, <3>1 DEF PrefixAt, Withdrawal
    <3>3. QED
      BY <3>1, <3>2
  <2>2. CASE ~(i < Len(result.withdrawals))
    <3>1. /\ Prefix = result.announcements[i - Len(result.withdrawals) + 1]
          /\ (~IsWithdrawal) = TRUE
      BY <2>2 DEF Prefix, IsWithdrawal
    <3>2. PrefixAt(result, i) = [subnet |-> Prefix, isAnnouncement |-> TRUE]
      BY <2>2, <3>1 DEF PrefixAt, Announcement
    <3>3. QED
      BY <3>1, <3>2
  <2>3. QED
    BY <2>1, <2>2
<1>7. handled' = Append(handled, [subnet |-> Prefix, isAnnouncement |-> ~IsWithdrawal])
  BY DEF Done
<1>8. handled' = Append(handled, arrived[Len(handled) + 1])
  BY <1>4, <1>5, <1>6, <1>7, Zenon
<1>9. arrived[Len(handled) + 1] \in Message
  <2>1. Len(handled) + 1 \in 1..Len(arrived)
    BY <1>3, <1>4
  <2>2. QED
    BY <1>3, <2>1, ElementOfSeq
<1>10. QED
  BY <1>4, <1>8, <1>9

LEMMA DoneKeepsFeedInv ==
  ASSUME FeedInv, HandleStep, CanInsert, Done
  PROVE  FeedInv'
<1>1. /\ main = "handle" /\ main' = "handle" /\ i' = i + 1
      /\ listener' = listener /\ c' = c /\ closed' = closed /\ rm' = rm
      /\ result' = result /\ late' = late /\ messages' = messages
      /\ restarts' = restarts /\ arrived' = arrived
  BY DEF HandleStep, Done, channel, bounded
<1>2. /\ Len(handled) < Len(arrived)
      /\ arrived[Len(handled) + 1] \in Message
      /\ handled' = Append(handled, arrived[Len(handled) + 1])
  BY <1>1, DoneIsNext
<1>3. /\ i \in Nat /\ Len(MessagesOf(result)) \in Nat /\ i < Len(MessagesOf(result))
  BY <1>1, AtHand
<1>4. /\ handled \in Seq(Message) /\ arrived \in Seq(Message)
      /\ Len(handled) \in Nat /\ Len(arrived) \in Nat
  BY LenProperties DEF FeedInv, TypeOK
<1>5. /\ handled' \in Seq(Message) /\ Len(handled') = Len(handled) + 1
      /\ \A k \in 1..Len(handled) : handled'[k] = handled[k]
      /\ handled'[Len(handled) + 1] = arrived[Len(handled) + 1]
  BY <1>2, <1>4, AppendProperties
<1>6. TypeOK'
  <2>1. i' \in Nat
    BY <1>1, <1>3
  <2>2. QED
    BY <1>1, <1>5, <2>1 DEF FeedInv, TypeOK
<1>7. HandledInv'
  <2>1. \A k \in 1..Len(handled) : handled[k] = arrived[k]
    BY DEF FeedInv, HandledInv
  <2>2. ASSUME NEW k \in 1..Len(handled')
        PROVE  handled'[k] = arrived'[k]
    <3>1. k \in 1..Len(handled) \/ k = Len(handled) + 1
      BY <1>4, <1>5, <2>2
    <3>2. QED
      BY <1>1, <1>5, <2>1, <3>1
  <2>3. Len(handled') <= Len(arrived')
    BY <1>1, <1>2, <1>4, <1>5
  <2>4. QED
    BY <2>2, <2>3 DEF HandledInv
<1>8. ClosedInv' /\ NothingLostAtEnd'
  BY <1>1 DEF FeedInv, ClosedInv, NothingLostAtEnd
<1>9. Len(handled') - i' = Len(handled) - i
  BY <1>1, <1>3, <1>4, <1>5
<1>10. ResultInv'
  <2>1. result.isUpdate /\ i <= Len(handled) /\ StandsAt(result, Len(handled) - i, arrived)
    BY <1>1 DEF FeedInv, ResultInv
  <2>2. i' <= Len(MessagesOf(result')) /\ i' <= Len(handled')
    BY <1>1, <1>3, <1>4, <1>5, <2>1
  <2>3. QED
    BY <1>1, <1>9, <2>1, <2>2 DEF ResultInv
<1>11. QueueInv'
  <2>1. QueueStart' = QueueStart /\ Queue' = Queue /\ Running
    BY <1>1, <1>9 DEF QueueStart, Queue, Running
  <2>2. QED
    BY <1>1, <2>1 DEF FeedInv, QueueInv
<1>12. QED
  BY <1>6, <1>7, <1>8, <1>10, <1>11 DEF FeedInv

LEMMA StopTimeReachedKeepsFeedInv ==
  ASSUME FeedInv, StopTimeReached
  PROVE  FeedInv'
<1>1. main = "handle" /\ main' = "ended"
  BY DEF StopTimeReached, HandleStep
<1>2. TypeOK'
  BY <1>1 DEF FeedInv, TypeOK, StopTimeReached, HandleStep, channel, bounded
<1>3. ClosedInv' /\ HandledInv'
  BY DEF FeedInv, ClosedInv, HandledInv, StopTimeReached, HandleStep, channel
<1>4. ResultInv' /\ QueueInv' /\ NothingLostAtEnd'
  BY <1>1 DEF ResultInv, QueueInv, NothingLostAtEnd, Running
<1>5. QED
  BY <1>2, <1>3, <1>4 DEF FeedInv

LEMMA NextKeepsFeedInv == FeedInv /\ [Next]_vars => FeedInv'
<1> SUFFICES ASSUME FeedInv, [Next]_vars PROVE FeedInv'
  OBVIOUS
<1>1. CASE Connect \/ ConnectFails \/ DecodeFails \/ EndOfStream
  BY <1>1, ListenKeepsFeedInv
<1>2. CASE Decode
  BY <1>2, DecodeKeepsFeedInv
<1>3. CASE Send
  BY <1>3, SendKeepsFeedInv
<1>4. CASE Receive
  BY <1>4, ReceiveKeepsFeedInv
<1>5. CASE ReceiveClosed
  BY <1>5, ReceiveClosedKeepsFeedInv
<1>6. CASE EndHandle
  BY <1>6, EndHandleKeepsFeedInv
<1>7. CASE SkipIPv6 \/ Insert
  BY <1>7, DoneKeepsFeedInv DEF SkipIPv6, Insert
<1>8. CASE StopTimeReached
  BY <1>8, StopTimeReachedKeepsFeedInv
<1>9. CASE PassStopTime
  BY <1>9, PassStopTimeKeepsFeedInv
<1>10. CASE UNCHANGED vars
  <2>1. Queue' = Queue /\ ClosedInv'
    BY <1>10 DEF FeedInv, ClosedInv, Queue, vars, channel
  <2>2. TypeOK'
    BY <1>10 DEF FeedInv, TypeOK, vars, channel, bounded
  <2>3. QED
    BY <1>10, <2>1, <2>2, SameQueueKeepsFeedInv DEF vars
<1>11. QED
  BY <1>1, <1>2, <1>3, <1>4, <1>5, <1>6, <1>7, <1>8, <1>9, <1>10 DEF Next, Listen, Main

LEMMA FeedInvAlways == Spec => []FeedInv
<1>1. Init => FeedInv
  BY InitFeedInv
<1>2. FeedInv /\ [Next]_vars => FeedInv'
  BY NextKeepsFeedInv
<1>3. QED
  BY <1>1, <1>2, PTL DEF Spec

-----------------------------------------------------------------------------
(* Whatever is sent, the channel stays within its buffer and the variables *)
(* within their types.                                                     *)
THEOREM TypeCorrect == Spec => []TypeOK
<1>1. FeedInv => TypeOK
  BY DEF FeedInv
<1>2. QED
  BY <1>1, FeedInvAlways, PTL

(* When the end of the stream makes main panic, all that had been decoded  *)
(* has been handled, also what was in the buffer when it was closed.       *)
THEOREM NothingLostAtEndAlways == Spec => []NothingLostAtEnd
<1>1. FeedInv => NothingLostAtEnd
  BY DEF FeedInv
<1>2. QED
  BY <1>1, FeedInvAlways, PTL

LEMMA ConcatIsExtension ==
  ASSUME NEW s \in Seq(Message), NEW t \in Seq(Message)
  PROVE  s \o t \in Seq(Message) /\ Promise!IsPrefix(s, s \o t)
<1>1. /\ Len(s) \in Nat /\ Len(t) \in Nat
      /\ s \o t \in Seq(Message) /\ Len(s \o t) = Len(s) + Len(t)
  BY LenProperties, ConcatProperties
<1>2. \A k \in 1..Len(s) : s[k] \in Message /\ (s \o t)[k] = s[k]
  <2>1. SUFFICES ASSUME NEW k \in 1..Len(s)
                 PROVE  s[k] \in Message /\ (s \o t)[k] = s[k]
    OBVIOUS
  <2>2. k \in 1..(Len(s) + Len(t)) /\ k <= Len(s)
    BY <1>1
  <2>3. QED
    BY <2>2, ConcatProperties, ElementOfSeq
<1>3. SubSeq(s, 1, Len(s)) = SubSeq(s \o t, 1, Len(s))
  <2>1. 1 \in Int /\ Len(s) \in Int /\ Len(s) - 1 + 1 = Len(s)
    BY <1>1
  <2>2. /\ SubSeq(s, 1, Len(s)) \in Seq(Message)
        /\ Len(SubSeq(s, 1, Len(s))) = (IF 1 <= Len(s) THEN Len(s) - 1 + 1 ELSE 0)
        /\ \A k \in 1..(Len(s) - 1 + 1) : SubSeq(s, 1, Len(s))[k] = s[1 + k - 1]
    BY <1>2, <2>1, SubSeqProperties
  <2>3. /\ SubSeq(s \o t, 1, Len(s)) \in Seq(Message)
        /\ Len(SubSeq(s \o t, 1, Len(s))) = (IF 1 <= Len(s) THEN Len(s) - 1 + 1 ELSE 0)
        /\ \A k \in 1..(Len(s) - 1 + 1) : SubSeq(s \o t, 1, Len(s))[k] = (s \o t)[1 + k - 1]
    BY <1>2, <2>1, SubSeqProperties
  <2>4. /\ Len(SubSeq(s, 1, Len(s))) = Len(s)
        /\ Len(SubSeq(s \o t, 1, Len(s))) = Len(s)
    BY <1>1, <2>2, <2>3
  <2>5. ASSUME NEW k \in 1..Len(s)
        PROVE  SubSeq(s, 1, Len(s))[k] = SubSeq(s \o t, 1, Len(s))[k]
    <3>1. 1 + k - 1 = k /\ k \in 1..(Len(s) - 1 + 1)
      BY <1>1
    <3>2. QED
      BY <1>2, <2>2, <2>3, <3>1
  <2>6. QED
    BY <2>2, <2>3, <2>4, <2>5, SeqEqual
<1>4. Len(s) <= Len(s \o t)
  BY <1>1
<1>5. QED
  BY <1>1, <1>3, <1>4 DEF Promise!IsPrefix

LEMMA StepImplementsFeed ==
  FeedInv /\ [Next]_vars => [Promise!Next]_<<arrived, handled>>
<1> SUFFICES ASSUME FeedInv, [Next]_vars PROVE [Promise!Next]_<<arrived, handled>>
  OBVIOUS
<1>1. CASE Decode
  <2>1. PICK r \in Contents : arrived' = arrived \o MessagesOf(r)
    BY <1>1 DEF Decode
  <2>2. MessagesOf(r) \in Seq(Message) /\ arrived \in Seq(Message)
    BY ConstantsAssumption, MessagesAreType DEF FeedInv, TypeOK
  <2>3. handled' = handled
    BY <1>1 DEF Decode, ListenerStep
  <2>4. arrived' \in Seq(Message) /\ Promise!IsPrefix(arrived, arrived')
    BY <2>1, <2>2, ConcatIsExtension
  <2>5. QED
    BY <2>3, <2>4 DEF Promise!Next, Promise!Arrive
<1>2. CASE SkipIPv6 \/ Insert
  <2>1. HandleStep /\ CanInsert /\ Done
    BY <1>2 DEF SkipIPv6, Insert
  <2>2. main = "handle" /\ arrived' = arrived
    BY <2>1 DEF HandleStep
  <2>3. /\ Len(handled) < Len(arrived)
        /\ handled' = Append(handled, arrived[Len(handled) + 1])
    BY <2>1, <2>2, DoneIsNext
  <2>4. QED
    BY <2>2, <2>3 DEF Promise!Next, Promise!Handle
<1>3. CASE \/ Connect \/ ConnectFails \/ DecodeFails \/ EndOfStream \/ Send
           \/ Receive \/ ReceiveClosed \/ EndHandle \/ StopTimeReached \/ PassStopTime
           \/ UNCHANGED vars
  <2>1. arrived' = arrived /\ handled' = handled
    BY <1>3 DEF Connect, ConnectFails, DecodeFails, EndOfStream, Send, ListenerStep, Receive,
                ReceiveClosed, EndHandle, HandleStep, StopTimeReached, PassStopTime, vars
  <2>2. QED
    BY <2>1
<1>4. QED
  BY <1>1, <1>2, <1>3 DEF Next, Listen, Main

(* Reconnections, the buffer and the splitting into messages change neither*)
(* order nor number: what main handles is what has arrived, one by one.    *)
THEOREM ImplementsFeedAlways == Spec => ImplementsFeed
<1>1. Init => Promise!Init
  BY DEF Init, Promise!Init
<1>2. FeedInv /\ [Next]_vars => [Promise!Next]_<<arrived, handled>>
  BY StepImplementsFeed
<1>3. QED
  BY <1>1, <1>2, FeedInvAlways, PTL DEF Spec, ImplementsFeed, Promise!Spec
=============================================================================
