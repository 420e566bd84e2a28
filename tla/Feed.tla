-------------------------------- MODULE Feed --------------------------------
(***************************************************************************)
(* What the live feed promises: the announcements and withdrawals that have*)
(* arrived are handled one by one, all of them, once each and in the order *)
(* of their arrival.                                                       *)
(***************************************************************************)
EXTENDS Naturals, SequencesExt

CONSTANT Message

VARIABLES arrived,  (* the messages that have arrived, in this order       *)
          handled   (* the messages that have been handled                 *)

Init == arrived = <<>> /\ handled = <<>>

Arrive == /\ arrived' \in Seq(Message) /\ IsPrefix(arrived, arrived')
          /\ UNCHANGED handled

Handle == /\ Len(handled) < Len(arrived)
          /\ handled' = Append(handled, arrived[Len(handled) + 1])
          /\ UNCHANGED arrived

Next == Arrive \/ Handle

Spec == Init /\ [][Next]_<<arrived, handled>>
=============================================================================
