------------------------------ MODULE Delivery ------------------------------
(***************************************************************************)
(* What a conversation promises its members, without queues, drains, turns *)
(* or crashes: an accepted message is handled once; its reply leaves while *)
(* it is being handled, never before and never after; a reply that may be  *)
(* sent once is claimed first and spent once; a reply that must not be     *)
(* dropped may repeat until it is logged, or is buried without ever having *)
(* left.  Lane implements it.                                              *)
(***************************************************************************)
EXTENDS Naturals

CONSTANTS
  Keys,      \* messages, each the key of the reply to the batch it leads
  Repeats    \* those whose reply may repeat and must not be dropped

VARIABLES
  accepted,  \* messages the system has taken responsibility for
  handled,   \* messages it is done with
  claimed,   \* replies that were reserved, or logged as sent
  sends,     \* how often each reply left
  dead       \* replies that were given up for good

vars == <<accepted, handled, claimed, sends, dead>>

Init ==
  /\ accepted = {} /\ handled = {} /\ claimed = {} /\ dead = {}
  /\ sends = [k \in Keys |-> 0]

Open == accepted \ handled

Accept(k) ==
  /\ k \in Keys \ accepted
  /\ accepted' = accepted \cup {k}
  /\ UNCHANGED <<handled, claimed, sends, dead>>

Claim(k) ==
  /\ k \in Open \ claimed
  /\ k \notin Repeats
  /\ claimed' = claimed \cup {k}
  /\ UNCHANGED <<accepted, handled, sends, dead>>

SendOnce(k) ==
  /\ k \in Open \cap claimed
  /\ k \notin Repeats
  /\ sends[k] = 0
  /\ sends' = [sends EXCEPT ![k] = 1]
  /\ UNCHANGED <<accepted, handled, claimed, dead>>

SendAgain(k) ==
  /\ k \in (Open \cap Repeats) \ (claimed \cup dead)
  /\ sends' = [sends EXCEPT ![k] = @ + 1]
  /\ UNCHANGED <<accepted, handled, claimed, dead>>

Log(k) ==
  /\ k \in (Open \cap Repeats) \ claimed
  /\ sends[k] > 0
  /\ claimed' = claimed \cup {k}
  /\ UNCHANGED <<accepted, handled, sends, dead>>

Bury(k) ==
  /\ k \in Open \cap Repeats
  /\ sends[k] = 0
  /\ dead' = dead \cup {k}
  /\ UNCHANGED <<accepted, handled, claimed, sends>>

\* A batch is finished with in one step.
Handle(S) ==
  /\ S \subseteq Open
  /\ handled' = handled \cup S
  /\ UNCHANGED <<accepted, claimed, sends, dead>>

Next ==
  \/ \E k \in Keys : Accept(k) \/ Claim(k) \/ SendOnce(k) \/ SendAgain(k) \/ Log(k) \/ Bury(k)
  \/ \E S \in SUBSET Keys : Handle(S)

Spec == Init /\ [][Next]_vars
=============================================================================
