-------------------------- MODULE MCEmailDelivery --------------------------
(* Instances of EmailDelivery for TLC. *)
EXTENDS EmailDelivery, TLC

\* The provider gives up on what it accepted.
OneEvent == {"drop"}
OneKind == [drop |-> "failed"]
OneTime == [drop |-> 1]

\* A bounce, then a complaint.
TwoEvents == {"hard", "spam"}
TwoKinds == [hard |-> "bounced", spam |-> "complained"]
TwoTimes == [hard |-> 1, spam |-> 2]

Alike == Permutations(Producer) \cup Permutations(Consumer)
           \cup Permutations(Hook) \cup Permutations(Payload)
=============================================================================
