----------------------------- MODULE StampLedger -----------------------------
(***************************************************************************)
(* What a loyalty card promises its holder: a stamp that was given is on   *)
(* the card until it is exchanged or taken back, and it is so once.        *)
(***************************************************************************)
EXTENDS Naturals

VARIABLES
  given,      \* the stamps that were ever given
  exchanged,  \* those of them that were exchanged for a prize
  withdrawn,  \* those that were taken back
  onCard      \* those that can still be exchanged

Init == given = 0 /\ exchanged = 0 /\ withdrawn = 0 /\ onCard = 0

Give ==
  /\ given' > given /\ onCard' = onCard + (given' - given)
  /\ UNCHANGED <<exchanged, withdrawn>>

Exchange ==
  /\ \E n \in 1 .. onCard : exchanged' = exchanged + n /\ onCard' = onCard - n
  /\ UNCHANGED <<given, withdrawn>>

Withdraw ==
  /\ \E n \in 1 .. onCard : withdrawn' = withdrawn + n /\ onCard' = onCard - n
  /\ UNCHANGED <<given, exchanged>>

Next == Give \/ Exchange \/ Withdraw

Spec == Init /\ [][Next]_<<given, exchanged, withdrawn, onCard>>
=============================================================================
