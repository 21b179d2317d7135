----------------------------- MODULE MCSessions -----------------------------
(***************************************************************************)
(* Small instances of Sessions: one account with a session, two addresses, *)
(* two to four requests.                                                   *)
(***************************************************************************)
EXTENDS Sessions, TLC

CONSTANTS o1, e1, e2

MCOldEmail == o1 :> e1

\* A code of the old account for a reset, or one for the free address.
MCOldOtps ==
    {[email |-> e1, purpose |-> "RESET_PASSWORD", user |-> o1, at |-> 0,
      used |-> FALSE, expired |-> FALSE],
     [email |-> e2, purpose |-> "REGISTER", user |-> NoId, at |-> 0,
      used |-> FALSE, expired |-> FALSE]}

\* A new address, a suspension, a new password, or nothing at all.
MCBodies ==
    {[email |-> e2, status |-> Unset, password |-> FALSE],
     [email |-> Unset, status |-> "SUSPENDU", password |-> FALSE],
     [email |-> Unset, status |-> Unset, password |-> TRUE],
     [email |-> Unset, status |-> Unset, password |-> FALSE]}

\* Requests are interchangeable (for safety runs only).
Symmetry == Permutations(RequestIds)

=============================================================================
