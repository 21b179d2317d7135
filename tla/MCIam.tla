------------------------------- MODULE MCIam --------------------------------
(***************************************************************************)
(* Small instances of Iam: the administrator's role and another one, two   *)
(* permissions, two accounts, one or two requests beside the API and the   *)
(* script.                                                                 *)
(***************************************************************************)
EXTENDS Iam, TLC

CONSTANTS admin, staff, root, agent, p1, p2

MCSeedCodes == admin :> {p1, p2} @@ staff :> {p1}

MCSeedRole == root :> admin @@ agent :> staff

=============================================================================
