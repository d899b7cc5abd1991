-------------------------- MODULE MCAccountDaemon --------------------------
(***************************************************************************)
(* AccountDaemon on an installation of one account that requires the       *)
(* grant, which Ceylith revokes.                                           *)
(***************************************************************************)
EXTENDS AccountDaemon

CONSTANTS A

OnlyFull == <<[account |-> A, mode |-> "RequireGrant"]>>
One == [class |-> "Community", maxFull |-> 1]
OneAdmission == {One}
Revocation == {[kind |-> "GrantRevoked", account |-> NoAccount, grant |-> One]}
=============================================================================
