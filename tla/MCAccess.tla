------------------------------ MODULE MCAccess ------------------------------
(***************************************************************************)
(* Two requests in flight, three users, one invite, one session, one device  *)
(* token.  The instance is the union of three: Membership, where requests  *)
(* race for groups and invites; Credentials, where one user's logins,      *)
(* tokens and password resets race; and Attempts, where logins right and   *)
(* wrong fill the login limiter.                                           *)
(***************************************************************************)
EXTENDS Access, SequencesExt

CONSTANTS
  p1, p2, g1, g2, n1, n2, n3, i1, s1, d1, old, new,
  MaxFailures    \* bound: failures the register and redeem limiters count

Failures(l) == FoldLeft(LAMBDA sum, e : sum + e.failures, 0, limiter[l])

OnlyOld ==
  /\ \A n \in Name : users[n].password # new /\ users[n].resets = 0 /\ ~users[n].stale
  /\ \A d \in DeviceToken : creds[d].state = "none"
  /\ \A p \in Proc : req[p].pc \in {"registerFirst", "registerNew", "redeem"}
                       => req[p].password = old
Alone ==
  /\ ~open
  /\ \A i \in Invite : invites[i].state = "none"
  /\ \A n \in Name : Exists(n) => n = n1
  /\ Failures("register") <= 1 /\ Failures("redeem") = 0

Membership ==
  /\ OnlyOld
  /\ limiter["login"] = <<>>
  /\ Failures("register") + Failures("redeem") <= MaxFailures
Credentials == Alone /\ limiter["login"] = <<>>
Attempts == Alone /\ OnlyOld

\* The third user comes only by invite.
ThirdInvited ==
  \A p \in Proc :
    req[p].pc \in {"registerFirst", "registerNew", "verify"} => req[p].name # n3

Instance == ThirdInvited /\ (Membership \/ Credentials \/ Attempts)
=============================================================================
