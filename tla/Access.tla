------------------------------- MODULE Access -------------------------------
(***************************************************************************)
(* Who may do what: groups and their members, invites, sessions, device    *)
(* tokens and passwords.  A request reads, then hashes or verifies a       *)
(* password for a long time, and only then writes in one transaction; a    *)
(* scoped request is authenticated first and does its work later.  Between *)
(* the two steps other requests, the reset-password command and the        *)
(* passing of time change what was read.                                   *)
(***************************************************************************)
EXTENDS RateLimiter, FiniteSets

CONSTANTS
  Proc,          \* requests in flight
  Group,         \* group ids
  Name,          \* usernames; unique over all groups, so they name the users
  Invite,        \* invite ids
  Session,       \* session ids
  DeviceToken,   \* device token ids
  Password,      \* passwords
  None,          \* no user, no invite
  MaxResets      \* bound: password resets

\* None is no id: it stands for a NULL column.
ASSUME AccessAssumption == Group # {} /\ None \notin Name \cup Invite

VARIABLES
  open,     \* configuration: anyone may register a group
  groups,   \* the groups
  users,    \* username -> group, role, password, invite used, resets
  invites,  \* invite -> group, state, the user that redeemed it
  creds,    \* session or device token -> user, state, resets at its creation
  req,      \* what each request in flight has read
  limiter   \* the login, register and invite-redeem rate limiters

vars == <<open, groups, users, invites, creds, req, limiter>>

Credential == Session \cup DeviceToken
Limiter == {"login", "register", "redeem"}

NoUser == [group |-> None, role |-> "none", password |-> None, stale |-> FALSE,
           invite |-> None, resets |-> 0]
NoInvite == [group |-> None, state |-> "none", redeemedBy |-> None]
NoCred == [user |-> None, state |-> "none", resets |-> 0]
Idle == [pc |-> "idle"]

Init ==
  /\ open \in BOOLEAN
  /\ groups = {}
  /\ users = [n \in Name |-> NoUser]
  /\ invites = [i \in Invite |-> NoInvite]
  /\ creds = [c \in Credential |-> NoCred]
  /\ req = [p \in Proc |-> Idle]
  /\ limiter = [l \in Limiter |-> <<>>]

Goes(p, from, to) == req[p].pc = from /\ req' = [req EXCEPT ![p] = to]

Exists(n) == users[n].role # "none"

\* A request that its rate limiter lets in; both answers touch the entries.
Admitted(l, keys) ==
  /\ AllowAll(limiter[l], keys)
  /\ limiter' = [limiter EXCEPT ![l] = AfterAllowAll(@, keys)]

\* Mutant: a refused attempt counts as a failure.
RateLimited_Counts(l, keys) ==
  /\ ~AllowAll(limiter[l], keys)
  /\ limiter' = [limiter EXCEPT ![l] = FailAll(AfterAllowAll(@, keys), keys)]
  /\ UNCHANGED <<open, groups, users, invites, creds, req>>

RateLimited(l, keys) ==
  /\ ~AllowAll(limiter[l], keys)
  /\ limiter' = [limiter EXCEPT ![l] = AfterAllowAll(@, keys)]
  /\ UNCHANGED <<open, groups, users, invites, creds, req>>

(***************************************************************************)
(* The statements, named as in the queries: what each finds, and the table *)
(* each leaves.                                                            *)
(***************************************************************************)
CountGroups == Cardinality(groups)
CreateGroup(g) == groups \cup {g}
CreateGroupIfNone(g) == IF groups = {} THEN {g} ELSE groups

CreateUser(n, g, role, pw, i) ==
  [users EXCEPT ![n] = [NoUser EXCEPT !.group = g, !.role = role,
                                      !.password = pw, !.invite = i]]
GetUserForLogin(n) == users[n]
UpdateUserPasswordHash(n, pw) ==
  [users EXCEPT ![n].password = pw, ![n].stale = FALSE]

InsertInvite(i, g) == [invites EXCEPT ![i].group = g, ![i].state = "open"]
GetInviteForRedeem(i) == invites[i]
GetInviteForRevoke(i, g) == invites[i].group = g

\* Mutant: the update does not ask for redeemed_at IS NULL.
MarkInviteRedeemed_Blind(i, n) == invites' = [invites EXCEPT ![i].redeemedBy = n]

\* No row updated rolls the transaction back.
MarkInviteRedeemed(i, n) ==
  /\ invites[i].redeemedBy = None
  /\ invites' = [invites EXCEPT ![i].redeemedBy = n]

ExpireInviteNow(i) ==
  IF invites[i].state = "open" /\ invites[i].redeemedBy = None
    THEN [invites EXCEPT ![i].state = "revoked"] ELSE invites

\* A credential of user n; the reset it comes after is history.
Issued(c, n) == [creds EXCEPT ![c] = [user |-> n, state |-> "live",
                                      resets |-> users[n].resets]]
InsertSession(s, n) == Issued(s, n)
InsertDeviceToken(d, n) == Issued(d, n)
GetSessionForAuth(s) == creds[s]
GetDeviceTokenForAuth(d) == creds[d]
GetSessionForRevoke(s, n) == creds[s].user = n
GetDeviceTokenForRevoke(d, n) == creds[d].user = n

\* Revoked or expired, it authenticates no more.
Ended(table, c) == [table[c] EXCEPT !.state = IF @ = "live" THEN "ended" ELSE @]
SetSessionRevoked(s) == [creds EXCEPT ![s] = Ended(creds, s)]
SetDeviceTokenRevoked(d) == [creds EXCEPT ![d] = Ended(creds, d)]
RevokeSessionByTokenHash(s) == [creds EXCEPT ![s] = Ended(creds, s)]
RevokeAllSessionsForUser(table, n) ==
  [c \in Credential |-> IF c \in Session /\ table[c].user = n THEN Ended(table, c)
                                                             ELSE table[c]]

\* Mutant: the device tokens are forgotten.
RevokeAllDeviceTokensForUser_None(table, n) == table

RevokeAllDeviceTokensForUser(table, n) ==
  [c \in Credential |-> IF c \in DeviceToken /\ table[c].user = n THEN Ended(table, c)
                                                                 ELSE table[c]]

(***************************************************************************)
(* Registration                                                            *)
(***************************************************************************)
HasAnyGroup == CountGroups > 0

\* newID: an id no group has.
FreshGroup == CHOOSE g \in Group : g \notin groups

\* Every outcome, success included, counts against the address.
registerRateLimitRecord ==
  limiter' = [limiter EXCEPT !["register"] = FailAll(@, <<"ip">>)]

\* The gate: where registration is open a household that is not the first
\* goes on to registerNewGroup, otherwise it is refused.
RegisterBegin(p, n, pw) ==
  /\ Goes(p, "idle", [pc |-> IF HasAnyGroup THEN "registerNew" ELSE "registerFirst",
                      name |-> n, password |-> pw])
  /\ HasAnyGroup => open
  /\ Admitted("register", <<"ip">>)
  /\ UNCHANGED <<open, groups, users, invites, creds>>

RegisterRefused(p) ==
  /\ req[p].pc = "idle" /\ HasAnyGroup /\ ~open
  /\ AllowAll(limiter["register"], <<"ip">>)
  /\ registerRateLimitRecord
  /\ UNCHANGED <<open, groups, users, invites, creds, req>>

\* Mutant: the group is created without asking whether there is one.
RegisterFirstUser_Unchecked(n, pw) ==
  /\ ~Exists(n) /\ groups # Group
  /\ groups' = CreateGroup(FreshGroup)
  /\ users' = CreateUser(n, FreshGroup, "owner", pw, None)

RegisterFirstUser(n, pw) ==
  /\ CreateGroupIfNone(FreshGroup) # groups
  /\ groups' = CreateGroupIfNone(FreshGroup)
  /\ users' = CreateUser(n, FreshGroup, "owner", pw, None)

RegisterNewGroup(n, pw) ==
  /\ ~Exists(n) /\ groups # Group
  /\ groups' = CreateGroup(FreshGroup)
  /\ users' = CreateUser(n, FreshGroup, "owner", pw, None)

Register(p) ==
  /\ Goes(p, "registerFirst", Idle)
  /\ RegisterFirstUser(req[p].name, req[p].password)
  /\ registerRateLimitRecord
  /\ UNCHANGED <<open, invites, creds>>

\* CreateGroupIfNone inserted nothing: another request was first.
RegisterTooLate(p) ==
  /\ HasAnyGroup
  /\ IF open
       THEN /\ Goes(p, "registerFirst", [req[p] EXCEPT !.pc = "registerNew"])
            /\ UNCHANGED limiter
       ELSE Goes(p, "registerFirst", Idle) /\ registerRateLimitRecord
  /\ UNCHANGED <<open, groups, users, invites, creds>>

registerNewGroup(p) ==
  /\ Goes(p, "registerNew", Idle)
  /\ RegisterNewGroup(req[p].name, req[p].password)
  /\ registerRateLimitRecord
  /\ UNCHANGED <<open, invites, creds>>

\* The username is taken: the unique index fails the whole transaction.
RegisterNameTaken(p) ==
  /\ Goes(p, "registerNew", Idle)
  /\ Exists(req[p].name)
  /\ registerRateLimitRecord
  /\ UNCHANGED <<open, groups, users, invites, creds>>

(***************************************************************************)
(* Redeeming an invite.  Redeem takes "now" once and uses it for the check *)
(* and for the transaction, so an invite that expires or is revoked in     *)
(* between passes the second check too, unless it was revoked within the   *)
(* same millisecond.                                                       *)
(***************************************************************************)
redeemKeys(i) == <<"ip", i>>
inviteRedeemRateLimitRecord(i) ==
  limiter' = [limiter EXCEPT !["redeem"] = FailAll(@, redeemKeys(i))]

InviteRedeemable(i) ==
  LET row == GetInviteForRedeem(i)
  IN  row.state = "open" /\ row.redeemedBy = None

RedeemBegin(p, i, n, pw) ==
  /\ InviteRedeemable(i)
  /\ Goes(p, "idle", [pc |-> "redeem", name |-> n, password |-> pw, invite |-> i])
  /\ Admitted("redeem", redeemKeys(i))
  /\ UNCHANGED <<open, groups, users, invites, creds>>

RedeemRefused(p, i) ==
  /\ req[p].pc = "idle" /\ ~InviteRedeemable(i)
  /\ AllowAll(limiter["redeem"], redeemKeys(i))
  /\ limiter' = [limiter EXCEPT !["redeem"] =
                   FailAll(AfterAllowAll(@, redeemKeys(i)), redeemKeys(i))]
  /\ UNCHANGED <<open, groups, users, invites, creds, req>>

RedeemInvite(i, n, pw) ==
  /\ ~Exists(n)
  /\ users' = CreateUser(n, GetInviteForRedeem(i).group, "member", pw, i)
  /\ MarkInviteRedeemed(i, n)

Redeem(p) ==
  /\ Goes(p, "redeem", Idle)
  /\ RedeemInvite(req[p].invite, req[p].name, req[p].password)
  /\ inviteRedeemRateLimitRecord(req[p].invite)
  /\ UNCHANGED <<open, groups, creds>>

\* ErrUsernameTaken or ErrInviteNotRedeemable roll the transaction back.
RedeemRolledBack(p) ==
  LET i == req[p].invite
  IN  /\ Goes(p, "redeem", Idle)
      /\ \/ Exists(req[p].name)
         \/ invites[i].redeemedBy # None
         \/ invites[i].state = "revoked"
      /\ inviteRedeemRateLimitRecord(i)
      /\ UNCHANGED <<open, groups, users, invites, creds>>

(***************************************************************************)
(* Login.  It reads the user, verifies the password against that copy,     *)
(* writes a new hash if the copy's was made with superseded parameters,    *)
(* and mints a session.                                                    *)
(***************************************************************************)
loginKeys(n) == <<"ip", n>>

UserForLogin(n) == GetUserForLogin(n)

LoginBegin(p, n, pw) ==
  /\ Goes(p, "idle", [pc |-> "verify", name |-> n, password |-> pw,
                      user |-> UserForLogin(n)])
  /\ Admitted("login", loginKeys(n))
  /\ UNCHANGED <<open, groups, users, invites, creds>>

\* No such user is answered like a wrong password.
LoginRejected(p) ==
  LET r == req[p]
  IN  /\ Goes(p, "verify", Idle)
      /\ r.user.role = "none" \/ r.user.password # r.password
      /\ limiter' = [limiter EXCEPT !["login"] = FailAll(@, loginKeys(r.name))]
      /\ UNCHANGED <<open, groups, users, invites, creds>>

LoginVerified(p) ==
  LET r == req[p]
  IN  /\ Goes(p, "verify", [r EXCEPT !.pc = IF r.user.stale THEN "rehash" ELSE "mint"])
      /\ r.user.role # "none" /\ r.user.password = r.password
      /\ UNCHANGED <<open, groups, users, invites, creds, limiter>>

RehashPassword(p) ==
  LET r == req[p]
  IN  /\ Goes(p, "rehash", [r EXCEPT !.pc = "mint"])
      /\ users' = UpdateUserPasswordHash(r.name, r.password)
      /\ UNCHANGED <<open, groups, invites, creds, limiter>>

\* Ids are new.
CreateSession(s, n) == creds[s].state = "none" /\ creds' = InsertSession(s, n)
CreateDeviceToken(d, n) == creds[d].state = "none" /\ creds' = InsertDeviceToken(d, n)

mintSession(p, s) ==
  LET n == req[p].name
  IN  /\ Goes(p, "mint", Idle)
      /\ CreateSession(s, n)
      /\ limiter' = [limiter EXCEPT !["login"] = SucceedAll(@, loginKeys(n))]
      /\ UNCHANGED <<open, groups, users, invites>>

(***************************************************************************)
(* Scoped requests: TenantScope authenticates the session or device token, *)
(* RequireOwner looks at the role read with it, and the handler's          *)
(* transaction comes later.                                                *)
(***************************************************************************)
SessionAuth(s) == GetSessionForAuth(s).state = "live"
DeviceTokenAuth(d) == GetDeviceTokenForAuth(d).state = "live"

\* The chain asks the session's authenticator, then the device token's.
Authenticate(c) == IF c \in Session THEN SessionAuth(c) ELSE DeviceTokenAuth(c)

TenantScope(p, c) ==
  /\ Authenticate(c)
  /\ Goes(p, "idle", [pc |-> "scoped", name |-> creds[c].user, cred |-> c,
                      role |-> users[creds[c].user].role,
                      group |-> users[creds[c].user].group])
  /\ UNCHANGED <<open, groups, users, invites, creds, limiter>>

RequireOwner(p) == req[p].role = "owner"

Answers(p) == Goes(p, "scoped", Idle) /\ UNCHANGED <<open, groups, users, limiter>>

CreateInvite(i, g) == invites[i].state = "none" /\ invites' = InsertInvite(i, g)

\* Revoking a redeemed, expired or revoked invite changes nothing.
RevokeInvite(i, g) == GetInviteForRevoke(i, g) /\ invites' = ExpireInviteNow(i)

\* Users revoke their own sessions and device tokens; another's is not found.
RevokeSession(s, n) == GetSessionForRevoke(s, n) /\ creds' = SetSessionRevoked(s)
RevokeDeviceToken(d, n) == GetDeviceTokenForRevoke(d, n) /\ creds' = SetDeviceTokenRevoked(d)
RevokeCallingSession(s) == creds' = RevokeSessionByTokenHash(s)

inviteCreateHandler(p, i) ==
  RequireOwner(p) /\ CreateInvite(i, req[p].group) /\ Answers(p) /\ UNCHANGED creds
inviteRevokeHandler(p, i) ==
  RequireOwner(p) /\ RevokeInvite(i, req[p].group) /\ Answers(p) /\ UNCHANGED creds

\* Only a session may issue a device token.
deviceTokenIssueHandler(p, d) ==
  /\ req[p].cred \in Session
  /\ CreateDeviceToken(d, req[p].name) /\ Answers(p) /\ UNCHANGED invites
deviceTokenRevokeHandler(p, d) ==
  RevokeDeviceToken(d, req[p].name) /\ Answers(p) /\ UNCHANGED invites
sessionRevokeHandler(p, s) ==
  RevokeSession(s, req[p].name) /\ Answers(p) /\ UNCHANGED invites
logoutHandler(p) ==
  /\ req[p].cred \in Session
  /\ RevokeCallingSession(req[p].cred) /\ Answers(p) /\ UNCHANGED invites

(***************************************************************************)
(* The reset-password command, and time.                                   *)
(***************************************************************************)
ResetPassword(n, pw) ==
  /\ UserForLogin(n).role # "none" /\ users[n].resets < MaxResets
  /\ users' = [UpdateUserPasswordHash(n, pw) EXCEPT ![n].resets = @ + 1]
  /\ creds' = RevokeAllDeviceTokensForUser(RevokeAllSessionsForUser(creds, n), n)
  /\ UNCHANGED <<open, groups, invites, req, limiter>>

ExpireSession(s) ==
  /\ creds[s].state = "live"
  /\ creds' = [creds EXCEPT ![s] = Ended(creds, s)]
  /\ UNCHANGED <<open, groups, users, invites, req, limiter>>

ExpireInvite(i) ==
  /\ invites[i].state = "open"
  /\ invites' = [invites EXCEPT ![i].state = "expired"]
  /\ UNCHANGED <<open, groups, users, creds, req, limiter>>

Tick ==
  /\ \E l \in Limiter : \E k \in DOMAIN limiter[l] : limiter[l][k].wait > 0
  /\ limiter' = [l \in Limiter |-> Elapse(limiter[l])]
  /\ UNCHANGED <<open, groups, users, invites, creds, req>>

\* A restart drops the requests and the limiters, which live in memory; the
\* new binary may hash with other parameters.
Restart ==
  /\ req' = [p \in Proc |-> Idle]
  /\ limiter' = [l \in Limiter |-> <<>>]
  /\ \/ UNCHANGED users
     \/ users' = [n \in Name |-> [users[n] EXCEPT !.stale = Exists(n)]]
  /\ UNCHANGED <<open, groups, invites, creds>>

registerHandler(p) ==
  \/ RateLimited("register", <<"ip">>)
  \/ \E n \in Name, pw \in Password : RegisterBegin(p, n, pw)
  \/ RegisterRefused(p) \/ Register(p) \/ RegisterTooLate(p)
  \/ registerNewGroup(p) \/ RegisterNameTaken(p)

inviteRedeemHandler(p) ==
  \/ \E i \in Invite : RateLimited("redeem", redeemKeys(i))
  \/ \E i \in Invite, n \in Name, pw \in Password : RedeemBegin(p, i, n, pw)
  \/ \E i \in Invite : RedeemRefused(p, i)
  \/ Redeem(p) \/ RedeemRolledBack(p)

loginHandler(p) ==
  \/ \E n \in Name : RateLimited("login", loginKeys(n))
  \/ \E n \in Name, pw \in Password : LoginBegin(p, n, pw)
  \/ LoginRejected(p) \/ LoginVerified(p) \/ RehashPassword(p)
  \/ \E s \in Session : mintSession(p, s)

ScopedRequest(p) ==
  /\ req[p].pc = "scoped"
  /\ \/ \E i \in Invite : inviteCreateHandler(p, i) \/ inviteRevokeHandler(p, i)
     \/ \E d \in DeviceToken : deviceTokenIssueHandler(p, d) \/ deviceTokenRevokeHandler(p, d)
     \/ \E s \in Session : sessionRevokeHandler(p, s)
     \/ logoutHandler(p)

Next ==
  \/ \E p \in Proc : registerHandler(p) \/ inviteRedeemHandler(p) \/ loginHandler(p)
  \/ \E p \in Proc : ScopedRequest(p) \/ \E c \in Credential : TenantScope(p, c)
  \/ \E n \in Name, pw \in Password : ResetPassword(n, pw)
  \/ \E s \in Session : ExpireSession(s)
  \/ \E i \in Invite : ExpireInvite(i)
  \/ Tick \/ Restart

\* Time passes.
Spec == Init /\ [][Next]_vars /\ WF_vars(Tick)

-----------------------------------------------------------------------------
(***************************************************************************)
(* Properties                                                              *)
(***************************************************************************)

\* Types, and the shape of the limiters: within MaxEntries, one entry per
\* key, no wait beyond MaxDelay however often an attempt fails.
TypeOK ==
  /\ groups \subseteq Group
  /\ \A n \in Name : users[n].role \in {"none", "owner", "member"}
  /\ \A i \in Invite : invites[i].state \in {"none", "open", "revoked", "expired"}
  /\ \A c \in Credential : creds[c].state \in {"none", "live", "ended"}
  /\ \A l \in Limiter :
       /\ Len(limiter[l]) <= MaxEntries
       /\ \A j, k \in DOMAIN limiter[l] :
            limiter[l][j].key = limiter[l][k].key => j = k
       /\ \A k \in DOMAIN limiter[l] : limiter[l][k].wait <= MaxDelay

\* Racing registrations found one household: unless registration is open
\* there is at most one group, and every group has exactly one owner.
OneFirstGroup ==
  /\ open \/ Cardinality(groups) <= 1
  /\ \A g \in groups :
       Cardinality({n \in Name : users[n].group = g /\ users[n].role = "owner"}) = 1

\* An invite admits one member: it is marked redeemed exactly when the one
\* user that came in with it exists, whichever requests race for it, and a
\* redemption that fails on a taken username does not use it up.
OneMemberPerInvite ==
  \A i \in Invite :
    {n \in Name : users[n].invite = i} =
      IF invites[i].redeemedBy = None THEN {} ELSE {invites[i].redeemedBy}

\* A password reset ends every session and device token issued before it,
\* whatever requests are in flight.  (A login that verified the old password
\* before the reset may still mint its session after it.)
ResetCutsOff ==
  \A c \in Credential :
    creds[c].state = "live" => creds[c].resets = users[creds[c].user].resets

\* Nobody is locked out for good: a key that has to wait is let in again,
\* since refused attempts do not extend the wait.
KeysOf(l) ==
  {"ip"} \cup CASE l = "login" -> Name [] l = "redeem" -> Invite [] l = "register" -> {}
Unblocks ==
  \A l \in Limiter : \A key \in KeysOf(l) :
    ~Allow(limiter[l], key) ~> Allow(limiter[l], key)
=============================================================================
