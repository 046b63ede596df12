----------------------------- MODULE HumanAuth -----------------------------
(***************************************************************************)
(* Human accounts of the cflab Worker: password logins, bearer sessions,   *)
(* single-use setup links (invitations and recovery links) and the admin   *)
(* operations on accounts.                                                 *)
(*                                                                         *)
(* One D1 statement, or one D1 batch, is one atomic step.  Everything a    *)
(* handler does between two of its awaits is local, so a request in flight *)
(* is a record [pc, locals] and any number of other steps may run between  *)
(* two steps of it.  A request may also stop for good between two steps:   *)
(* a rejected input, a failed statement and an evicted isolate all end it  *)
(* with the statements it has already run in place.                        *)
(***************************************************************************)
EXTENDS Naturals, FiniteSets

CONSTANTS
  Users,      \* e-mail addresses an account can have
  Passwords,  \* passwords people choose
  Tokens,     \* setup links that can be issued, each at most once
  Sessions,   \* session rows that can be inserted, each at most once
  Requests,   \* slots for requests in flight
  Root,       \* the account the operator bootstrap inserts
  RootPassword, \* and the password it has
  None        \* SQL NULL, and the unset local of a request

ASSUME ConstantsAssumption ==
  /\ Root \in Users
  /\ RootPassword \in Passwords
  /\ None \notin Users \cup Passwords \cup Tokens \cup Sessions

VARIABLES
  users,      \* table users
  tokens,     \* table password_reset_tokens
  sessions,   \* table sessions
  req         \* the requests in flight

vars == <<users, tokens, sessions, req>>

Purposes == {"recovery", "invite"}

(***************************************************************************)
(* invite_status is NULL ("none"), 'failed', or 'sent' together with an    *)
(* expires_at copied from the issued token: that token stands for both.    *)
(***************************************************************************)
InviteStates == {"none", "failed", "sent"}

UserRow ==
  [exists : BOOLEAN, active : BOOLEAN, admin : BOOLEAN,
   pw : Passwords \cup {None}, invite : InviteStates,
   inviteToken : Tokens \cup {None}]

TokenRow ==
  [state : {"unissued", "unused", "used"}, owner : Users \cup {None},
   purpose : Purposes, expired : BOOLEAN, mailed : BOOLEAN]

(* cred is the password the login that minted the session had verified. *)
SessionRow ==
  [state : {"free", "live", "revoked", "expired"}, user : Users \cup {None},
   cred : Passwords \cup {None}]

Steps ==
  {"idle", "login_insert", "change_read", "change_write", "forgot_issue",
   "forgot_mail", "reset_claim", "reset_write", "admin", "patch_count",
   "patch_write", "deliver_issue", "deliver_mail", "deliver_undo",
   "deliver_failed", "deliver_sent"}

Request ==
  [pc : Steps, user : Users \cup {None}, token : Tokens \cup {None},
   pw : Passwords \cup {None}, purpose : Purposes,
   rowActive : BOOLEAN, active : BOOLEAN, admin : BOOLEAN]

TypeOK ==
  /\ users \in [Users -> UserRow]
  /\ tokens \in [Tokens -> TokenRow]
  /\ sessions \in [Sessions -> SessionRow]
  /\ req \in [Requests -> Request]

Idle ==
  [pc |-> "idle", user |-> None, token |-> None, pw |-> None,
   purpose |-> "recovery", rowActive |-> FALSE, active |-> FALSE,
   admin |-> FALSE]

NoAccount ==
  [exists |-> FALSE, active |-> FALSE, admin |-> FALSE, pw |-> None,
   invite |-> "none", inviteToken |-> None]

(* The operator bootstrap is over: the first administrator, inserted in D1 *)
(* by hand, has redeemed the link inserted with it.                        *)
RootAccount ==
  [NoAccount EXCEPT !.exists = TRUE, !.active = TRUE, !.admin = TRUE,
                    !.pw = RootPassword]

Init ==
  /\ users = [u \in Users |-> IF u = Root THEN RootAccount ELSE NoAccount]
  /\ tokens = [t \in Tokens |-> [state |-> "unissued", owner |-> None,
                                 purpose |-> "recovery", expired |-> FALSE,
                                 mailed |-> FALSE]]
  /\ sessions = [s \in Sessions |-> [state |-> "free", user |-> None,
                                     cred |-> None]]
  /\ req = [r \in Requests |-> Idle]

-----------------------------------------------------------------------------
(* Helpers: rows, sessions and tokens as the statements see them.          *)

Open(r, request) ==
  /\ req[r].pc = "idle"
  /\ req' = [req EXCEPT ![r] = request]

Goto(r, pc) == req' = [req EXCEPT ![r].pc = pc]

End(r) == req' = [req EXCEPT ![r] = Idle]

(* sessionUser: the row the bearer token finds, if it may be used. *)
Authenticated(s) ==
  /\ sessions[s].state = "live"
  /\ users[sessions[s].user].active

(* The sessions table after every live session of u is revoked. *)
Revoked(u) ==
  [s \in Sessions |->
     IF sessions[s].state = "live" /\ sessions[s].user = u
     THEN [sessions[s] EXCEPT !.state = "revoked"]
     ELSE sessions[s]]

(* Mutant of Spent: the sibling tokens are left alone. *)
SpentNothing(u) == tokens

(* The tokens table after every unused token of u is marked used. *)
Spent(u) ==
  [t \in Tokens |->
     IF tokens[t].state = "unused" /\ tokens[t].owner = u
     THEN [tokens[t] EXCEPT !.state = "used"]
     ELSE tokens[t]]

Fresh(u, purpose) ==
  [state |-> "unused", owner |-> u, purpose |-> purpose,
   expired |-> FALSE, mailed |-> FALSE]

(* issueResetToken: one batch that spends the siblings and inserts t. *)
IssueResetToken(t, u, purpose) ==
  /\ tokens[t].state = "unissued"
  /\ tokens' = [Spent(u) EXCEPT ![t] = Fresh(u, purpose)]

-----------------------------------------------------------------------------
(* POST /login, POST /logout and the passing of a session's lifetime.      *)

LoginVerify(r, u, p) ==
  /\ users[u].active
  /\ users[u].pw = p
  /\ Open(r, [Idle EXCEPT !.pc = "login_insert", !.user = u, !.pw = p])
  /\ UNCHANGED <<users, tokens, sessions>>

(* createSession does not look at the account again. *)
LoginInsert(r, s) ==
  /\ req[r].pc = "login_insert"
  /\ sessions[s].state = "free"
  /\ sessions' = [sessions EXCEPT ![s] =
       [state |-> "live", user |-> req[r].user, cred |-> req[r].pw]]
  /\ End(r)
  /\ UNCHANGED <<users, tokens>>

Logout(s) ==
  /\ sessions[s].state = "live"
  /\ sessions' = [sessions EXCEPT ![s].state = "revoked"]
  /\ UNCHANGED <<users, tokens, req>>

SessionExpires(s) ==
  /\ sessions[s].state = "live"
  /\ sessions' = [sessions EXCEPT ![s].state = "expired"]
  /\ UNCHANGED <<users, tokens, req>>

-----------------------------------------------------------------------------
(* POST /change-password: the session check, the read and verification of  *)
(* the current password p, and the batch.  The new password is an input;   *)
(* it is chosen at the step that stores it.                                *)

ChangeAuthenticate(r, s, p) ==
  /\ Authenticated(s)
  /\ Open(r, [Idle EXCEPT !.pc = "change_read", !.pw = p,
                          !.user = sessions[s].user])
  /\ UNCHANGED <<users, tokens, sessions>>

ChangeVerify(r) ==
  /\ req[r].pc = "change_read"
  /\ req[r].pw = users[req[r].user].pw
  /\ Goto(r, "change_write")
  /\ UNCHANGED <<users, tokens, sessions>>

(* Mutant of ChangeWrite: the batch forgets the sessions. *)
ChangeWriteKeepsSessions(r, p) ==
  /\ req[r].pc = "change_write"
  /\ users' = [users EXCEPT ![req[r].user].pw = p]
  /\ End(r)
  /\ UNCHANGED <<tokens, sessions>>

ChangeWrite(r, p) ==
  /\ req[r].pc = "change_write"
  /\ users' = [users EXCEPT ![req[r].user].pw = p]
  /\ sessions' = Revoked(req[r].user)
  /\ End(r)
  /\ UNCHANGED tokens

-----------------------------------------------------------------------------
(* POST /forgot-password: works for every active account, with or without  *)
(* a password.  A mail failure is only logged, so its token stays unused;  *)
(* a failure reported by the provider may follow an actual delivery.       *)

ForgotRead(r, u) ==
  /\ users[u].active
  /\ Open(r, [Idle EXCEPT !.pc = "forgot_issue", !.user = u])
  /\ UNCHANGED <<users, tokens, sessions>>

ForgotIssue(r, t) ==
  /\ req[r].pc = "forgot_issue"
  /\ IssueResetToken(t, req[r].user, "recovery")
  /\ req' = [req EXCEPT ![r].pc = "forgot_mail", ![r].token = t]
  /\ UNCHANGED <<users, sessions>>

ForgotMail(r) ==
  /\ req[r].pc = "forgot_mail"
  /\ \E arrived \in BOOLEAN :
       tokens' = [tokens EXCEPT ![req[r].token].mailed = @ \/ arrived]
  /\ End(r)
  /\ UNCHANGED <<users, sessions>>

TokenExpires(t) ==
  /\ tokens[t].state = "unused" /\ ~tokens[t].expired
  /\ tokens' = [tokens EXCEPT ![t].expired = TRUE]
  /\ UNCHANGED <<users, sessions, req>>

-----------------------------------------------------------------------------
(* POST /reset-password: validate the link and its account, claim the link *)
(* with a conditional UPDATE, hash the password, and write the batch.      *)

(* Mutant of Redeemable: an invitation is honoured whatever the account has. *)
RedeemableAlways(t) ==
  /\ tokens[t].state = "unused" /\ ~tokens[t].expired
  /\ users[tokens[t].owner].active

Redeemable(t) ==
  /\ tokens[t].state = "unused" /\ ~tokens[t].expired
  /\ users[tokens[t].owner].active
  /\ tokens[t].purpose = "invite" => users[tokens[t].owner].pw = None

ResetRead(r, t) ==
  /\ tokens[t].mailed
  /\ Redeemable(t)
  /\ Open(r, [Idle EXCEPT !.pc = "reset_claim", !.token = t,
                          !.user = tokens[t].owner])
  /\ UNCHANGED <<users, tokens, sessions>>

(* Mutant of ResetClaim: the UPDATE does not ask for used_at IS NULL. *)
ResetClaimBlind(r) ==
  LET t == req[r].token IN
  /\ req[r].pc = "reset_claim"
  /\ tokens' = [tokens EXCEPT ![t].state = "used"]
  /\ Goto(r, "reset_write")
  /\ UNCHANGED <<users, sessions>>

(* The UPDATE compares expires_at with the time of the validation, so a     *)
(* link that expires in between can still be claimed.                      *)
ResetClaim(r) ==
  LET t == req[r].token IN
  /\ req[r].pc = "reset_claim"
  /\ tokens[t].state = "unused"
  /\ tokens' = [tokens EXCEPT ![t].state = "used"]
  /\ Goto(r, "reset_write")
  /\ UNCHANGED <<users, sessions>>

(* Mutant of ResetWrite: the batch leaves the account's other links alone. *)
ResetWriteKeepsLinks(r, p) ==
  LET u == req[r].user IN
  /\ req[r].pc = "reset_write"
  /\ users' = [users EXCEPT ![u].pw = p, ![u].invite = "none",
                            ![u].inviteToken = None]
  /\ sessions' = Revoked(u)
  /\ End(r)
  /\ UNCHANGED tokens

ResetWrite(r, p) ==
  LET u == req[r].user IN
  /\ req[r].pc = "reset_write"
  /\ users' = [users EXCEPT ![u].pw = p, ![u].invite = "none",
                            ![u].inviteToken = None]
  /\ tokens' = Spent(u)
  /\ sessions' = Revoked(u)
  /\ End(r)

-----------------------------------------------------------------------------
(* Admin routes: requireHumanAdmin looks at the session once, then the     *)
(* handler runs.                                                           *)

AdminStart(r, s) ==
  /\ Authenticated(s)
  /\ users[sessions[s].user].admin
  /\ Open(r, [Idle EXCEPT !.pc = "admin"])
  /\ UNCHANGED <<users, tokens, sessions>>

(* POST /admin/users; a taken e-mail is a 409. *)
CreateUser(r, u, isAdmin) ==
  /\ req[r].pc = "admin"
  /\ ~users[u].exists
  /\ users' = [users EXCEPT ![u] = [NoAccount EXCEPT !.exists = TRUE,
                                      !.active = TRUE, !.admin = isAdmin]]
  /\ req' = [req EXCEPT ![r].pc = "deliver_issue", ![r].user = u,
                        ![r].purpose = "invite"]
  /\ UNCHANGED <<tokens, sessions>>

(* PATCH /admin/users/:id reads the row, fills the fields the body leaves  *)
(* out from it (the row's value is one of the values of active and isAdmin)*)
(* and asks for another administrator only if this row is an active one    *)
(* about to stop being so.                                                 *)
PatchRead(r, u, active, isAdmin) ==
  /\ req[r].pc = "admin"
  /\ users[u].exists
  /\ req' = [req EXCEPT ![r] =
       [Idle EXCEPT !.user = u, !.rowActive = users[u].active,
          !.active = active, !.admin = isAdmin,
          !.pc = IF users[u].admin /\ users[u].active /\ ~(active /\ isAdmin)
                 THEN "patch_count" ELSE "patch_write"]]
  /\ UNCHANGED <<users, tokens, sessions>>

(* Mutant of PatchCount: the row itself is counted (no id != ?). *)
PatchCountSelf(r) ==
  /\ req[r].pc = "patch_count"
  /\ \E v \in Users : users[v].active /\ users[v].admin
  /\ Goto(r, "patch_write")
  /\ UNCHANGED <<users, tokens, sessions>>

PatchCount(r) ==
  /\ req[r].pc = "patch_count"
  /\ \E v \in Users \ {req[r].user} : users[v].active /\ users[v].admin
  /\ Goto(r, "patch_write")
  /\ UNCHANGED <<users, tokens, sessions>>

(* Mutant of PatchWrite: deactivation leaves the sessions usable. *)
PatchWriteKeepsSessions(r) ==
  /\ req[r].pc = "patch_write"
  /\ users' = [users EXCEPT ![req[r].user].active = req[r].active,
                            ![req[r].user].admin = req[r].admin]
  /\ End(r)
  /\ UNCHANGED <<tokens, sessions>>

(* Both columns are written, from the body or from the row read earlier. *)
PatchWrite(r) ==
  LET u == req[r].user IN
  /\ req[r].pc = "patch_write"
  /\ users' = [users EXCEPT ![u].active = req[r].active,
                            ![u].admin = req[r].admin]
  /\ sessions' = IF req[r].rowActive /\ ~req[r].active THEN Revoked(u)
                 ELSE sessions
  /\ End(r)
  /\ UNCHANGED tokens

RevokeSessions(r, u) ==
  /\ req[r].pc = "admin"
  /\ users[u].exists
  /\ sessions' = Revoked(u)
  /\ End(r)
  /\ UNCHANGED <<users, tokens>>

(* POST /:id/send-password-setup: the purpose follows from the row read here. *)
ResendRead(r, u) ==
  /\ req[r].pc = "admin"
  /\ users[u].active
  /\ req' = [req EXCEPT ![r].pc = "deliver_issue", ![r].user = u,
       ![r].purpose = IF users[u].pw = None THEN "invite" ELSE "recovery"]
  /\ UNCHANGED <<users, tokens, sessions>>

-----------------------------------------------------------------------------
(* deliverSetupLink: issue, mail, and record the outcome.                  *)

DeliverIssue(r, t) ==
  /\ req[r].pc = "deliver_issue"
  /\ IssueResetToken(t, req[r].user, req[r].purpose)
  /\ req' = [req EXCEPT ![r].pc = "deliver_mail", ![r].token = t]
  /\ UNCHANGED <<users, sessions>>

DeliverIssueFails(r) ==
  /\ req[r].pc = "deliver_issue"
  /\ Goto(r, "deliver_failed")
  /\ UNCHANGED <<users, tokens, sessions>>

(* Mutant of DeliverMail: the provider's failure is swallowed. *)
DeliverMailIgnoresFailure(r) ==
  /\ req[r].pc = "deliver_mail"
  /\ \E arrived \in BOOLEAN :
       tokens' = [tokens EXCEPT ![req[r].token].mailed = @ \/ arrived]
  /\ Goto(r, "deliver_sent")
  /\ UNCHANGED <<users, sessions>>

DeliverMail(r) ==
  /\ req[r].pc = "deliver_mail"
  /\ \E arrived, reported \in BOOLEAN :
       /\ reported => arrived
       /\ tokens' = [tokens EXCEPT ![req[r].token].mailed = @ \/ arrived]
       /\ Goto(r, IF reported THEN "deliver_sent" ELSE "deliver_undo")
  /\ UNCHANGED <<users, sessions>>

(* A token that was not delivered is invalidated before the outcome is     *)
(* recorded on the account.                                                *)
DeliverUndo(r) ==
  /\ req[r].pc = "deliver_undo"
  /\ tokens' = [tokens EXCEPT ![req[r].token].state = "used"]
  /\ Goto(r, "deliver_failed")
  /\ UNCHANGED <<users, sessions>>

DeliverFailed(r) ==
  /\ req[r].pc = "deliver_failed"
  /\ users' = [users EXCEPT ![req[r].user].invite = "failed",
                            ![req[r].user].inviteToken = None]
  /\ End(r)
  /\ UNCHANGED <<tokens, sessions>>

(* Mutant of DeliverSent: the displayed status is stored. *)
DeliverSentAsPending(r) ==
  /\ req[r].pc = "deliver_sent"
  /\ users' = [users EXCEPT ![req[r].user].invite = "pending",
                            ![req[r].user].inviteToken = req[r].token]
  /\ End(r)
  /\ UNCHANGED <<tokens, sessions>>

DeliverSent(r) ==
  /\ req[r].pc = "deliver_sent"
  /\ users' = [users EXCEPT ![req[r].user].invite = "sent",
                            ![req[r].user].inviteToken = req[r].token]
  /\ End(r)
  /\ UNCHANGED <<tokens, sessions>>

(* The request is rejected, fails or dies between two statements. *)
Stop(r) ==
  /\ req[r].pc # "idle"
  /\ End(r)
  /\ UNCHANGED <<users, tokens, sessions>>

-----------------------------------------------------------------------------
SessionNext ==
  \/ \E r \in Requests, u \in Users, p \in Passwords : LoginVerify(r, u, p)
  \/ \E r \in Requests, s \in Sessions : LoginInsert(r, s)
  \/ \E s \in Sessions : Logout(s) \/ SessionExpires(s)
  \/ \E r \in Requests, s \in Sessions, p \in Passwords :
       ChangeAuthenticate(r, s, p)
  \/ \E r \in Requests : ChangeVerify(r)
  \/ \E r \in Requests, p \in Passwords : ChangeWrite(r, p)

LinkNext ==
  \/ \E r \in Requests, u \in Users : ForgotRead(r, u)
  \/ \E r \in Requests, t \in Tokens : ForgotIssue(r, t)
  \/ \E r \in Requests : ForgotMail(r)
  \/ \E t \in Tokens : TokenExpires(t)
  \/ \E r \in Requests, t \in Tokens : ResetRead(r, t)
  \/ \E r \in Requests : ResetClaim(r)
  \/ \E r \in Requests, p \in Passwords : ResetWrite(r, p)

AdminNext ==
  \/ \E r \in Requests, s \in Sessions : AdminStart(r, s)
  \/ \E r \in Requests, u \in Users, isAdmin \in BOOLEAN :
       CreateUser(r, u, isAdmin)
  \/ \E r \in Requests, u \in Users, active, isAdmin \in BOOLEAN :
       PatchRead(r, u, active, isAdmin)
  \/ \E r \in Requests : PatchCount(r) \/ PatchWrite(r)
  \/ \E r \in Requests, u \in Users : RevokeSessions(r, u) \/ ResendRead(r, u)
  \/ \E r \in Requests, t \in Tokens : DeliverIssue(r, t)
  \/ \E r \in Requests :
       \/ DeliverIssueFails(r)
       \/ DeliverMail(r)
       \/ DeliverUndo(r)
       \/ DeliverFailed(r)
       \/ DeliverSent(r)

Next ==
  \/ SessionNext
  \/ LinkNext
  \/ AdminNext
  \/ \E r \in Requests : Stop(r)

Spec == Init /\ [][Next]_vars

-----------------------------------------------------------------------------
(* Properties that hold however requests overlap.                          *)

(* An account never has two unused setup links, however many invitations,  *)
(* resends and forgot-password requests race (issueResetToken's batch).    *)
OneUnusedLink ==
  \A t1, t2 \in Tokens :
    /\ tokens[t1].state = "unused" /\ tokens[t2].state = "unused"
    /\ tokens[t1].owner = tokens[t2].owner
    => t1 = t2

(* A link is claimed by one request at most: concurrent submissions of the *)
(* same link cannot both reach the credential batch.                       *)
ClaimIsExclusive ==
  \A r1, r2 \in Requests :
    /\ req[r1].pc = "reset_write" /\ req[r2].pc = "reset_write"
    /\ req[r1].token = req[r2].token
    => r1 = r2

(* Between validating an invitation and claiming it other requests may set *)
(* the password; then the claim must fail.  So while a validated invitation*)
(* is still unused its account has no password.                            *)
ValidatedInviteIsCurrent ==
  \A r \in Requests :
    LET t == req[r].token IN
    /\ req[r].pc = "reset_claim"
    /\ tokens[t].state = "unused"
    /\ tokens[t].purpose = "invite"
    => users[tokens[t].owner].pw = None

(* The admin UI never shows an invitation as sent unless the link it        *)
(* refers to did reach the recipient, whatever deliveries overlapped.       *)
SentInviteArrived ==
  \A u \in Users :
    users[u].invite = "sent" =>
      /\ tokens[users[u].inviteToken].owner = u
      /\ tokens[users[u].inviteToken].mailed

Holds(r, t, pc) == req[r].pc = pc /\ req[r].token = t

(* How this module implements SetupLinks: a link is live while its row is  *)
(* unused and either unexpired or validated by a request before it expired,*)
(* claimed while the request that spent it still has its batch to write,   *)
(* and dead otherwise.                                                     *)
LinkState(t) ==
  IF tokens[t].state = "unissued" THEN "none"
  ELSE IF tokens[t].state = "unused"
    THEN IF tokens[t].expired => \E r \in Requests : Holds(r, t, "reset_claim")
         THEN "live" ELSE "dead"
  ELSE IF \E r \in Requests : Holds(r, t, "reset_write")
    THEN "claimed" ELSE "dead"

Links == INSTANCE SetupLinks WITH
  link <- [t \in Tokens |-> LinkState(t)],
  owner <- [t \in Tokens |-> tokens[t].owner],
  purpose <- [t \in Tokens |-> tokens[t].purpose],
  password <- [u \in Users |-> users[u].pw]

(* Every behaviour of the handlers is one the setup links promise: no link *)
(* is redeemed twice, no invitation is claimed for an account that has a   *)
(* password, and a stored password only changes through a claimed link or  *)
(* by somebody who verified the old one.                                   *)
ImplementsSetupLinks == Links!Spec

-----------------------------------------------------------------------------
(* Promises of docs/AUTH.md that the handlers keep only one at a time: they *)
(* are checked with a single request slot, and refuted with two.            *)

(* "the last active administrator cannot be deactivated or demoted"        *)
SomeActiveAdmin == \E u \in Users : users[u].active /\ users[u].admin

(* "Deactivating a user revokes all their sessions immediately": no usable *)
(* session waits behind an inactive account for its reactivation.          *)
InactiveHasNoSession ==
  \A s \in Sessions :
    sessions[s].state = "live" => users[sessions[s].user].active

(* "A password change or password reset revokes all sessions and requires  *)
(* a fresh login": a usable session was minted with the current password.  *)
SessionsHaveCurrentPassword ==
  \A s \in Sessions :
    sessions[s].state = "live" =>
      sessions[s].cred = users[sessions[s].user].pw
=============================================================================
