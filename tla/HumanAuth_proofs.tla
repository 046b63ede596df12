-------------------------- MODULE HumanAuth_proofs --------------------------
(***************************************************************************)
(* Proofs about HumanAuth for every number of accounts, links, sessions    *)
(* and overlapping requests.                                               *)
(***************************************************************************)
EXTENDS HumanAuth, TLAPS

WithUser ==
  {"login_insert", "change_read", "change_write", "forgot_issue",
   "forgot_mail", "reset_claim", "reset_write", "patch_count", "patch_write",
   "deliver_issue", "deliver_mail", "deliver_undo", "deliver_failed",
   "deliver_sent"}

WithToken ==
  {"forgot_mail", "reset_claim", "reset_write", "deliver_mail",
   "deliver_undo", "deliver_sent"}

(* What the request in flight in slot r may rely on: its locals name rows  *)
(* that are still there, because no row is ever deleted.                   *)
LocalsOf(r) ==
  /\ req[r].pc \in WithUser =>
       req[r].user \in Users /\ users[req[r].user].exists
  /\ req[r].pc \in WithToken =>
       /\ req[r].token \in Tokens
       /\ tokens[req[r].token].state # "unissued"
       /\ tokens[req[r].token].owner = req[r].user
  /\ req[r].pc = "change_read" => req[r].pw # None
  /\ req[r].pc = "change_write" => users[req[r].user].pw # None
  /\ req[r].pc = "reset_write" => tokens[req[r].token].state = "used"
  /\ req[r].pc = "deliver_sent" => tokens[req[r].token].mailed = TRUE

LocalsOK == \A r \in Requests : LocalsOf(r)

(* Foreign keys, and accounts that are not there have nothing stored.      *)
OwnersExist ==
  \A t \in Tokens : tokens[t].state # "unissued" =>
    tokens[t].owner \in Users /\ users[tokens[t].owner].exists

SessionUsersExist ==
  \A s \in Sessions : sessions[s].state = "live" => sessions[s].user \in Users

AbsentIsEmpty ==
  \A u \in Users : ~users[u].exists => users[u].pw = None /\ ~users[u].active

SentOf(u) ==
  users[u].invite = "sent" =>
    /\ users[u].inviteToken \in Tokens
    /\ tokens[users[u].inviteToken].state # "unissued"
    /\ tokens[users[u].inviteToken].owner = u
    /\ tokens[users[u].inviteToken].mailed = TRUE

RowsOK ==
  /\ OwnersExist
  /\ SessionUsersExist
  /\ AbsentIsEmpty
  /\ \A u \in Users : SentOf(u)

(* The inductive invariant.                                                *)
Inv ==
  /\ TypeOK
  /\ LocalsOK
  /\ RowsOK
  /\ OneUnusedLink
  /\ ClaimIsExclusive
  /\ ValidatedInviteIsCurrent

-----------------------------------------------------------------------------
(* What the helpers return.                                                *)

LEMMA RevokedType ==
  ASSUME TypeOK, NEW u \in Users
  PROVE  Revoked(u) \in [Sessions -> SessionRow]
BY DEF Revoked, TypeOK, SessionRow

LEMMA SpentType ==
  ASSUME TypeOK, NEW u \in Users
  PROVE  Spent(u) \in [Tokens -> TokenRow]
BY DEF Spent, TypeOK, TokenRow

LEMMA FreshType ==
  ASSUME NEW u \in Users, NEW purpose \in Purposes
  PROVE  Fresh(u, purpose) \in TokenRow
BY DEF Fresh, TokenRow

LEMMA IdleType == Idle \in Request
BY DEF Idle, Request, Steps, Purposes

(* Issuing t puts an unused row there, and touches no other row beyond     *)
(* marking it used.                                                        *)
Issued(t, u, purpose) ==
  /\ tokens[t].state = "unissued"
  /\ tokens'[t].state = "unused"
  /\ tokens'[t].owner = u
  /\ tokens'[t].purpose = purpose
  /\ tokens'[t].mailed = FALSE
  /\ tokens'[t].expired = FALSE
  /\ \A x \in Tokens \ {t} :
       /\ tokens'[x].owner = tokens[x].owner
       /\ tokens'[x].purpose = tokens[x].purpose
       /\ tokens'[x].mailed = tokens[x].mailed
       /\ tokens'[x].expired = tokens[x].expired
       /\ tokens'[x].state =
            IF tokens[x].state = "unused" /\ tokens[x].owner = u
            THEN "used" ELSE tokens[x].state

LEMMA IssueEffect ==
  ASSUME TypeOK, NEW t \in Tokens, NEW u \in Users, NEW purpose \in Purposes,
         IssueResetToken(t, u, purpose)
  PROVE  tokens' \in [Tokens -> TokenRow] /\ Issued(t, u, purpose)
<1>1. tokens' = [Spent(u) EXCEPT ![t] = Fresh(u, purpose)]
  BY DEF IssueResetToken
<1>2. tokens' \in [Tokens -> TokenRow]
  BY <1>1, SpentType, FreshType
<1>3. tokens'[t] = Fresh(u, purpose)
  BY <1>1, SpentType
<1>4. ASSUME NEW x \in Tokens \ {t}
      PROVE  tokens'[x] = Spent(u)[x]
  BY <1>1, SpentType
<1>5. QED
  BY <1>2, <1>3, <1>4 DEF Issued, IssueResetToken, Fresh, Spent, TypeOK, TokenRow

THEOREM InitInv == Init => Inv
<1> SUFFICES ASSUME Init PROVE Inv
  OBVIOUS
<1>1. TypeOK
  BY ConstantsAssumption, IdleType
  DEF Init, TypeOK, UserRow, TokenRow, SessionRow, RootAccount, NoAccount,
      InviteStates, Purposes
<1>2. LocalsOK
  BY DEF Init, LocalsOK, LocalsOf, Idle, WithUser, WithToken
<1>3. RowsOK
  BY DEF Init, RowsOK, OwnersExist, SessionUsersExist, AbsentIsEmpty, SentOf,
      RootAccount, NoAccount
<1>4. OneUnusedLink /\ ClaimIsExclusive /\ ValidatedInviteIsCurrent
  BY DEF Init, OneUnusedLink, ClaimIsExclusive, ValidatedInviteIsCurrent, Idle
<1>5. QED
  BY <1>1, <1>2, <1>3, <1>4 DEF Inv

LEMMA SessionsTyped ==
  ASSUME TypeOK, LocalsOK, Next
  PROVE  sessions' \in [Sessions -> SessionRow]
<1>1. ASSUME NEW r \in Requests, NEW s \in Sessions, LoginInsert(r, s)
      PROVE  sessions' \in [Sessions -> SessionRow]
  BY <1>1 DEF LoginInsert, TypeOK, SessionRow, Request
<1>2. ASSUME NEW s \in Sessions, Logout(s) \/ SessionExpires(s)
      PROVE  sessions' \in [Sessions -> SessionRow]
  BY SMTT(30), <1>2 DEF Logout, SessionExpires, TypeOK, SessionRow
<1>3. ASSUME NEW u \in Users, sessions' = Revoked(u)
      PROVE  sessions' \in [Sessions -> SessionRow]
  BY <1>3, RevokedType
<1>4. ASSUME UNCHANGED sessions
      PROVE  sessions' \in [Sessions -> SessionRow]
  BY <1>4 DEF TypeOK
<1>5. ASSUME NEW r \in Requests, NEW p \in Passwords,
             ChangeWrite(r, p) \/ ResetWrite(r, p)
      PROVE  sessions' \in [Sessions -> SessionRow]
  BY <1>5, <1>3 DEF ChangeWrite, ResetWrite, LocalsOK, LocalsOf, WithUser
<1>8. ASSUME NEW r \in Requests, PatchWrite(r)
      PROVE  sessions' \in [Sessions -> SessionRow]
  BY <1>8, <1>3, <1>4 DEF PatchWrite, LocalsOK, LocalsOf, WithUser
<1>6. ASSUME NEW r \in Requests, NEW u \in Users, RevokeSessions(r, u)
      PROVE  sessions' \in [Sessions -> SessionRow]
  BY <1>6, <1>3 DEF RevokeSessions
<1>7. QED
  BY <1>1, <1>2, <1>4, <1>5, <1>6, <1>8
  DEF Next, SessionNext, LinkNext, AdminNext, LoginVerify, ChangeAuthenticate,
      ChangeVerify, ForgotRead, ForgotIssue, ForgotMail, TokenExpires, ResetRead,
      ResetClaim, AdminStart, CreateUser, PatchRead, PatchCount, ResendRead,
      DeliverIssue, DeliverIssueFails, DeliverMail, DeliverUndo, DeliverFailed,
      DeliverSent, Stop

LEMMA UsersTyped ==
  ASSUME TypeOK, LocalsOK, Next
  PROVE  users' \in [Users -> UserRow]
<1>1. ASSUME NEW r \in Requests, NEW p \in Passwords, ChangeWrite(r, p)
      PROVE  users' \in [Users -> UserRow]
  BY ZenonT(60), <1>1 DEF ChangeWrite, TypeOK, UserRow
<1>2. ASSUME NEW r \in Requests, NEW p \in Passwords, ResetWrite(r, p)
      PROVE  users' \in [Users -> UserRow]
  <2> DEFINE u == req[r].user
             row == [users[u] EXCEPT !.pw = p, !.invite = "none",
                                     !.inviteToken = None]
  <2>1. u \in Users
    BY <1>2 DEF ResetWrite, LocalsOK, LocalsOf, WithUser
  <2>2. row \in UserRow
    <3>1. users[u] \in UserRow
      BY <2>1 DEF TypeOK
    <3>2. [users[u] EXCEPT !.pw = p] \in UserRow
      BY <3>1 DEF UserRow
    <3>3. QED
      BY <3>2 DEF UserRow, InviteStates
  <2>3. users' = [users EXCEPT ![u] = row]
    BY <1>2, <2>1 DEF ResetWrite, TypeOK
  <2>4. QED
    BY <2>1, <2>2, <2>3 DEF TypeOK
<1>3. ASSUME NEW r \in Requests, NEW u \in Users, NEW b \in BOOLEAN,
             CreateUser(r, u, b)
      PROVE  users' \in [Users -> UserRow]
  <2>1. [NoAccount EXCEPT !.exists = TRUE, !.active = TRUE, !.admin = b]
          \in UserRow
    BY DEF NoAccount, UserRow, InviteStates
  <2>2. QED
    BY <1>3, <2>1 DEF CreateUser, TypeOK
<1>4. ASSUME NEW r \in Requests, PatchWrite(r)
      PROVE  users' \in [Users -> UserRow]
  <2> DEFINE u == req[r].user
             row == [users[u] EXCEPT !.active = req[r].active,
                                     !.admin = req[r].admin]
  <2>1. u \in Users /\ req[r].active \in BOOLEAN /\ req[r].admin \in BOOLEAN
    BY <1>4 DEF PatchWrite, LocalsOK, LocalsOf, WithUser, TypeOK, Request
  <2>2. row \in UserRow
    BY ZenonT(60), <2>1 DEF TypeOK, UserRow
  <2>3. users' = [users EXCEPT ![u] = row]
    BY <1>4, <2>1 DEF PatchWrite, TypeOK
  <2>4. QED
    BY <2>1, <2>2, <2>3 DEF TypeOK
<1>5. ASSUME NEW r \in Requests, DeliverFailed(r) \/ DeliverSent(r)
      PROVE  users' \in [Users -> UserRow]
  BY SMTT(30), <1>5 DEF DeliverFailed, DeliverSent, TypeOK, UserRow, Request, InviteStates
<1>6. ASSUME UNCHANGED users
      PROVE  users' \in [Users -> UserRow]
  BY <1>6 DEF TypeOK
<1>7. QED
  BY <1>1, <1>2, <1>3, <1>4, <1>5, <1>6
  DEF Next, SessionNext, LinkNext, AdminNext, LoginVerify, LoginInsert, Logout,
      SessionExpires, ChangeAuthenticate, ChangeVerify, ForgotRead, ForgotIssue,
      ForgotMail, TokenExpires, ResetRead, ResetClaim, AdminStart, PatchRead,
      PatchCount, RevokeSessions, ResendRead, DeliverIssue, DeliverIssueFails,
      DeliverMail, DeliverUndo, Stop

LEMMA TokensTyped ==
  ASSUME TypeOK, LocalsOK, Next
  PROVE  tokens' \in [Tokens -> TokenRow]
<1>1. ASSUME NEW r \in Requests, NEW t \in Tokens,
             ForgotIssue(r, t) \/ DeliverIssue(r, t)
      PROVE  tokens' \in [Tokens -> TokenRow]
  <2>1. req[r].user \in Users /\ req[r].purpose \in Purposes
    BY <1>1 DEF ForgotIssue, DeliverIssue, LocalsOK, LocalsOf, WithUser, TypeOK, Request
  <2>2. QED
    BY <1>1, <2>1, IssueEffect DEF ForgotIssue, DeliverIssue, Purposes
<1>2. ASSUME NEW r \in Requests, ForgotMail(r) \/ DeliverMail(r)
      PROVE  tokens' \in [Tokens -> TokenRow]
  <2>1. PICK arrived \in BOOLEAN :
          tokens' = [tokens EXCEPT ![req[r].token].mailed = @ \/ arrived]
    BY <1>2 DEF ForgotMail, DeliverMail
  <2>2. ASSUME NEW t \in Tokens
        PROVE  [tokens[t] EXCEPT !.mailed = @ \/ arrived] \in TokenRow
    BY DEF TypeOK, TokenRow
  <2>3. QED
    BY <2>1, <2>2 DEF TypeOK
<1>3. ASSUME NEW r \in Requests, ResetClaim(r) \/ DeliverUndo(r)
      PROVE  tokens' \in [Tokens -> TokenRow]
  BY <1>3 DEF ResetClaim, DeliverUndo, TypeOK, TokenRow
<1>4. ASSUME NEW t \in Tokens, TokenExpires(t)
      PROVE  tokens' \in [Tokens -> TokenRow]
  BY <1>4 DEF TokenExpires, TypeOK, TokenRow
<1>5. ASSUME NEW r \in Requests, NEW p \in Passwords, ResetWrite(r, p)
      PROVE  tokens' \in [Tokens -> TokenRow]
  BY <1>5, SpentType DEF ResetWrite, LocalsOK, LocalsOf, WithUser
<1>6. ASSUME UNCHANGED tokens
      PROVE  tokens' \in [Tokens -> TokenRow]
  BY <1>6 DEF TypeOK
<1>7. QED
  BY <1>1, <1>2, <1>3, <1>4, <1>5, <1>6
  DEF Next, SessionNext, LinkNext, AdminNext, LoginVerify, LoginInsert, Logout,
      SessionExpires, ChangeAuthenticate, ChangeVerify, ChangeWrite, ForgotRead,
      ResetRead, AdminStart, CreateUser, PatchRead, PatchCount, PatchWrite,
      RevokeSessions, ResendRead, DeliverIssueFails, DeliverFailed, DeliverSent,
      Stop

LEMMA RequestsTyped ==
  ASSUME TypeOK, LocalsOK, RowsOK, Next
  PROVE  req' \in [Requests -> Request]
<1>1. ASSUME NEW r \in Requests, NEW request \in Request,
             req' = [req EXCEPT ![r] = request]
      PROVE  req' \in [Requests -> Request]
  BY <1>1 DEF TypeOK
<1>2. ASSUME NEW r \in Requests, NEW pc \in Steps, Goto(r, pc)
      PROVE  req' \in [Requests -> Request]
  BY <1>2 DEF Goto, TypeOK, Request
<1>3. ASSUME NEW r \in Requests, End(r)
      PROVE  req' \in [Requests -> Request]
  BY <1>1, <1>3, IdleType DEF End
<1>4. ASSUME UNCHANGED req
      PROVE  req' \in [Requests -> Request]
  BY <1>4 DEF TypeOK
<1>5. ASSUME NEW r \in Requests, NEW u \in Users,
             (\E p \in Passwords : LoginVerify(r, u, p)) \/ ForgotRead(r, u)
      PROVE  req' \in [Requests -> Request]
  BY <1>1, <1>5
  DEF LoginVerify, ForgotRead, Open, Idle, Request, Steps, Purposes
<1>11. ASSUME NEW r \in Requests, NEW s \in Sessions,
              (\E p \in Passwords : ChangeAuthenticate(r, s, p)) \/ AdminStart(r, s)
       PROVE  req' \in [Requests -> Request]
  BY <1>1, <1>11
  DEF ChangeAuthenticate, AdminStart, Open, Idle, Request, Steps, Purposes,
      TypeOK, SessionRow
<1>6. ASSUME NEW r \in Requests, NEW t \in Tokens,
             ForgotIssue(r, t) \/ DeliverIssue(r, t)
      PROVE  req' \in [Requests -> Request]
  BY <1>6 DEF ForgotIssue, DeliverIssue, TypeOK, Request, Steps
<1>7. ASSUME NEW r \in Requests, NEW t \in Tokens, ResetRead(r, t)
      PROVE  req' \in [Requests -> Request]
  <2>1. [Idle EXCEPT !.pc = "reset_claim", !.token = t, !.user = tokens[t].owner]
          \in Request
    BY DEF Idle, Request, Steps, Purposes, TypeOK, TokenRow
  <2>2. QED
    BY <1>1, <1>7, <2>1 DEF ResetRead, Open
<1>8. ASSUME NEW r \in Requests, NEW u \in Users,
             (\E b \in BOOLEAN : CreateUser(r, u, b)) \/ ResendRead(r, u)
      PROVE  req' \in [Requests -> Request]
  <2>1. PICK kind \in Purposes :
          req' = [req EXCEPT ![r].pc = "deliver_issue", ![r].user = u,
                             ![r].purpose = kind]
    BY <1>8 DEF CreateUser, ResendRead, Purposes
  <2> DEFINE next == [req[r] EXCEPT !.pc = "deliver_issue", !.user = u,
                                    !.purpose = kind]
  <2>2. next \in Request
    <3>1. req[r] \in Request
      BY DEF TypeOK
    <3>2. QED
      BY <3>1 DEF Request, Steps, Purposes
  <2>3. req' = [req EXCEPT ![r] = next]
    BY <2>1 DEF TypeOK
  <2>4. QED
    BY <1>1, <2>2, <2>3
<1>9. ASSUME NEW r \in Requests, NEW u \in Users, NEW b \in BOOLEAN,
             NEW c \in BOOLEAN, PatchRead(r, u, b, c)
      PROVE  req' \in [Requests -> Request]
  <2> DEFINE next == [Idle EXCEPT !.user = u, !.rowActive = users[u].active,
          !.active = b, !.admin = c,
          !.pc = IF users[u].admin /\ users[u].active /\ ~(b /\ c)
                 THEN "patch_count" ELSE "patch_write"]
  <2>1. next \in Request
    BY DEF Idle, Request, Steps, Purposes, TypeOK, UserRow
  <2>2. QED
    BY <1>1, <1>9, <2>1 DEF PatchRead
<1>12. ASSUME NEW r \in Requests, DeliverMail(r)
       PROVE  req' \in [Requests -> Request]
  BY <1>2, <1>12 DEF DeliverMail, Steps
<1>10. QED
  BY <1>2, <1>3, <1>4, <1>5, <1>6, <1>7, <1>8, <1>9, <1>11, <1>12
  DEF Next, SessionNext, LinkNext, AdminNext, LoginInsert, Logout, SessionExpires,
      ChangeVerify, ChangeWrite, ForgotMail, TokenExpires, ResetClaim, ResetWrite,
      PatchCount, PatchWrite, RevokeSessions, DeliverIssueFails, DeliverUndo, DeliverFailed, DeliverSent, Stop, Steps

LEMMA LocalsOKPreserved ==
  ASSUME Inv, Next
  PROVE  LocalsOK'
<1> USE ConstantsAssumption DEF Inv, TypeOK, UserRow, TokenRow, SessionRow,
      Request, LocalsOK, LocalsOf, RowsOK, OwnersExist, SessionUsersExist,
      AbsentIsEmpty, SentOf, WithUser, WithToken, Open, Goto, End, Idle,
      Redeemable
<1>1. ASSUME NEW r \in Requests, NEW u \in Users, NEW p \in Passwords,
              LoginVerify(r, u, p)
      PROVE  LocalsOK'
  BY <1>1 DEF LoginVerify
<1>2. ASSUME NEW r \in Requests, NEW s \in Sessions, LoginInsert(r, s)
      PROVE  LocalsOK'
  BY <1>2 DEF LoginInsert
<1>3. ASSUME NEW s \in Sessions, Logout(s)
      PROVE  LocalsOK'
  BY <1>3 DEF Logout
<1>4. ASSUME NEW s \in Sessions, SessionExpires(s)
      PROVE  LocalsOK'
  BY <1>4 DEF SessionExpires
<1>5. ASSUME NEW r \in Requests, NEW s \in Sessions, NEW p \in Passwords,
              ChangeAuthenticate(r, s, p)
      PROVE  LocalsOK'
  <2>1. sessions[s].user \in Users /\ users[sessions[s].user].exists
    BY <1>5 DEF ChangeAuthenticate, Authenticated
  <2>2. LocalsOf(r)'
    BY <1>5, <2>1 DEF ChangeAuthenticate
  <2>3. ASSUME NEW q \in Requests \ {r}
        PROVE  LocalsOf(q)'
    BY <1>5 DEF ChangeAuthenticate
  <2>4. QED
    BY <2>2, <2>3
<1>6. ASSUME NEW r \in Requests, ChangeVerify(r)
      PROVE  LocalsOK'
  BY <1>6 DEF ChangeVerify
<1>7. ASSUME NEW r \in Requests, NEW p \in Passwords, ChangeWrite(r, p)
      PROVE  LocalsOK'
  BY <1>7 DEF ChangeWrite
<1>8. ASSUME NEW r \in Requests, NEW u \in Users, ForgotRead(r, u)
      PROVE  LocalsOK'
  BY <1>8 DEF ForgotRead
<1>9. ASSUME NEW r \in Requests, NEW t \in Tokens, ForgotIssue(r, t)
      PROVE  LocalsOK'
  <2>1. /\ req[r].user \in Users /\ "recovery" \in Purposes
        /\ IssueResetToken(t, req[r].user, "recovery")
    BY <1>9 DEF ForgotIssue, Purposes
  <2>2. Issued(t, req[r].user, "recovery")
    BY <2>1, IssueEffect
  <2>3. LocalsOf(r)'
    BY <1>9, <2>2 DEF ForgotIssue, Issued
  <2>4. ASSUME NEW q \in Requests \ {r}
        PROVE  LocalsOf(q)'
    <3>1. req'[q] = req[q] /\ UNCHANGED users
      BY <1>9 DEF ForgotIssue
    <3> HIDE DEF TypeOK, UserRow, TokenRow, SessionRow, Request
    <3>2. QED
      BY <2>2, <3>1 DEF Issued
  <2>5. QED
    BY <2>3, <2>4
<1>10. ASSUME NEW r \in Requests, ForgotMail(r)
      PROVE  LocalsOK'
  BY <1>10 DEF ForgotMail
<1>11. ASSUME NEW t \in Tokens, TokenExpires(t)
      PROVE  LocalsOK'
  BY <1>11 DEF TokenExpires
<1>12. ASSUME NEW r \in Requests, NEW t \in Tokens, ResetRead(r, t)
      PROVE  LocalsOK'
  BY <1>12 DEF ResetRead
<1>13. ASSUME NEW r \in Requests, ResetClaim(r)
      PROVE  LocalsOK'
  BY <1>13 DEF ResetClaim
<1>14. ASSUME NEW r \in Requests, NEW p \in Passwords, ResetWrite(r, p)
      PROVE  LocalsOK'
  <2>1. LocalsOf(r)'
    BY SMTT(30), <1>14 DEF ResetWrite
  <2>2. ASSUME NEW q \in Requests \ {r}
        PROVE  LocalsOf(q)'
    <3>1. req'[q] = req[q]
      BY <1>14 DEF ResetWrite
    <3>2. \A t \in Tokens :
            /\ tokens'[t].owner = tokens[t].owner
            /\ tokens'[t].mailed = tokens[t].mailed
            /\ tokens[t].state # "unissued" => tokens'[t].state # "unissued"
            /\ tokens[t].state = "used" => tokens'[t].state = "used"
      BY SMTT(30), <1>14 DEF ResetWrite, Spent
    <3>3. \A u \in Users : /\ users'[u].exists = users[u].exists
                           /\ users[u].pw # None => users'[u].pw # None
      BY SMTT(30), <1>14 DEF ResetWrite
    <3>4. LocalsOf(q)
      OBVIOUS
    <3> HIDE DEF Inv, TypeOK, RowsOK, LocalsOK
    <3>5. req[q].pc \in WithToken =>
            /\ tokens'[req[q].token].owner = tokens[req[q].token].owner
            /\ tokens'[req[q].token].mailed = tokens[req[q].token].mailed
            /\ tokens'[req[q].token].state # "unissued"
            /\ tokens[req[q].token].state = "used" =>
                 tokens'[req[q].token].state = "used"
      BY <3>2, <3>4
    <3>6. req[q].pc \in WithUser =>
            /\ users'[req[q].user].exists
            /\ users[req[q].user].pw # None => users'[req[q].user].pw # None
      BY <3>3, <3>4
    <3>7. QED
      BY <3>1, <3>4, <3>5, <3>6
  <2>3. QED
    BY <2>1, <2>2
<1>15. ASSUME NEW r \in Requests, NEW s \in Sessions, AdminStart(r, s)
      PROVE  LocalsOK'
  BY <1>15 DEF AdminStart
<1>16. ASSUME NEW r \in Requests, NEW u \in Users, NEW b \in BOOLEAN,
              CreateUser(r, u, b)
      PROVE  LocalsOK'
  BY SMTT(30), <1>16 DEF CreateUser
<1>17. ASSUME NEW r \in Requests, NEW u \in Users, NEW b \in BOOLEAN, NEW c \in BOOLEAN,
              PatchRead(r, u, b, c)
      PROVE  LocalsOK'
  BY <1>17 DEF PatchRead
<1>18. ASSUME NEW r \in Requests, PatchCount(r)
      PROVE  LocalsOK'
  BY <1>18 DEF PatchCount
<1>19. ASSUME NEW r \in Requests, PatchWrite(r)
      PROVE  LocalsOK'
  BY SMTT(30), <1>19 DEF PatchWrite
<1>20. ASSUME NEW r \in Requests, NEW u \in Users, RevokeSessions(r, u)
      PROVE  LocalsOK'
  BY <1>20 DEF RevokeSessions
<1>21. ASSUME NEW r \in Requests, NEW u \in Users, ResendRead(r, u)
      PROVE  LocalsOK'
  BY SMTT(30), <1>21 DEF ResendRead
<1>22. ASSUME NEW r \in Requests, NEW t \in Tokens, DeliverIssue(r, t)
      PROVE  LocalsOK'
  <2>1. /\ req[r].user \in Users /\ req[r].purpose \in Purposes
        /\ IssueResetToken(t, req[r].user, req[r].purpose)
    BY <1>22 DEF DeliverIssue, Purposes
  <2>2. Issued(t, req[r].user, req[r].purpose)
    BY <2>1, IssueEffect
  <2>3. LocalsOf(r)'
    BY <1>22, <2>2 DEF DeliverIssue, Issued
  <2>4. ASSUME NEW q \in Requests \ {r}
        PROVE  LocalsOf(q)'
    <3>1. req'[q] = req[q] /\ UNCHANGED users
      BY <1>22 DEF DeliverIssue
    <3> HIDE DEF TypeOK, UserRow, TokenRow, SessionRow, Request
    <3>2. QED
      BY <2>2, <3>1 DEF Issued
  <2>5. QED
    BY <2>3, <2>4
<1>23. ASSUME NEW r \in Requests, DeliverIssueFails(r)
      PROVE  LocalsOK'
  BY <1>23 DEF DeliverIssueFails
<1>24. ASSUME NEW r \in Requests, DeliverMail(r)
      PROVE  LocalsOK'
  BY <1>24 DEF DeliverMail
<1>25. ASSUME NEW r \in Requests, DeliverUndo(r)
      PROVE  LocalsOK'
  BY <1>25 DEF DeliverUndo
<1>26. ASSUME NEW r \in Requests, DeliverFailed(r)
      PROVE  LocalsOK'
  BY SMTT(30), <1>26 DEF DeliverFailed
<1>27. ASSUME NEW r \in Requests, DeliverSent(r)
      PROVE  LocalsOK'
  BY SMTT(30), <1>27 DEF DeliverSent
<1>28. ASSUME NEW r \in Requests, Stop(r)
      PROVE  LocalsOK'
  BY <1>28 DEF Stop
<1> HIDE DEF Inv, TypeOK, UserRow, TokenRow, SessionRow, Request, LocalsOK,
      RowsOK, WithUser, WithToken, Open, Goto, End, Idle, Redeemable
<1>29. QED
  BY <1>1, <1>2, <1>3, <1>4, <1>5, <1>6, <1>7, <1>8, <1>9, <1>10, <1>11, <1>12,
     <1>13, <1>14, <1>15, <1>16, <1>17, <1>18, <1>19, <1>20, <1>21, <1>22,
     <1>23, <1>24, <1>25, <1>26, <1>27, <1>28
  DEF Next, SessionNext, LinkNext, AdminNext

LEMMA RowsOKPreserved ==
  ASSUME Inv, Next
  PROVE  RowsOK'
<1> USE ConstantsAssumption DEF Inv, TypeOK, UserRow, TokenRow, SessionRow,
      Request, LocalsOK, LocalsOf, RowsOK, OwnersExist, SessionUsersExist,
      AbsentIsEmpty, SentOf, WithUser, WithToken, Open, Goto, End, Idle,
      NoAccount, Revoked, Spent, Authenticated
<1>1. ASSUME NEW r \in Requests, NEW u \in Users, NEW p \in Passwords,
              LoginVerify(r, u, p)
      PROVE  RowsOK'
  BY <1>1 DEF LoginVerify
<1>2. ASSUME NEW r \in Requests, NEW s \in Sessions, LoginInsert(r, s)
      PROVE  RowsOK'
  BY <1>2 DEF LoginInsert
<1>3. ASSUME NEW s \in Sessions, Logout(s)
      PROVE  RowsOK'
  BY <1>3 DEF Logout
<1>4. ASSUME NEW s \in Sessions, SessionExpires(s)
      PROVE  RowsOK'
  BY <1>4 DEF SessionExpires
<1>5. ASSUME NEW r \in Requests, NEW s \in Sessions, NEW p \in Passwords,
              ChangeAuthenticate(r, s, p)
      PROVE  RowsOK'
  BY <1>5 DEF ChangeAuthenticate
<1>6. ASSUME NEW r \in Requests, ChangeVerify(r)
      PROVE  RowsOK'
  BY <1>6 DEF ChangeVerify
<1>7. ASSUME NEW r \in Requests, NEW p \in Passwords, ChangeWrite(r, p)
      PROVE  RowsOK'
  BY SMTT(30), <1>7 DEF ChangeWrite
<1>8. ASSUME NEW r \in Requests, NEW u \in Users, ForgotRead(r, u)
      PROVE  RowsOK'
  BY <1>8 DEF ForgotRead
<1>9. ASSUME NEW r \in Requests, NEW t \in Tokens, ForgotIssue(r, t)
      PROVE  RowsOK'
  <2>1. /\ req[r].user \in Users /\ "recovery" \in Purposes
        /\ IssueResetToken(t, req[r].user, "recovery")
    BY <1>9 DEF ForgotIssue, Purposes
  <2>2. Issued(t, req[r].user, "recovery")
    BY <2>1, IssueEffect
  <2>3. UNCHANGED <<users, sessions>>
    BY <1>9 DEF ForgotIssue
  <2>8. users[req[r].user].exists
    BY <1>9 DEF ForgotIssue
  <2> HIDE DEF TypeOK, UserRow, TokenRow, SessionRow, Request, Revoked, Spent
  <2>4. OwnersExist'
    BY <2>1, <2>2, <2>3, <2>8 DEF Issued
  <2>5. ASSUME NEW u \in Users
        PROVE  SentOf(u)'
    BY <2>2, <2>3 DEF Issued
  <2>6. SessionUsersExist' /\ AbsentIsEmpty'
    BY <2>3
  <2>7. QED
    BY <2>4, <2>5, <2>6
<1>10. ASSUME NEW r \in Requests, ForgotMail(r)
      PROVE  RowsOK'
  BY <1>10 DEF ForgotMail
<1>11. ASSUME NEW t \in Tokens, TokenExpires(t)
      PROVE  RowsOK'
  BY <1>11 DEF TokenExpires
<1>12. ASSUME NEW r \in Requests, NEW t \in Tokens, ResetRead(r, t)
      PROVE  RowsOK'
  BY <1>12 DEF ResetRead
<1>13. ASSUME NEW r \in Requests, ResetClaim(r)
      PROVE  RowsOK'
  BY <1>13 DEF ResetClaim
<1>14. ASSUME NEW r \in Requests, NEW p \in Passwords, ResetWrite(r, p)
      PROVE  RowsOK'
  <2>1. /\ req[r].user \in Users /\ users[req[r].user].exists
    BY <1>14 DEF ResetWrite
  <2>2. \A t \in Tokens :
          /\ tokens'[t].owner = tokens[t].owner
          /\ tokens'[t].mailed = tokens[t].mailed
          /\ tokens[t].state # "unissued" <=> tokens'[t].state # "unissued"
    BY SMTT(30), <1>14 DEF ResetWrite
  <2>3. \A u \in Users : /\ users'[u].exists = users[u].exists
                         /\ users'[u].active = users[u].active
                         /\ u # req[r].user => users'[u] = users[u]
    BY SMTT(30), <1>14 DEF ResetWrite
  <2>4. OwnersExist'
    BY <2>2, <2>3
  <2>5. SessionUsersExist'
    BY SMTT(30), <1>14 DEF ResetWrite
  <2>6. AbsentIsEmpty'
    BY <2>1, <2>3
  <2>7. ASSUME NEW u \in Users
        PROVE  SentOf(u)'
    <3>1. CASE u = req[r].user
      BY SMTT(30), <1>14, <3>1 DEF ResetWrite
    <3>2. CASE u # req[r].user
      BY <2>2, <2>3, <3>2
    <3>3. QED
      BY <3>1, <3>2
  <2>8. QED
    BY <2>4, <2>5, <2>6, <2>7
<1>15. ASSUME NEW r \in Requests, NEW s \in Sessions, AdminStart(r, s)
      PROVE  RowsOK'
  BY <1>15 DEF AdminStart
<1>16. ASSUME NEW r \in Requests, NEW u \in Users, NEW b \in BOOLEAN,
              CreateUser(r, u, b)
      PROVE  RowsOK'
  BY <1>16 DEF CreateUser
<1>17. ASSUME NEW r \in Requests, NEW u \in Users, NEW b \in BOOLEAN, NEW c \in BOOLEAN,
              PatchRead(r, u, b, c)
      PROVE  RowsOK'
  BY <1>17 DEF PatchRead
<1>18. ASSUME NEW r \in Requests, PatchCount(r)
      PROVE  RowsOK'
  BY <1>18 DEF PatchCount
<1>19. ASSUME NEW r \in Requests, PatchWrite(r)
      PROVE  RowsOK'
  <2>1. /\ req[r].user \in Users /\ users[req[r].user].exists
    BY <1>19 DEF PatchWrite
  <2>2. \A u \in Users : /\ users'[u].exists = users[u].exists
                         /\ users'[u].pw = users[u].pw
                         /\ users'[u].invite = users[u].invite
                         /\ users'[u].inviteToken = users[u].inviteToken
                         /\ u # req[r].user => users'[u].active = users[u].active
    BY SMTT(30), <1>19 DEF PatchWrite
  <2>3. UNCHANGED tokens
    BY <1>19 DEF PatchWrite
  <2>4. OwnersExist' /\ AbsentIsEmpty' /\ \A u \in Users : SentOf(u)'
    BY <2>1, <2>2, <2>3
  <2>5. SessionUsersExist'
    BY <1>19 DEF PatchWrite
  <2>6. QED
    BY <2>4, <2>5
<1>20. ASSUME NEW r \in Requests, NEW u \in Users, RevokeSessions(r, u)
      PROVE  RowsOK'
  BY <1>20 DEF RevokeSessions
<1>21. ASSUME NEW r \in Requests, NEW u \in Users, ResendRead(r, u)
      PROVE  RowsOK'
  BY <1>21 DEF ResendRead
<1>22. ASSUME NEW r \in Requests, NEW t \in Tokens, DeliverIssue(r, t)
      PROVE  RowsOK'
  <2>1. /\ req[r].user \in Users /\ req[r].purpose \in Purposes
        /\ IssueResetToken(t, req[r].user, req[r].purpose)
    BY <1>22 DEF DeliverIssue, Purposes
  <2>2. Issued(t, req[r].user, req[r].purpose)
    BY <2>1, IssueEffect
  <2>3. UNCHANGED <<users, sessions>>
    BY <1>22 DEF DeliverIssue
  <2>8. users[req[r].user].exists
    BY <1>22 DEF DeliverIssue
  <2> HIDE DEF TypeOK, UserRow, TokenRow, SessionRow, Request, Revoked, Spent
  <2>4. OwnersExist'
    BY <2>1, <2>2, <2>3, <2>8 DEF Issued
  <2>5. ASSUME NEW u \in Users
        PROVE  SentOf(u)'
    BY <2>2, <2>3 DEF Issued
  <2>6. SessionUsersExist' /\ AbsentIsEmpty'
    BY <2>3
  <2>7. QED
    BY <2>4, <2>5, <2>6
<1>23. ASSUME NEW r \in Requests, DeliverIssueFails(r)
      PROVE  RowsOK'
  BY <1>23 DEF DeliverIssueFails
<1>24. ASSUME NEW r \in Requests, DeliverMail(r)
      PROVE  RowsOK'
  BY <1>24 DEF DeliverMail
<1>25. ASSUME NEW r \in Requests, DeliverUndo(r)
      PROVE  RowsOK'
  BY <1>25 DEF DeliverUndo
<1>26. ASSUME NEW r \in Requests, DeliverFailed(r)
      PROVE  RowsOK'
  BY SMTT(30), <1>26 DEF DeliverFailed
<1>27. ASSUME NEW r \in Requests, DeliverSent(r)
      PROVE  RowsOK'
  BY SMTT(30), <1>27 DEF DeliverSent
<1>28. ASSUME NEW r \in Requests, Stop(r)
      PROVE  RowsOK'
  BY <1>28 DEF Stop
<1> HIDE DEF Inv, TypeOK, UserRow, TokenRow, SessionRow, Request, LocalsOK,
      RowsOK, WithUser, WithToken, Open, Goto, End, Idle, NoAccount, Revoked,
      Spent, Authenticated
<1>29. QED
  BY <1>1, <1>2, <1>3, <1>4, <1>5, <1>6, <1>7, <1>8, <1>9, <1>10, <1>11, <1>12,
     <1>13, <1>14, <1>15, <1>16, <1>17, <1>18, <1>19, <1>20, <1>21, <1>22,
     <1>23, <1>24, <1>25, <1>26, <1>27, <1>28
  DEF Next, SessionNext, LinkNext, AdminNext

LEMMA OneUnusedLinkPreserved ==
  ASSUME Inv, Next
  PROVE  OneUnusedLink'
<1> USE ConstantsAssumption DEF Inv, TypeOK, UserRow, TokenRow, SessionRow,
      Request, LocalsOK, LocalsOf, RowsOK, OwnersExist, SessionUsersExist,
      AbsentIsEmpty, SentOf, WithUser, WithToken, Open, Goto, End, Idle,
      OneUnusedLink, Spent
<1>1. ASSUME NEW r \in Requests, NEW u \in Users, NEW p \in Passwords,
              LoginVerify(r, u, p)
      PROVE  OneUnusedLink'
  BY <1>1 DEF LoginVerify
<1>2. ASSUME NEW r \in Requests, NEW s \in Sessions, LoginInsert(r, s)
      PROVE  OneUnusedLink'
  BY <1>2 DEF LoginInsert
<1>3. ASSUME NEW s \in Sessions, Logout(s)
      PROVE  OneUnusedLink'
  BY <1>3 DEF Logout
<1>4. ASSUME NEW s \in Sessions, SessionExpires(s)
      PROVE  OneUnusedLink'
  BY <1>4 DEF SessionExpires
<1>5. ASSUME NEW r \in Requests, NEW s \in Sessions, NEW p \in Passwords,
              ChangeAuthenticate(r, s, p)
      PROVE  OneUnusedLink'
  BY <1>5 DEF ChangeAuthenticate
<1>6. ASSUME NEW r \in Requests, ChangeVerify(r)
      PROVE  OneUnusedLink'
  BY <1>6 DEF ChangeVerify
<1>7. ASSUME NEW r \in Requests, NEW p \in Passwords, ChangeWrite(r, p)
      PROVE  OneUnusedLink'
  BY <1>7 DEF ChangeWrite
<1>8. ASSUME NEW r \in Requests, NEW u \in Users, ForgotRead(r, u)
      PROVE  OneUnusedLink'
  BY <1>8 DEF ForgotRead
<1>9. ASSUME NEW r \in Requests, NEW t \in Tokens, ForgotIssue(r, t)
      PROVE  OneUnusedLink'
  <2>1. /\ req[r].user \in Users /\ "recovery" \in Purposes
        /\ IssueResetToken(t, req[r].user, "recovery")
    BY <1>9 DEF ForgotIssue, Purposes
  <2>2. Issued(t, req[r].user, "recovery")
    BY <2>1, IssueEffect
  <2>3. QED
    BY <1>9, <2>1, <2>2 DEF ForgotIssue, Issued
<1>10. ASSUME NEW r \in Requests, ForgotMail(r)
      PROVE  OneUnusedLink'
  BY <1>10 DEF ForgotMail
<1>11. ASSUME NEW t \in Tokens, TokenExpires(t)
      PROVE  OneUnusedLink'
  BY <1>11 DEF TokenExpires
<1>12. ASSUME NEW r \in Requests, NEW t \in Tokens, ResetRead(r, t)
      PROVE  OneUnusedLink'
  BY <1>12 DEF ResetRead
<1>13. ASSUME NEW r \in Requests, ResetClaim(r)
      PROVE  OneUnusedLink'
  BY <1>13 DEF ResetClaim
<1>14. ASSUME NEW r \in Requests, NEW p \in Passwords, ResetWrite(r, p)
      PROVE  OneUnusedLink'
  BY SMTT(30), <1>14 DEF ResetWrite
<1>15. ASSUME NEW r \in Requests, NEW s \in Sessions, AdminStart(r, s)
      PROVE  OneUnusedLink'
  BY <1>15 DEF AdminStart
<1>16. ASSUME NEW r \in Requests, NEW u \in Users, NEW b \in BOOLEAN,
              CreateUser(r, u, b)
      PROVE  OneUnusedLink'
  BY <1>16 DEF CreateUser
<1>17. ASSUME NEW r \in Requests, NEW u \in Users, NEW b \in BOOLEAN, NEW c \in BOOLEAN,
              PatchRead(r, u, b, c)
      PROVE  OneUnusedLink'
  BY <1>17 DEF PatchRead
<1>18. ASSUME NEW r \in Requests, PatchCount(r)
      PROVE  OneUnusedLink'
  BY <1>18 DEF PatchCount
<1>19. ASSUME NEW r \in Requests, PatchWrite(r)
      PROVE  OneUnusedLink'
  BY <1>19 DEF PatchWrite
<1>20. ASSUME NEW r \in Requests, NEW u \in Users, RevokeSessions(r, u)
      PROVE  OneUnusedLink'
  BY <1>20 DEF RevokeSessions
<1>21. ASSUME NEW r \in Requests, NEW u \in Users, ResendRead(r, u)
      PROVE  OneUnusedLink'
  BY <1>21 DEF ResendRead
<1>22. ASSUME NEW r \in Requests, NEW t \in Tokens, DeliverIssue(r, t)
      PROVE  OneUnusedLink'
  <2>1. /\ req[r].user \in Users /\ req[r].purpose \in Purposes
        /\ IssueResetToken(t, req[r].user, req[r].purpose)
    BY <1>22 DEF DeliverIssue, Purposes
  <2>2. Issued(t, req[r].user, req[r].purpose)
    BY <2>1, IssueEffect
  <2>3. QED
    BY <1>22, <2>1, <2>2 DEF DeliverIssue, Issued
<1>23. ASSUME NEW r \in Requests, DeliverIssueFails(r)
      PROVE  OneUnusedLink'
  BY <1>23 DEF DeliverIssueFails
<1>24. ASSUME NEW r \in Requests, DeliverMail(r)
      PROVE  OneUnusedLink'
  BY <1>24 DEF DeliverMail
<1>25. ASSUME NEW r \in Requests, DeliverUndo(r)
      PROVE  OneUnusedLink'
  BY <1>25 DEF DeliverUndo
<1>26. ASSUME NEW r \in Requests, DeliverFailed(r)
      PROVE  OneUnusedLink'
  BY <1>26 DEF DeliverFailed
<1>27. ASSUME NEW r \in Requests, DeliverSent(r)
      PROVE  OneUnusedLink'
  BY <1>27 DEF DeliverSent
<1>28. ASSUME NEW r \in Requests, Stop(r)
      PROVE  OneUnusedLink'
  BY <1>28 DEF Stop
<1> HIDE DEF Inv, TypeOK, UserRow, TokenRow, SessionRow, Request, LocalsOK,
      RowsOK, WithUser, WithToken, Open, Goto, End, Idle, OneUnusedLink, Spent
<1>29. QED
  BY <1>1, <1>2, <1>3, <1>4, <1>5, <1>6, <1>7, <1>8, <1>9, <1>10, <1>11, <1>12,
     <1>13, <1>14, <1>15, <1>16, <1>17, <1>18, <1>19, <1>20, <1>21, <1>22,
     <1>23, <1>24, <1>25, <1>26, <1>27, <1>28
  DEF Next, SessionNext, LinkNext, AdminNext

LEMMA ClaimIsExclusivePreserved ==
  ASSUME Inv, Next
  PROVE  ClaimIsExclusive'
<1> USE ConstantsAssumption DEF Inv, TypeOK, UserRow, TokenRow, SessionRow,
      Request, LocalsOK, LocalsOf, RowsOK, OwnersExist, SessionUsersExist,
      AbsentIsEmpty, SentOf, WithUser, WithToken, Open, Goto, End, Idle,
      ClaimIsExclusive, Spent
<1>1. ASSUME NEW r \in Requests, NEW u \in Users, NEW p \in Passwords,
              LoginVerify(r, u, p)
      PROVE  ClaimIsExclusive'
  BY <1>1 DEF LoginVerify
<1>2. ASSUME NEW r \in Requests, NEW s \in Sessions, LoginInsert(r, s)
      PROVE  ClaimIsExclusive'
  BY <1>2 DEF LoginInsert
<1>3. ASSUME NEW s \in Sessions, Logout(s)
      PROVE  ClaimIsExclusive'
  BY <1>3 DEF Logout
<1>4. ASSUME NEW s \in Sessions, SessionExpires(s)
      PROVE  ClaimIsExclusive'
  BY <1>4 DEF SessionExpires
<1>5. ASSUME NEW r \in Requests, NEW s \in Sessions, NEW p \in Passwords,
              ChangeAuthenticate(r, s, p)
      PROVE  ClaimIsExclusive'
  BY <1>5 DEF ChangeAuthenticate
<1>6. ASSUME NEW r \in Requests, ChangeVerify(r)
      PROVE  ClaimIsExclusive'
  BY <1>6 DEF ChangeVerify
<1>7. ASSUME NEW r \in Requests, NEW p \in Passwords, ChangeWrite(r, p)
      PROVE  ClaimIsExclusive'
  BY <1>7 DEF ChangeWrite
<1>8. ASSUME NEW r \in Requests, NEW u \in Users, ForgotRead(r, u)
      PROVE  ClaimIsExclusive'
  BY <1>8 DEF ForgotRead
<1>9. ASSUME NEW r \in Requests, NEW t \in Tokens, ForgotIssue(r, t)
      PROVE  ClaimIsExclusive'
  <2>1. /\ req[r].user \in Users /\ "recovery" \in Purposes
        /\ IssueResetToken(t, req[r].user, "recovery")
    BY <1>9 DEF ForgotIssue, Purposes
  <2>2. Issued(t, req[r].user, "recovery")
    BY <2>1, IssueEffect
  <2>3. QED
    BY <1>9, <2>1, <2>2 DEF ForgotIssue, Issued
<1>10. ASSUME NEW r \in Requests, ForgotMail(r)
      PROVE  ClaimIsExclusive'
  BY <1>10 DEF ForgotMail
<1>11. ASSUME NEW t \in Tokens, TokenExpires(t)
      PROVE  ClaimIsExclusive'
  BY <1>11 DEF TokenExpires
<1>12. ASSUME NEW r \in Requests, NEW t \in Tokens, ResetRead(r, t)
      PROVE  ClaimIsExclusive'
  BY <1>12 DEF ResetRead
<1>13. ASSUME NEW r \in Requests, ResetClaim(r)
      PROVE  ClaimIsExclusive'
  BY <1>13 DEF ResetClaim
<1>14. ASSUME NEW r \in Requests, NEW p \in Passwords, ResetWrite(r, p)
      PROVE  ClaimIsExclusive'
  BY <1>14 DEF ResetWrite
<1>15. ASSUME NEW r \in Requests, NEW s \in Sessions, AdminStart(r, s)
      PROVE  ClaimIsExclusive'
  BY <1>15 DEF AdminStart
<1>16. ASSUME NEW r \in Requests, NEW u \in Users, NEW b \in BOOLEAN,
              CreateUser(r, u, b)
      PROVE  ClaimIsExclusive'
  BY <1>16 DEF CreateUser
<1>17. ASSUME NEW r \in Requests, NEW u \in Users, NEW b \in BOOLEAN, NEW c \in BOOLEAN,
              PatchRead(r, u, b, c)
      PROVE  ClaimIsExclusive'
  BY <1>17 DEF PatchRead
<1>18. ASSUME NEW r \in Requests, PatchCount(r)
      PROVE  ClaimIsExclusive'
  BY <1>18 DEF PatchCount
<1>19. ASSUME NEW r \in Requests, PatchWrite(r)
      PROVE  ClaimIsExclusive'
  BY <1>19 DEF PatchWrite
<1>20. ASSUME NEW r \in Requests, NEW u \in Users, RevokeSessions(r, u)
      PROVE  ClaimIsExclusive'
  BY <1>20 DEF RevokeSessions
<1>21. ASSUME NEW r \in Requests, NEW u \in Users, ResendRead(r, u)
      PROVE  ClaimIsExclusive'
  BY <1>21 DEF ResendRead
<1>22. ASSUME NEW r \in Requests, NEW t \in Tokens, DeliverIssue(r, t)
      PROVE  ClaimIsExclusive'
  <2>1. /\ req[r].user \in Users /\ req[r].purpose \in Purposes
        /\ IssueResetToken(t, req[r].user, req[r].purpose)
    BY <1>22 DEF DeliverIssue, Purposes
  <2>2. Issued(t, req[r].user, req[r].purpose)
    BY <2>1, IssueEffect
  <2>3. QED
    BY <1>22, <2>1, <2>2 DEF DeliverIssue, Issued
<1>23. ASSUME NEW r \in Requests, DeliverIssueFails(r)
      PROVE  ClaimIsExclusive'
  BY <1>23 DEF DeliverIssueFails
<1>24. ASSUME NEW r \in Requests, DeliverMail(r)
      PROVE  ClaimIsExclusive'
  BY <1>24 DEF DeliverMail
<1>25. ASSUME NEW r \in Requests, DeliverUndo(r)
      PROVE  ClaimIsExclusive'
  BY <1>25 DEF DeliverUndo
<1>26. ASSUME NEW r \in Requests, DeliverFailed(r)
      PROVE  ClaimIsExclusive'
  BY <1>26 DEF DeliverFailed
<1>27. ASSUME NEW r \in Requests, DeliverSent(r)
      PROVE  ClaimIsExclusive'
  BY <1>27 DEF DeliverSent
<1>28. ASSUME NEW r \in Requests, Stop(r)
      PROVE  ClaimIsExclusive'
  BY <1>28 DEF Stop
<1> HIDE DEF Inv, TypeOK, UserRow, TokenRow, SessionRow, Request, LocalsOK,
      RowsOK, WithUser, WithToken, Open, Goto, End, Idle, ClaimIsExclusive,
      Spent
<1>29. QED
  BY <1>1, <1>2, <1>3, <1>4, <1>5, <1>6, <1>7, <1>8, <1>9, <1>10, <1>11, <1>12,
     <1>13, <1>14, <1>15, <1>16, <1>17, <1>18, <1>19, <1>20, <1>21, <1>22,
     <1>23, <1>24, <1>25, <1>26, <1>27, <1>28
  DEF Next, SessionNext, LinkNext, AdminNext

LEMMA ValidatedInviteIsCurrentPreserved ==
  ASSUME Inv, Next
  PROVE  ValidatedInviteIsCurrent'
<1> USE ConstantsAssumption DEF Inv, TypeOK, UserRow, TokenRow, SessionRow,
      Request, LocalsOK, LocalsOf, RowsOK, OwnersExist, SessionUsersExist,
      AbsentIsEmpty, SentOf, WithUser, WithToken, Open, Goto, End, Idle,
      ValidatedInviteIsCurrent, Redeemable, NoAccount, Spent
<1>1. ASSUME NEW r \in Requests, NEW u \in Users, NEW p \in Passwords,
              LoginVerify(r, u, p)
      PROVE  ValidatedInviteIsCurrent'
  BY <1>1 DEF LoginVerify
<1>2. ASSUME NEW r \in Requests, NEW s \in Sessions, LoginInsert(r, s)
      PROVE  ValidatedInviteIsCurrent'
  BY <1>2 DEF LoginInsert
<1>3. ASSUME NEW s \in Sessions, Logout(s)
      PROVE  ValidatedInviteIsCurrent'
  BY <1>3 DEF Logout
<1>4. ASSUME NEW s \in Sessions, SessionExpires(s)
      PROVE  ValidatedInviteIsCurrent'
  BY <1>4 DEF SessionExpires
<1>5. ASSUME NEW r \in Requests, NEW s \in Sessions, NEW p \in Passwords,
              ChangeAuthenticate(r, s, p)
      PROVE  ValidatedInviteIsCurrent'
  BY <1>5 DEF ChangeAuthenticate
<1>6. ASSUME NEW r \in Requests, ChangeVerify(r)
      PROVE  ValidatedInviteIsCurrent'
  BY <1>6 DEF ChangeVerify
<1>7. ASSUME NEW r \in Requests, NEW p \in Passwords, ChangeWrite(r, p)
      PROVE  ValidatedInviteIsCurrent'
  BY <1>7 DEF ChangeWrite
<1>8. ASSUME NEW r \in Requests, NEW u \in Users, ForgotRead(r, u)
      PROVE  ValidatedInviteIsCurrent'
  BY <1>8 DEF ForgotRead
<1>9. ASSUME NEW r \in Requests, NEW t \in Tokens, ForgotIssue(r, t)
      PROVE  ValidatedInviteIsCurrent'
  <2>1. /\ req[r].user \in Users /\ "recovery" \in Purposes
        /\ IssueResetToken(t, req[r].user, "recovery")
    BY <1>9 DEF ForgotIssue, Purposes
  <2>2. Issued(t, req[r].user, "recovery")
    BY <2>1, IssueEffect
  <2>3. QED
    BY SMTT(30), <1>9, <2>1, <2>2 DEF ForgotIssue, Issued
<1>10. ASSUME NEW r \in Requests, ForgotMail(r)
      PROVE  ValidatedInviteIsCurrent'
  BY <1>10 DEF ForgotMail
<1>11. ASSUME NEW t \in Tokens, TokenExpires(t)
      PROVE  ValidatedInviteIsCurrent'
  BY <1>11 DEF TokenExpires
<1>12. ASSUME NEW r \in Requests, NEW t \in Tokens, ResetRead(r, t)
      PROVE  ValidatedInviteIsCurrent'
  BY <1>12 DEF ResetRead
<1>13. ASSUME NEW r \in Requests, ResetClaim(r)
      PROVE  ValidatedInviteIsCurrent'
  BY <1>13 DEF ResetClaim
<1>14. ASSUME NEW r \in Requests, NEW p \in Passwords, ResetWrite(r, p)
      PROVE  ValidatedInviteIsCurrent'
  <2> DEFINE u == req[r].user
  <2> SUFFICES ASSUME NEW q \in Requests,
                      req'[q].pc = "reset_claim",
                      tokens'[req'[q].token].state = "unused",
                      tokens'[req'[q].token].purpose = "invite"
               PROVE  users'[tokens'[req'[q].token].owner].pw = None
    BY Zenon DEF ValidatedInviteIsCurrent
  <2>1. req'[q] = req[q]
    BY <1>14 DEF ResetWrite, End, Idle
  <2> DEFINE t == req[q].token
  <2>2. t \in Tokens
    BY <2>1 DEF LocalsOK, LocalsOf, WithToken
  <2>3. /\ tokens[t].state = "unused" /\ tokens[t].purpose = "invite"
        /\ tokens'[t].owner = tokens[t].owner
        /\ tokens[t].owner # u
    BY <1>14, <2>1, <2>2 DEF ResetWrite, Spent
  <2>4. users[tokens[t].owner].pw = None
    BY <2>1, <2>3 DEF ValidatedInviteIsCurrent
  <2>5. users'[tokens[t].owner].pw = users[tokens[t].owner].pw
    <3>1. tokens[t].owner \in Users
      BY <2>2, <2>3
    <3>2. \A v \in Users \ {u} : users'[v] = users[v]
      <4>1. users' = [users EXCEPT ![u].pw = p, ![u].invite = "none",
                                   ![u].inviteToken = None]
        BY <1>14 DEF ResetWrite
      <4>2. users = [v \in Users |-> users[v]]
        BY DEF TypeOK
      <4> HIDE DEF TypeOK, Inv, RowsOK, LocalsOK, ValidatedInviteIsCurrent, u
      <4>3. QED
        BY <4>1, <4>2
    <3>3. QED
      BY <2>3, <3>1, <3>2
  <2>6. QED
    BY <2>1, <2>3, <2>4, <2>5
<1>15. ASSUME NEW r \in Requests, NEW s \in Sessions, AdminStart(r, s)
      PROVE  ValidatedInviteIsCurrent'
  BY <1>15 DEF AdminStart
<1>16. ASSUME NEW r \in Requests, NEW u \in Users, NEW b \in BOOLEAN,
              CreateUser(r, u, b)
      PROVE  ValidatedInviteIsCurrent'
  BY SMTT(30), <1>16 DEF CreateUser
<1>17. ASSUME NEW r \in Requests, NEW u \in Users, NEW b \in BOOLEAN, NEW c \in BOOLEAN,
              PatchRead(r, u, b, c)
      PROVE  ValidatedInviteIsCurrent'
  BY <1>17 DEF PatchRead
<1>18. ASSUME NEW r \in Requests, PatchCount(r)
      PROVE  ValidatedInviteIsCurrent'
  BY <1>18 DEF PatchCount
<1>19. ASSUME NEW r \in Requests, PatchWrite(r)
      PROVE  ValidatedInviteIsCurrent'
  BY SMTT(30), <1>19 DEF PatchWrite
<1>20. ASSUME NEW r \in Requests, NEW u \in Users, RevokeSessions(r, u)
      PROVE  ValidatedInviteIsCurrent'
  BY <1>20 DEF RevokeSessions
<1>21. ASSUME NEW r \in Requests, NEW u \in Users, ResendRead(r, u)
      PROVE  ValidatedInviteIsCurrent'
  BY SMTT(30), <1>21 DEF ResendRead
<1>22. ASSUME NEW r \in Requests, NEW t \in Tokens, DeliverIssue(r, t)
      PROVE  ValidatedInviteIsCurrent'
  <2>1. /\ req[r].user \in Users /\ req[r].purpose \in Purposes
        /\ IssueResetToken(t, req[r].user, req[r].purpose)
    BY <1>22 DEF DeliverIssue, Purposes
  <2>2. Issued(t, req[r].user, req[r].purpose)
    BY <2>1, IssueEffect
  <2>3. QED
    BY SMTT(30), <1>22, <2>1, <2>2 DEF DeliverIssue, Issued
<1>23. ASSUME NEW r \in Requests, DeliverIssueFails(r)
      PROVE  ValidatedInviteIsCurrent'
  BY <1>23 DEF DeliverIssueFails
<1>24. ASSUME NEW r \in Requests, DeliverMail(r)
      PROVE  ValidatedInviteIsCurrent'
  BY <1>24 DEF DeliverMail
<1>25. ASSUME NEW r \in Requests, DeliverUndo(r)
      PROVE  ValidatedInviteIsCurrent'
  BY <1>25 DEF DeliverUndo
<1>26. ASSUME NEW r \in Requests, DeliverFailed(r)
      PROVE  ValidatedInviteIsCurrent'
  BY SMTT(30), <1>26 DEF DeliverFailed
<1>27. ASSUME NEW r \in Requests, DeliverSent(r)
      PROVE  ValidatedInviteIsCurrent'
  BY SMTT(30), <1>27 DEF DeliverSent
<1>28. ASSUME NEW r \in Requests, Stop(r)
      PROVE  ValidatedInviteIsCurrent'
  BY <1>28 DEF Stop
<1> HIDE DEF Inv, TypeOK, UserRow, TokenRow, SessionRow, Request, LocalsOK,
      RowsOK, WithUser, WithToken, Open, Goto, End, Idle,
      ValidatedInviteIsCurrent, Redeemable, NoAccount, Spent
<1>29. QED
  BY <1>1, <1>2, <1>3, <1>4, <1>5, <1>6, <1>7, <1>8, <1>9, <1>10, <1>11, <1>12,
     <1>13, <1>14, <1>15, <1>16, <1>17, <1>18, <1>19, <1>20, <1>21, <1>22,
     <1>23, <1>24, <1>25, <1>26, <1>27, <1>28
  DEF Next, SessionNext, LinkNext, AdminNext

-----------------------------------------------------------------------------
(* The invariant holds in every state, whatever requests overlap.          *)

LEMMA StutterPreserves ==
  ASSUME Inv, UNCHANGED vars
  PROVE  Inv'
BY DEF Inv, vars, TypeOK, LocalsOK, LocalsOf, RowsOK, OwnersExist,
       SessionUsersExist, AbsentIsEmpty, SentOf, OneUnusedLink,
       ClaimIsExclusive, ValidatedInviteIsCurrent

THEOREM Invariance == Spec => []Inv
<1>1. Inv /\ [Next]_vars => Inv'
  <2> SUFFICES ASSUME Inv, [Next]_vars
               PROVE  Inv'
    OBVIOUS
  <2>1. CASE Next
    <3>1. TypeOK'
      BY <2>1, SessionsTyped, UsersTyped, TokensTyped, RequestsTyped
      DEF Inv, TypeOK
    <3>2. QED
      BY <2>1, <3>1, LocalsOKPreserved, RowsOKPreserved, OneUnusedLinkPreserved,
         ClaimIsExclusivePreserved, ValidatedInviteIsCurrentPreserved
      DEF Inv
  <2>2. CASE UNCHANGED vars
    BY <2>2, StutterPreserves
  <2>3. QED
    BY <2>1, <2>2
<1>2. QED
  BY InitInv, <1>1, PTL DEF Spec

(* Every table and every request in flight keeps its type.                 *)
THEOREM TypeCorrect == Spec => []TypeOK
<1>1. Inv => TypeOK
  BY DEF Inv
<1>2. QED
  BY Invariance, <1>1, PTL

(* issueResetToken's batch keeps an account's links down to one unused.    *)
THEOREM LinksAreUnique == Spec => []OneUnusedLink
<1>1. Inv => OneUnusedLink
  BY DEF Inv
<1>2. QED
  BY Invariance, <1>1, PTL

(* Concurrent submissions of one link: at most one reaches the batch.      *)
THEOREM ClaimsAreExclusive == Spec => []ClaimIsExclusive
<1>1. Inv => ClaimIsExclusive
  BY DEF Inv
<1>2. QED
  BY Invariance, <1>1, PTL

(* A validated invitation that can still be claimed finds no password.     *)
THEOREM InvitesAreCurrent == Spec => []ValidatedInviteIsCurrent
<1>1. Inv => ValidatedInviteIsCurrent
  BY DEF Inv
<1>2. QED
  BY Invariance, <1>1, PTL

(* invite_status 'sent' always refers to a link that reached its account.  *)
THEOREM SentInvitesArrived == Spec => []SentInviteArrived
<1>1. Inv => SentInviteArrived
  BY DEF Inv, RowsOK, SentOf, SentInviteArrived
<1>2. QED
  BY Invariance, <1>1, PTL

-----------------------------------------------------------------------------
(* HumanAuth implements SetupLinks.                                        *)

(* A step that moves no link, no owner and no password is a stutter.       *)
LEMMA LinksUnmoved ==
  ASSUME \A t \in Tokens : /\ LinkState(t)' = LinkState(t)
                           /\ tokens'[t].owner = tokens[t].owner
                           /\ tokens'[t].purpose = tokens[t].purpose,
         \A u \in Users : users'[u].pw = users[u].pw
  PROVE  UNCHANGED Links!vars
BY DEF Links!vars

ClaimSteps == {"reset_claim", "reset_write"}

(* In particular when the requests that redeem a link stay where they are. *)
LEMMA ClaimsUnmoved ==
  ASSUME \A t \in Tokens : /\ tokens'[t].state = tokens[t].state
                           /\ tokens'[t].expired = tokens[t].expired,
         \A r \in Requests, pc \in ClaimSteps :
           /\ req'[r].pc = pc <=> req[r].pc = pc
           /\ req[r].pc = pc => req'[r].token = req[r].token
  PROVE  \A t \in Tokens : LinkState(t)' = LinkState(t)
BY DEF LinkState, Holds, ClaimSteps

(* A step that leaves the requests redeeming a link and, apart from their  *)
(* mailed flag, the token rows as they are.                                *)
ClaimsSteady ==
  \A r \in Requests, pc \in ClaimSteps :
    /\ req'[r].pc = pc <=> req[r].pc = pc
    /\ req[r].pc = pc => req'[r].token = req[r].token

TokensSteady ==
  \A t \in Tokens :
    /\ tokens'[t].state = tokens[t].state
    /\ tokens'[t].expired = tokens[t].expired
    /\ tokens'[t].owner = tokens[t].owner
    /\ tokens'[t].purpose = tokens[t].purpose

LEMMA SteadyStutters ==
  ASSUME ClaimsSteady,
         UNCHANGED tokens \/ TokensSteady,
         UNCHANGED users \/ \A u \in Users : users'[u].pw = users[u].pw
  PROVE  UNCHANGED Links!vars
<1>1. TokensSteady
  BY DEF TokensSteady
<1>2. \A u \in Users : users'[u].pw = users[u].pw
  OBVIOUS
<1>3. \A t \in Tokens : LinkState(t)' = LinkState(t)
  BY <1>1, ClaimsUnmoved DEF ClaimsSteady, TokensSteady
<1>4. QED
  BY <1>1, <1>2, <1>3, LinksUnmoved DEF TokensSteady

LEMMA InitImplements == Init => Links!Init
BY ConstantsAssumption DEF Init, Links!Init, LinkState, Holds, RootAccount, NoAccount, Idle

LEMMA IssueImplements ==
  ASSUME Inv, NEW r \in Requests, NEW t \in Tokens,
         ForgotIssue(r, t) \/ DeliverIssue(r, t)
  PROVE  Links!Next
<1>1. PICK kind \in Purposes :
        IssueResetToken(t, req[r].user, kind) /\ req[r].user \in Users
  BY DEF ForgotIssue, DeliverIssue, Inv, TypeOK, Request, Purposes, LocalsOK,
         LocalsOf, WithUser
<1> DEFINE u == req[r].user
<1>2. Issued(t, u, kind)
  BY <1>1, IssueEffect DEF Inv
<1>3. \A q \in Requests, pc \in ClaimSteps :
        /\ req'[q].pc = pc <=> req[q].pc = pc
        /\ req[q].pc = pc => req'[q].token = req[q].token
  BY DEF ClaimSteps, ForgotIssue, DeliverIssue, Inv, TypeOK, Request
<1>4. \A q \in Requests : req[q].pc = "reset_write" =>
        tokens[req[q].token].state = "used" /\ req[q].token # t
  BY <1>2 DEF Inv, LocalsOK, LocalsOf, Issued
<1>5. LinkState(t) = "none" /\ LinkState(t)' = "live"
  BY <1>2 DEF LinkState, Holds, Issued
<1>6. ASSUME NEW x \in Tokens \ {t}
      PROVE  LinkState(x)' = IF LinkState(x) = "live" /\ tokens[x].owner = u
                             THEN "dead" ELSE LinkState(x)
  BY <1>2, <1>3, <1>4 DEF LinkState, Holds, Issued, ClaimSteps
<1>7. UNCHANGED users
  BY DEF ForgotIssue, DeliverIssue
<1>8. Links!Issue(t, u, kind)
  BY <1>2, <1>5, <1>6, <1>7 DEF Links!Issue, Links!Retired, Issued
<1>9. QED
  BY <1>1, <1>8 DEF Links!Next, Purposes

LEMMA ExpiryImplements ==
  ASSUME Inv, NEW t \in Tokens, TokenExpires(t)
  PROVE  [Links!Next]_Links!vars
<1>1. \A x \in Tokens \ {t} : LinkState(x)' = LinkState(x)
  BY DEF TokenExpires, LinkState, Holds
<1>2. /\ UNCHANGED <<users, req>>
      /\ \A x \in Tokens : /\ tokens'[x].owner = tokens[x].owner
                           /\ tokens'[x].purpose = tokens[x].purpose
  BY DEF TokenExpires, Inv, TypeOK, TokenRow
<1>3. /\ tokens[t].state = "unused" /\ tokens'[t].state = "unused"
      /\ ~tokens[t].expired /\ tokens'[t].expired = TRUE
  BY DEF TokenExpires, Inv, TypeOK, TokenRow
<1>4. LinkState(t) = "live"
  BY <1>3 DEF LinkState
<1>5. CASE \E r \in Requests : Holds(r, t, "reset_claim")
  <2>1. LinkState(t)' = LinkState(t)
    BY <1>2, <1>3, <1>5 DEF LinkState, Holds
  <2>2. QED
    BY <1>1, <1>2, <2>1, LinksUnmoved
<1>6. CASE ~\E r \in Requests : Holds(r, t, "reset_claim")
  <2>1. LinkState(t)' = "dead"
    BY <1>2, <1>3, <1>6 DEF LinkState, Holds
  <2>2. Links!Void(t)
    BY <1>1, <1>2, <1>4, <2>1 DEF Links!Void
  <2>3. QED
    BY <2>2 DEF Links!Next
<1>7. QED
  BY <1>5, <1>6

(* Validating a link changes nothing about it: it is not expired yet.      *)
LEMMA ReadImplements ==
  ASSUME Inv, NEW r \in Requests, NEW t \in Tokens, ResetRead(r, t)
  PROVE  UNCHANGED Links!vars
<1>1. /\ UNCHANGED <<users, tokens>>
      /\ tokens[t].state = "unused" /\ ~tokens[t].expired
      /\ req[r].pc = "idle" /\ req'[r].pc = "reset_claim" /\ req'[r].token = t
      /\ \A q \in Requests \ {r} : req'[q] = req[q]
  BY DEF ResetRead, Redeemable, Open, Idle, Inv, TypeOK
<1>2. LinkState(t)' = LinkState(t)
  BY <1>1 DEF LinkState
<1>3. ASSUME NEW x \in Tokens \ {t}
      PROVE  LinkState(x)' = LinkState(x)
  BY <1>1 DEF LinkState, Holds
<1>4. QED
  BY <1>1, <1>2, <1>3, LinksUnmoved

LEMMA ClaimImplements ==
  ASSUME Inv, NEW r \in Requests, ResetClaim(r)
  PROVE  Links!Next
<1>1. PICK t \in Tokens :
        /\ t = req[r].token
        /\ req[r].pc = "reset_claim" /\ tokens[t].state = "unused"
        /\ tokens[t].purpose = "invite" => users[tokens[t].owner].pw = None
        /\ tokens[t].owner \in Users
  BY DEF ResetClaim, Inv, LocalsOK, LocalsOf, WithToken, RowsOK, OwnersExist,
         ValidatedInviteIsCurrent
<1>2. LinkState(t) = "live" /\ LinkState(t)' = "claimed"
  BY <1>1 DEF ResetClaim, Goto, LinkState, Holds, Inv, TypeOK, TokenRow, Request
<1>3. ASSUME NEW x \in Tokens \ {t}
      PROVE  LinkState(x)' = LinkState(x)
  BY <1>1 DEF ResetClaim, Goto, LinkState, Holds, Inv, TypeOK, Request
<1>4. \A x \in Tokens : /\ tokens'[x].owner = tokens[x].owner
                        /\ tokens'[x].purpose = tokens[x].purpose
  BY <1>1 DEF ResetClaim, Inv, TypeOK, TokenRow
<1>5. Links!Claim(t)
  BY <1>1, <1>2, <1>3, <1>4 DEF Links!Claim, ResetClaim
<1>6. QED
  BY <1>1, <1>5 DEF Links!Next

LEMMA WriteImplements ==
  ASSUME Inv, NEW r \in Requests, NEW p \in Passwords, ResetWrite(r, p)
  PROVE  Links!Next
<1>1. PICK t \in Tokens, u \in Users :
        /\ t = req[r].token /\ u = req[r].user
        /\ tokens[t].owner = u /\ tokens[t].state = "used"
  BY DEF ResetWrite, Inv, LocalsOK, LocalsOf, WithToken, WithUser
<1>2. /\ \A q \in Requests \ {r} : req'[q] = req[q]
      /\ req'[r].pc = "idle"
      /\ req[r].pc = "reset_write"
  BY DEF ResetWrite, End, Idle, Inv, TypeOK
<1>3. \A q \in Requests \ {r} : req[q].pc = "reset_write" => req[q].token # t
  BY <1>1, <1>2 DEF Inv, ClaimIsExclusive
<1>4. \A x \in Tokens :
        /\ tokens'[x].owner = tokens[x].owner
        /\ tokens'[x].purpose = tokens[x].purpose
        /\ tokens'[x].expired = tokens[x].expired
        /\ tokens'[x].state =
             IF tokens[x].state = "unused" /\ tokens[x].owner = u
             THEN "used" ELSE tokens[x].state
  BY <1>1 DEF ResetWrite, Spent, Inv, TypeOK, TokenRow
<1>5. LinkState(t) = "claimed" /\ LinkState(t)' = "dead"
  BY <1>1, <1>2, <1>3, <1>4 DEF LinkState, Holds
<1>6. \A q \in Requests : req[q].pc = "reset_write" =>
        tokens[req[q].token].state = "used"
  BY DEF Inv, LocalsOK, LocalsOf
<1>7. ASSUME NEW x \in Tokens \ {t}
      PROVE  LinkState(x)' = IF LinkState(x) = "live" /\ tokens[x].owner = u
                             THEN "dead" ELSE LinkState(x)
  BY <1>1, <1>2, <1>4, <1>6 DEF LinkState, Holds
<1>8. users' = [users EXCEPT ![u].pw = p, ![u].invite = "none",
                             ![u].inviteToken = None]
  BY <1>1 DEF ResetWrite
<1>9. \A v \in Users : users'[v].pw = IF v = u THEN p ELSE users[v].pw
  BY <1>1, <1>8 DEF Inv, TypeOK, UserRow
<1>10. Links!Redeem(t, p)
  <2>1. [v \in Users |-> users[v].pw]'
          = [[v \in Users |-> users[v].pw] EXCEPT ![u] = p]
    BY <1>1, <1>9
  <2>2. [x \in Tokens |-> LinkState(x)]'
          = [Links!Retired(u) EXCEPT ![t] = "dead"]
    <3>1. ASSUME NEW x \in Tokens
          PROVE  LinkState(x)' = [Links!Retired(u) EXCEPT ![t] = "dead"][x]
      BY <1>1, <1>5, <1>7 DEF Links!Retired
    <3>2. QED
      BY <3>1, <1>1 DEF Links!Retired
  <2>3. /\ [x \in Tokens |-> tokens[x].owner]' = [x \in Tokens |-> tokens[x].owner]
        /\ [x \in Tokens |-> tokens[x].purpose]' = [x \in Tokens |-> tokens[x].purpose]
    BY <1>4
  <2>4. [x \in Tokens |-> tokens[x].owner][t] = u
    BY <1>1
  <2>5. QED
    BY <1>1, <1>5, <2>1, <2>2, <2>3, <2>4 DEF Links!Redeem
<1>11. QED
  BY <1>1, <1>10 DEF Links!Next

LEMMA ChangeImplements ==
  ASSUME Inv, NEW r \in Requests, NEW p \in Passwords, ChangeWrite(r, p)
  PROVE  Links!Next
<1> DEFINE u == req[r].user
<1>1. u \in Users /\ users[u].pw # None
  BY DEF ChangeWrite, Inv, LocalsOK, LocalsOf, WithUser
<1>2. \A t \in Tokens : LinkState(t)' = LinkState(t)
  <2>1. \A q \in Requests, pc \in ClaimSteps :
          /\ req'[q].pc = pc <=> req[q].pc = pc
          /\ req[q].pc = pc => req'[q].token = req[q].token
    BY DEF ChangeWrite, End, Idle, Inv, TypeOK, ClaimSteps
  <2>2. QED
    BY <2>1, ClaimsUnmoved DEF ChangeWrite
<1>3. \A v \in Users : users'[v].pw = IF v = u THEN p ELSE users[v].pw
  BY <1>1 DEF ChangeWrite, Inv, TypeOK, UserRow
<1>4. Links!Change(u, p)
  BY <1>1, <1>2, <1>3 DEF Links!Change, ChangeWrite
<1>5. QED
  BY <1>1, <1>4 DEF Links!Next

LEMMA UndoImplements ==
  ASSUME Inv, NEW r \in Requests, DeliverUndo(r)
  PROVE  [Links!Next]_Links!vars
<1>1. PICK t \in Tokens : t = req[r].token /\ tokens[t].state # "unissued"
  BY DEF DeliverUndo, Inv, LocalsOK, LocalsOf, WithToken
<1>2. \A q \in Requests :
        /\ \A pc \in ClaimSteps : /\ req'[q].pc = pc <=> req[q].pc = pc
                                  /\ req[q].pc = pc => req'[q].token = req[q].token
        /\ req[q].pc = "reset_write" => tokens[req[q].token].state = "used"
  BY DEF ClaimSteps, DeliverUndo, Goto, Inv, TypeOK, Request, LocalsOK, LocalsOf
<1>3. /\ tokens'[t].state = "used"
      /\ \A x \in Tokens : /\ tokens'[x].owner = tokens[x].owner
                           /\ tokens'[x].purpose = tokens[x].purpose
                           /\ x # t => tokens'[x] = tokens[x]
  BY <1>1 DEF DeliverUndo, Inv, TypeOK, TokenRow
<1>4. UNCHANGED users
  BY DEF DeliverUndo
<1>5. \A x \in Tokens \ {t} : LinkState(x)' = LinkState(x)
  BY <1>2, <1>3 DEF LinkState, Holds, ClaimSteps
<1>6. CASE LinkState(t) = "live"
  <2>1. LinkState(t)' = "dead"
    BY <1>2, <1>3, <1>6 DEF LinkState, Holds, ClaimSteps
  <2>2. Links!Void(t)
    BY <1>1, <1>3, <1>4, <1>5, <1>6, <2>1 DEF Links!Void
  <2>3. QED
    BY <1>1, <2>2 DEF Links!Next
<1>7. CASE LinkState(t) # "live"
  <2>1. LinkState(t)' = LinkState(t)
    BY <1>1, <1>2, <1>3, <1>7 DEF LinkState, Holds, ClaimSteps, Inv, TypeOK, TokenRow
  <2>2. QED
    BY <1>3, <1>4, <1>5, <2>1, LinksUnmoved
<1>8. QED
  BY <1>6, <1>7

LEMMA StopImplements ==
  ASSUME Inv, NEW r \in Requests, Stop(r)
  PROVE  [Links!Next]_Links!vars
<1>1. /\ \A q \in Requests \ {r} : req'[q] = req[q]
      /\ req'[r].pc = "idle"
      /\ UNCHANGED <<users, tokens>>
  BY DEF Stop, End, Idle, Inv, TypeOK
<1>2. CASE req[r].pc = "reset_write"
  <2>1. PICK t \in Tokens : t = req[r].token /\ tokens[t].state = "used"
    BY <1>2 DEF Inv, LocalsOK, LocalsOf, WithToken
  <2>2. \A q \in Requests \ {r} : req[q].pc = "reset_write" => req[q].token # t
    BY <1>2, <2>1 DEF Inv, ClaimIsExclusive
  <2>3. LinkState(t) = "claimed" /\ LinkState(t)' = "dead"
    BY <1>1, <1>2, <2>1, <2>2 DEF LinkState, Holds
  <2>4. \A x \in Tokens \ {t} : LinkState(x)' = LinkState(x)
    BY <1>1, <1>2, <2>1 DEF LinkState, Holds
  <2>5. Links!Void(t)
    BY <1>1, <2>1, <2>3, <2>4 DEF Links!Void
  <2>6. QED
    BY <2>1, <2>5 DEF Links!Next
<1>3. CASE req[r].pc = "reset_claim"
  <2>1. PICK t \in Tokens : t = req[r].token /\ tokens[t].state # "unissued"
    BY <1>3 DEF Inv, LocalsOK, LocalsOf, WithToken
  <2>2. \A x \in Tokens \ {t} : LinkState(x)' = LinkState(x)
    BY <1>1, <1>3, <2>1 DEF LinkState, Holds
  <2>3. CASE LinkState(t)' = LinkState(t)
    BY <1>1, <2>2, <2>3, LinksUnmoved
  <2>4. CASE LinkState(t)' # LinkState(t)
    <3>1. LinkState(t) = "live" /\ LinkState(t)' = "dead"
      BY <1>1, <1>3, <2>1, <2>4 DEF LinkState, Holds
    <3>2. Links!Void(t)
      BY <1>1, <2>1, <2>2, <3>1 DEF Links!Void
    <3>3. QED
      BY <2>1, <3>2 DEF Links!Next
  <2>5. QED
    BY <2>3, <2>4
<1>4. CASE req[r].pc \notin ClaimSteps
  <2>1. ClaimsSteady
    BY <1>1, <1>4 DEF ClaimsSteady, ClaimSteps
  <2>2. QED
    BY <1>1, <2>1, SteadyStutters
<1>5. QED
  BY <1>2, <1>3, <1>4 DEF ClaimSteps

LEMMA SessionImplements ==
  ASSUME Inv, SessionNext
  PROVE  [Links!Next]_Links!vars
<1>1. CASE \E r \in Requests, u \in Users, p \in Passwords : LoginVerify(r, u, p)
  <2>1. ClaimsSteady
    BY <1>1 DEF LoginVerify, Open, Idle, ClaimsSteady, ClaimSteps, Inv, TypeOK
  <2>2. UNCHANGED <<users, tokens>>
    BY <1>1 DEF LoginVerify
  <2>3. QED
    BY <2>1, <2>2, SteadyStutters
<1>2. CASE \E r \in Requests, s \in Sessions : LoginInsert(r, s)
  <2>1. ClaimsSteady
    BY <1>2 DEF LoginInsert, End, Idle, ClaimsSteady, ClaimSteps, Inv, TypeOK
  <2>2. UNCHANGED <<users, tokens>>
    BY <1>2 DEF LoginInsert
  <2>3. QED
    BY <2>1, <2>2, SteadyStutters
<1>3. CASE \E s \in Sessions : Logout(s) \/ SessionExpires(s)
  <2>1. UNCHANGED <<users, tokens, req>>
    BY <1>3 DEF Logout, SessionExpires
  <2>2. QED
    BY <2>1, SteadyStutters DEF ClaimsSteady
<1>4. CASE \E r \in Requests, s \in Sessions, p \in Passwords :
             ChangeAuthenticate(r, s, p)
  <2>1. ClaimsSteady
    BY <1>4 DEF ChangeAuthenticate, Open, Idle, ClaimsSteady, ClaimSteps, Inv, TypeOK
  <2>2. UNCHANGED <<users, tokens>>
    BY <1>4 DEF ChangeAuthenticate
  <2>3. QED
    BY <2>1, <2>2, SteadyStutters
<1>5. CASE \E r \in Requests : ChangeVerify(r)
  <2>1. ClaimsSteady
    BY <1>5 DEF ChangeVerify, Goto, ClaimsSteady, ClaimSteps, Inv, TypeOK, Request
  <2>2. UNCHANGED <<users, tokens>>
    BY <1>5 DEF ChangeVerify
  <2>3. QED
    BY <2>1, <2>2, SteadyStutters
<1>6. CASE \E r \in Requests, p \in Passwords : ChangeWrite(r, p)
  BY <1>6, ChangeImplements
<1>7. QED
  BY <1>1, <1>2, <1>3, <1>4, <1>5, <1>6 DEF SessionNext

LEMMA LinkImplements ==
  ASSUME Inv, LinkNext
  PROVE  [Links!Next]_Links!vars
<1>1. CASE \E r \in Requests, u \in Users : ForgotRead(r, u)
  <2>1. ClaimsSteady
    BY <1>1 DEF ForgotRead, Open, Idle, ClaimsSteady, ClaimSteps, Inv, TypeOK
  <2>2. UNCHANGED <<users, tokens>>
    BY <1>1 DEF ForgotRead
  <2>3. QED
    BY <2>1, <2>2, SteadyStutters
<1>2. CASE \E r \in Requests, t \in Tokens : ForgotIssue(r, t)
  BY <1>2, IssueImplements
<1>3. CASE \E r \in Requests : ForgotMail(r)
  <2>1. ClaimsSteady
    BY <1>3 DEF ForgotMail, End, Idle, ClaimsSteady, ClaimSteps, Inv, TypeOK
  <2>2. UNCHANGED users
    BY <1>3 DEF ForgotMail
  <2>3. TokensSteady
    BY <1>3 DEF ForgotMail, TokensSteady, Inv, TypeOK, TokenRow
  <2>4. QED
    BY <2>1, <2>2, <2>3, SteadyStutters
<1>4. CASE \E t \in Tokens : TokenExpires(t)
  BY <1>4, ExpiryImplements
<1>5. CASE \E r \in Requests, t \in Tokens : ResetRead(r, t)
  BY <1>5, ReadImplements
<1>6. CASE \E r \in Requests : ResetClaim(r)
  BY <1>6, ClaimImplements
<1>7. CASE \E r \in Requests, p \in Passwords : ResetWrite(r, p)
  BY <1>7, WriteImplements
<1>8. QED
  BY <1>1, <1>2, <1>3, <1>4, <1>5, <1>6, <1>7 DEF LinkNext

(* The admin routes before they reach the delivery of a link.              *)
LEMMA AdminImplements ==
  ASSUME Inv, AdminNext
  PROVE  [Links!Next]_Links!vars
<1>1. CASE \E r \in Requests, s \in Sessions : AdminStart(r, s)
  <2>1. ClaimsSteady
    BY <1>1 DEF AdminStart, Open, Idle, ClaimsSteady, ClaimSteps, Inv, TypeOK
  <2>2. UNCHANGED <<users, tokens>>
    BY <1>1 DEF AdminStart
  <2>3. QED
    BY <2>1, <2>2, SteadyStutters
<1>2. CASE \E r \in Requests, u \in Users, isAdmin \in BOOLEAN :
             CreateUser(r, u, isAdmin)
  <2>1. ClaimsSteady
    BY <1>2 DEF CreateUser, ClaimsSteady, ClaimSteps, Inv, TypeOK, Request
  <2>2. \A u \in Users : users'[u].pw = users[u].pw
    BY <1>2 DEF CreateUser, NoAccount, Inv, TypeOK, UserRow, RowsOK, AbsentIsEmpty
  <2>3. UNCHANGED tokens
    BY <1>2 DEF CreateUser
  <2>4. QED
    BY <2>1, <2>2, <2>3, SteadyStutters
<1>3. CASE \E r \in Requests, u \in Users, active, isAdmin \in BOOLEAN :
             PatchRead(r, u, active, isAdmin)
  <2>1. ClaimsSteady
    BY <1>3 DEF PatchRead, Idle, ClaimsSteady, ClaimSteps, Inv, TypeOK, Request
  <2>2. UNCHANGED <<users, tokens>>
    BY <1>3 DEF PatchRead
  <2>3. QED
    BY <2>1, <2>2, SteadyStutters
<1>4. CASE \E r \in Requests : PatchCount(r)
  <2>1. ClaimsSteady
    BY <1>4 DEF PatchCount, Goto, ClaimsSteady, ClaimSteps, Inv, TypeOK, Request
  <2>2. UNCHANGED <<users, tokens>>
    BY <1>4 DEF PatchCount
  <2>3. QED
    BY <2>1, <2>2, SteadyStutters
<1>5. CASE \E r \in Requests : PatchWrite(r)
  <2>1. ClaimsSteady
    BY <1>5 DEF PatchWrite, End, Idle, ClaimsSteady, ClaimSteps, Inv, TypeOK
  <2>2. \A u \in Users : users'[u].pw = users[u].pw
    BY <1>5 DEF PatchWrite, Inv, TypeOK, UserRow
  <2>3. UNCHANGED tokens
    BY <1>5 DEF PatchWrite
  <2>4. QED
    BY <2>1, <2>2, <2>3, SteadyStutters
<1>6. CASE \E r \in Requests, u \in Users : RevokeSessions(r, u) \/ ResendRead(r, u)
  <2>1. ClaimsSteady
    BY <1>6 DEF RevokeSessions, ResendRead, End, Idle, ClaimsSteady, ClaimSteps, Inv, TypeOK,
                Request
  <2>2. UNCHANGED <<users, tokens>>
    BY <1>6 DEF RevokeSessions, ResendRead
  <2>3. QED
    BY <2>1, <2>2, SteadyStutters
<1>7. CASE \E r \in Requests, t \in Tokens : DeliverIssue(r, t)
  BY <1>7, IssueImplements
<1>8. CASE \E r \in Requests : DeliverIssueFails(r)
  <2>1. ClaimsSteady
    BY <1>8 DEF DeliverIssueFails, Goto, ClaimsSteady, ClaimSteps, Inv, TypeOK, Request
  <2>2. UNCHANGED <<users, tokens>>
    BY <1>8 DEF DeliverIssueFails
  <2>3. QED
    BY <2>1, <2>2, SteadyStutters
<1>9. CASE \E r \in Requests : DeliverMail(r)
  <2>1. ClaimsSteady
    BY <1>9 DEF DeliverMail, Goto, ClaimsSteady, ClaimSteps, Inv, TypeOK, Request
  <2>2. UNCHANGED users
    BY <1>9 DEF DeliverMail
  <2>3. TokensSteady
    BY <1>9 DEF DeliverMail, TokensSteady, Inv, TypeOK, TokenRow
  <2>4. QED
    BY <2>1, <2>2, <2>3, SteadyStutters
<1>10. CASE \E r \in Requests : DeliverUndo(r)
  BY <1>10, UndoImplements
<1>11. CASE \E r \in Requests : DeliverFailed(r) \/ DeliverSent(r)
  <2>1. ClaimsSteady
    BY <1>11 DEF DeliverFailed, DeliverSent, End, Idle, ClaimsSteady, ClaimSteps, Inv, TypeOK
  <2>2. \A u \in Users : users'[u].pw = users[u].pw
    BY <1>11 DEF DeliverFailed, DeliverSent, Inv, TypeOK, UserRow
  <2>3. UNCHANGED tokens
    BY <1>11 DEF DeliverFailed, DeliverSent
  <2>4. QED
    BY <2>1, <2>2, <2>3, SteadyStutters
<1>12. QED
  BY <1>1, <1>2, <1>3, <1>4, <1>5, <1>6, <1>7, <1>8, <1>9, <1>10, <1>11
  DEF AdminNext

(* Every behaviour of the handlers is a behaviour of SetupLinks: no link   *)
(* is redeemed twice, no invitation is claimed for an account with a       *)
(* password, and passwords change only through a claim or by their owner.  *)
THEOREM Implements == Spec => ImplementsSetupLinks
<1>1. Inv /\ [Next]_vars => [Links!Next]_Links!vars
  <2> SUFFICES ASSUME Inv, [Next]_vars
               PROVE  [Links!Next]_Links!vars
    OBVIOUS
  <2>1. CASE SessionNext
    BY <2>1, SessionImplements
  <2>2. CASE LinkNext
    BY <2>2, LinkImplements
  <2>3. CASE AdminNext
    BY <2>3, AdminImplements
  <2>4. CASE \E r \in Requests : Stop(r)
    BY <2>4, StopImplements
  <2>5. CASE UNCHANGED vars
    BY <2>5, SteadyStutters DEF vars, ClaimsSteady
  <2>6. QED
    BY <2>1, <2>2, <2>3, <2>4, <2>5 DEF Next
<1>2. QED
  BY InitImplements, Invariance, <1>1, PTL DEF Spec, ImplementsSetupLinks, Links!Spec

-----------------------------------------------------------------------------
(* What the handlers promise one at a time, and how little of that is      *)
(* needed: no two PATCH requests at once for the last administrator, no    *)
(* two requests about the same account at once for its sessions.           *)

Patching == {"patch_count", "patch_write"}

PatchesSerial ==
  \A r, q \in Requests : req[r].pc \in Patching /\ req[q].pc \in Patching => r = q

About(r, u) == req[r].pc # "idle" /\ req[r].user = u

AccountsSerial ==
  \A r, q \in Requests, u \in Users : About(r, u) /\ About(q, u) => r = q

(* A step that leaves the accounts, the usable sessions and the requests   *)
(* about to log in or to patch as they are, or ends some of them.          *)
Steady ==
  /\ \A u \in Users : /\ users'[u].active = users[u].active
                       /\ users'[u].admin = users[u].admin
                       /\ users'[u].pw = users[u].pw
  /\ \A s \in Sessions : sessions'[s].state = "live" =>
       /\ sessions[s].state = "live" /\ sessions'[s].user = sessions[s].user
       /\ sessions'[s].cred = sessions[s].cred
  /\ \A r \in Requests :
       req'[r].pc \in Patching \cup {"login_insert"} => req'[r] = req[r]

LEMMA SteadyRequest ==
  ASSUME Inv, NEW r \in Requests, NEW new, new.pc \notin Patching \cup {"login_insert"},
         req' = [req EXCEPT ![r] = new]
  PROVE  \A q \in Requests :
           req'[q].pc \in Patching \cup {"login_insert"} => req'[q] = req[q]
BY DEF Inv, TypeOK

LEMMA SteadyGoto ==
  ASSUME Inv, NEW r \in Requests, NEW pc, Goto(r, pc),
         pc \notin Patching \cup {"login_insert"}
  PROVE  \A q \in Requests :
           req'[q].pc \in Patching \cup {"login_insert"} => req'[q] = req[q]
BY DEF Inv, TypeOK, Request, Goto

LEMMA SteadyEnd ==
  ASSUME Inv, NEW r \in Requests, End(r)
  PROVE  \A q \in Requests :
           req'[q].pc \in Patching \cup {"login_insert"} => req'[q] = req[q]
<1>1. Idle.pc \notin Patching \cup {"login_insert"}
  BY DEF Idle, Patching
<1>2. QED
  BY <1>1, SteadyRequest DEF End

(* Most steps are steady.                                                  *)
SteadyStep ==
  \/ \E s \in Sessions : Logout(s) \/ SessionExpires(s)
  \/ \E r \in Requests, s \in Sessions, p \in Passwords : ChangeAuthenticate(r, s, p)
  \/ \E r \in Requests : ChangeVerify(r)
  \/ \E r \in Requests, u \in Users : ForgotRead(r, u)
  \/ \E r \in Requests, t \in Tokens : ForgotIssue(r, t)
  \/ \E r \in Requests : ForgotMail(r)
  \/ \E t \in Tokens : TokenExpires(t)
  \/ \E r \in Requests, t \in Tokens : ResetRead(r, t)
  \/ \E r \in Requests : ResetClaim(r)
  \/ \E r \in Requests, s \in Sessions : AdminStart(r, s)
  \/ \E r \in Requests, u \in Users : RevokeSessions(r, u) \/ ResendRead(r, u)
  \/ \E r \in Requests, t \in Tokens : DeliverIssue(r, t)
  \/ \E r \in Requests : \/ DeliverIssueFails(r)
                         \/ DeliverMail(r)
                         \/ DeliverUndo(r)
                         \/ DeliverFailed(r)
                         \/ DeliverSent(r)
                         \/ Stop(r)

LEMMA SteadySteps ==
  ASSUME Inv, SteadyStep
  PROVE  Steady
<1> DEFINE Locals == \A q \in Requests :
             req'[q].pc \in Patching \cup {"login_insert"} => req'[q] = req[q]
           Logins == \A s \in Sessions : sessions'[s].state = "live" =>
             /\ sessions[s].state = "live" /\ sessions'[s].user = sessions[s].user
             /\ sessions'[s].cred = sessions[s].cred
           Accounts == \A u \in Users : /\ users'[u].active = users[u].active
                                        /\ users'[u].admin = users[u].admin
                                        /\ users'[u].pw = users[u].pw
<1>1. Locals
  <2>1. ASSUME NEW r \in Requests, \E pc \in Steps \ (Patching \cup {"login_insert"}) : Goto(r, pc)
        PROVE  Locals
    BY <2>1, SteadyGoto
  <2>2. ASSUME NEW r \in Requests, End(r) PROVE Locals
    BY <2>2, SteadyEnd
  <2>3. ASSUME UNCHANGED req PROVE Locals
    BY <2>3
  <2>4. ASSUME NEW r \in Requests, NEW s \in Sessions, NEW p \in Passwords,
               ChangeAuthenticate(r, s, p)
        PROVE  Locals
    <3>1. [Idle EXCEPT !.pc = "change_read", !.pw = p, !.user = sessions[s].user].pc
            = "change_read"
      BY DEF Idle
    <3>2. QED
      BY <2>4, <3>1, SteadyRequest DEF ChangeAuthenticate, Open, Patching
  <2>5. ASSUME NEW r \in Requests, NEW u \in Users, ForgotRead(r, u)
        PROVE  Locals
    <3>1. [Idle EXCEPT !.pc = "forgot_issue", !.user = u].pc = "forgot_issue"
      BY DEF Idle
    <3>2. QED
      BY <2>5, <3>1, SteadyRequest DEF ForgotRead, Open, Patching
  <2>6. ASSUME NEW r \in Requests, NEW t \in Tokens, ForgotIssue(r, t) \/ DeliverIssue(r, t)
        PROVE  Locals
    BY <2>6 DEF ForgotIssue, DeliverIssue, Inv, TypeOK, Request, Patching
  <2>7. ASSUME NEW r \in Requests, NEW t \in Tokens, ResetRead(r, t)
        PROVE  Locals
    <3>1. [Idle EXCEPT !.pc = "reset_claim", !.token = t, !.user = tokens[t].owner].pc
            = "reset_claim"
      BY DEF Idle
    <3>2. QED
      BY <2>7, <3>1, SteadyRequest DEF ResetRead, Open, Patching
  <2>8. ASSUME NEW r \in Requests, NEW s \in Sessions, AdminStart(r, s)
        PROVE  Locals
    <3>1. [Idle EXCEPT !.pc = "admin"].pc = "admin"
      BY DEF Idle
    <3>2. QED
      BY <2>8, <3>1, SteadyRequest DEF AdminStart, Open, Patching
  <2>9. ASSUME NEW r \in Requests, NEW u \in Users, ResendRead(r, u)
        PROVE  Locals
    BY <2>9 DEF ResendRead, Inv, TypeOK, Request, Patching
  <2>10. ASSUME NEW r \in Requests, DeliverMail(r)
         PROVE  Locals
    BY <2>1, <2>10 DEF DeliverMail, Steps, Patching
  <2>11. ASSUME NEW r \in Requests,
                ChangeVerify(r) \/ ResetClaim(r) \/ DeliverIssueFails(r) \/ DeliverUndo(r)
         PROVE  Locals
    BY <2>1, <2>11 DEF ChangeVerify, ResetClaim, DeliverIssueFails, DeliverUndo, Steps, Patching
  <2>12. ASSUME NEW r \in Requests,
                \/ ForgotMail(r) \/ DeliverFailed(r) \/ DeliverSent(r) \/ Stop(r)
                \/ \E u \in Users : RevokeSessions(r, u)
         PROVE  Locals
    BY <2>2, <2>12 DEF ForgotMail, DeliverFailed, DeliverSent, Stop, RevokeSessions
  <2>13. ASSUME \/ \E s \in Sessions : Logout(s) \/ SessionExpires(s)
                \/ \E t \in Tokens : TokenExpires(t)
         PROVE  Locals
    BY <2>3, <2>13 DEF Logout, SessionExpires, TokenExpires
  <2> HIDE DEF Locals
  <2>14. QED
    BY <2>4, <2>5, <2>6, <2>7, <2>8, <2>9, <2>10, <2>11, <2>12, <2>13 DEF SteadyStep
<1>2. Logins
  <2>1. ASSUME NEW s \in Sessions, Logout(s) \/ SessionExpires(s) PROVE Logins
    <3>1. PICK state \in {"revoked", "expired"} : sessions' = [sessions EXCEPT ![s].state = state]
      BY <2>1 DEF Logout, SessionExpires
    <3>2. sessions \in [Sessions -> SessionRow] /\ sessions'[s].state = state
      BY <3>1 DEF Inv, TypeOK, SessionRow
    <3>3. \A x \in Sessions \ {s} : sessions'[x] = sessions[x]
      BY <3>1, <3>2
    <3>4. QED
      BY <3>2, <3>3
  <2>2. ASSUME NEW r \in Requests, NEW u \in Users, RevokeSessions(r, u) PROVE Logins
    BY <2>2 DEF RevokeSessions, Revoked, Inv, TypeOK
  <2>3. ASSUME UNCHANGED sessions PROVE Logins
    BY <2>3
  <2> HIDE DEF Logins
  <2>4. QED
    BY <2>1, <2>2, <2>3
    DEF SteadyStep, ChangeAuthenticate, ChangeVerify, ForgotRead, ForgotIssue, ForgotMail,
        TokenExpires, ResetRead, ResetClaim, AdminStart, ResendRead, DeliverIssue,
        DeliverIssueFails, DeliverMail, DeliverUndo, DeliverFailed, DeliverSent, Stop
<1>3. Accounts
  <2>1. ASSUME NEW r \in Requests, DeliverFailed(r) \/ DeliverSent(r) PROVE Accounts
    <3>1. PICK i, t : users' = [users EXCEPT ![req[r].user].invite = i,
                                             ![req[r].user].inviteToken = t]
      BY <2>1 DEF DeliverFailed, DeliverSent
    <3>2. users \in [Users -> UserRow]
      BY DEF Inv, TypeOK
    <3>3. QED
      BY <3>1, <3>2 DEF UserRow
  <2>2. ASSUME UNCHANGED users PROVE Accounts
    BY <2>2
  <2> HIDE DEF Accounts
  <2>3. QED
    BY <2>1, <2>2
    DEF SteadyStep, Logout, SessionExpires, ChangeAuthenticate, ChangeVerify, ForgotRead,
        ForgotIssue, ForgotMail, TokenExpires, ResetRead, ResetClaim, AdminStart,
        RevokeSessions, ResendRead, DeliverIssue, DeliverIssueFails, DeliverMail, DeliverUndo,
        Stop
<1>4. QED
  BY <1>1, <1>2, <1>3 DEF Steady

(* A PATCH about to take the rights of an account leaves an administrator. *)
LastAdminOf(r) ==
  req[r].pc = "patch_write" =>
    \/ \E v \in Users \ {req[r].user} : users[v].active /\ users[v].admin
    \/ req[r].active /\ req[r].admin
    \/ ~(users[req[r].user].active /\ users[req[r].user].admin)

AdminInv == SomeActiveAdmin /\ \A r \in Requests : LastAdminOf(r)

(* Nobody's rights change in a step, and no PATCH comes to its write.      *)
RightsKept ==
  /\ \A u \in Users : /\ users'[u].active = users[u].active
                       /\ users'[u].admin = users[u].admin
  /\ \A r \in Requests : req'[r].pc = "patch_write" => req'[r] = req[r]

LEMMA RightsSteady ==
  ASSUME Inv, AdminInv, RightsKept
  PROVE  AdminInv'
<1>1. \A r \in Requests : req[r].pc = "patch_write" => req[r].user \in Users
  BY DEF Inv, LocalsOK, LocalsOf, WithUser
<1>2. SomeActiveAdmin'
  BY DEF AdminInv, SomeActiveAdmin, RightsKept
<1>3. ASSUME NEW r \in Requests PROVE LastAdminOf(r)'
  BY <1>1, <1>3 DEF AdminInv, LastAdminOf, RightsKept
<1>4. QED
  BY <1>2, <1>3 DEF AdminInv

LEMMA AdminStep ==
  ASSUME Inv, AdminInv, PatchesSerial, Next
  PROVE  AdminInv'
<1> USE DEF Inv
<1>1. CASE SteadyStep
  <2>1. RightsKept
    BY <1>1, SteadySteps DEF Steady, RightsKept, Patching
  <2>2. QED
    BY <2>1, RightsSteady
<1>2. ASSUME NEW r \in Requests, NEW u \in Users, NEW p \in Passwords, LoginVerify(r, u, p)
      PROVE  AdminInv'
  <2>1. [Idle EXCEPT !.pc = "login_insert", !.user = u, !.pw = p].pc = "login_insert"
    BY DEF Idle
  <2>2. RightsKept
    BY <1>2, <2>1 DEF LoginVerify, Open, RightsKept, TypeOK
  <2>3. QED
    BY <2>2, RightsSteady
<1>3. ASSUME NEW r \in Requests, NEW s \in Sessions, LoginInsert(r, s)
      PROVE  AdminInv'
  <2>1. RightsKept
    BY <1>3, SteadyEnd DEF LoginInsert, RightsKept, Patching
  <2>2. QED
    BY <2>1, RightsSteady
<1>4. ASSUME NEW r \in Requests, NEW p \in Passwords, ChangeWrite(r, p) \/ ResetWrite(r, p)
      PROVE  AdminInv'
  <2>1. \A u \in Users : users'[u].active = users[u].active /\ users'[u].admin = users[u].admin
    <3>1. users \in [Users -> UserRow]
      BY DEF TypeOK
    <3>2. CASE ChangeWrite(r, p)
      BY <3>1, <3>2 DEF ChangeWrite, UserRow
    <3>3. CASE ResetWrite(r, p)
      <4>1. users' = [users EXCEPT ![req[r].user].pw = p, ![req[r].user].invite = "none",
                                   ![req[r].user].inviteToken = None]
        BY <3>3 DEF ResetWrite
      <4>2. QED
        BY <3>1, <4>1 DEF UserRow
    <3>4. QED
      BY <1>4, <3>2, <3>3
  <2>2. RightsKept
    BY <1>4, <2>1, SteadyEnd DEF ChangeWrite, ResetWrite, RightsKept, Patching
  <2>3. QED
    BY <2>2, RightsSteady
<1>5. ASSUME NEW r \in Requests, NEW u \in Users, NEW isAdmin \in BOOLEAN,
             CreateUser(r, u, isAdmin)
      PROVE  AdminInv'
  <2>1. \A v \in Users : users[v].exists => users'[v] = users[v]
    BY <1>5 DEF CreateUser, TypeOK
  <2>2. \A v \in Users : users[v].active => users[v].exists
    BY DEF RowsOK, AbsentIsEmpty
  <2>3. \A q \in Requests : req'[q].pc = "patch_write" => req'[q] = req[q]
    BY <1>5 DEF CreateUser, TypeOK, Request
  <2>4. \A q \in Requests : req[q].pc = "patch_write" =>
          req[q].user \in Users /\ users[req[q].user].exists
    BY DEF LocalsOK, LocalsOf, WithUser
  <2>5. SomeActiveAdmin'
    BY <2>1, <2>2 DEF AdminInv, SomeActiveAdmin
  <2>6. ASSUME NEW q \in Requests PROVE LastAdminOf(q)'
    BY <2>1, <2>2, <2>3, <2>4, <2>6 DEF AdminInv, LastAdminOf
  <2>7. QED
    BY <2>5, <2>6 DEF AdminInv
<1>6. ASSUME NEW r \in Requests, NEW u \in Users, NEW active \in BOOLEAN,
             NEW isAdmin \in BOOLEAN, PatchRead(r, u, active, isAdmin)
      PROVE  AdminInv'
  <2> DEFINE last == users[u].admin /\ users[u].active /\ ~(active /\ isAdmin)
             was == users[u].active
             pc == IF last THEN "patch_count" ELSE "patch_write"
             new == [Idle EXCEPT !.user = u, !.rowActive = was, !.active = active,
                                 !.admin = isAdmin, !.pc = pc]
  <2>1. req' = [req EXCEPT ![r] = new] /\ UNCHANGED users
    BY <1>6 DEF PatchRead
  <2> HIDE DEF was, pc
  <2>2. new.pc = pc /\ new.user = u /\ new.active = active /\ new.admin = isAdmin
    BY DEF Idle
  <2> HIDE DEF new
  <2>3. req'[r] = new /\ \A q \in Requests \ {r} : req'[q] = req[q]
    BY <2>1 DEF TypeOK
  <2>4. LastAdminOf(r)'
    BY <2>1, <2>2, <2>3 DEF LastAdminOf, pc
  <2>5. ASSUME NEW q \in Requests \ {r} PROVE LastAdminOf(q)'
    BY <2>1, <2>3 DEF AdminInv, LastAdminOf
  <2>6. QED
    BY <2>1, <2>4, <2>5 DEF AdminInv, SomeActiveAdmin
<1>7. ASSUME NEW r \in Requests, PatchCount(r)
      PROVE  AdminInv'
  <2>1. /\ req'[r].pc = "patch_write" /\ req'[r].user = req[r].user
        /\ \A q \in Requests \ {r} : req'[q] = req[q]
    BY <1>7 DEF PatchCount, Goto, TypeOK, Request
  <2>2. LastAdminOf(r)'
    BY <1>7, <2>1 DEF PatchCount, LastAdminOf
  <2>3. ASSUME NEW q \in Requests \ {r} PROVE LastAdminOf(q)'
    BY <1>7, <2>1 DEF PatchCount, AdminInv, LastAdminOf
  <2>4. QED
    BY <1>7, <2>2, <2>3 DEF PatchCount, AdminInv, SomeActiveAdmin
<1>8. ASSUME NEW r \in Requests, PatchWrite(r)
      PROVE  AdminInv'
  <2>1. PICK u \in Users : u = req[r].user
    BY <1>8 DEF PatchWrite, LocalsOK, LocalsOf, WithUser
  <2>2. users'[u].active = req[r].active /\ users'[u].admin = req[r].admin
    BY <1>8, <2>1 DEF PatchWrite, TypeOK, UserRow
  <2>3. \A v \in Users \ {u} : users'[v] = users[v]
    BY <1>8, <2>1 DEF PatchWrite, TypeOK
  <2>4. \A q \in Requests : req'[q].pc # "patch_write"
    <3>1. req'[r] = Idle /\ \A q \in Requests \ {r} : req'[q] = req[q]
      BY <1>8 DEF PatchWrite, End, TypeOK
    <3>2. \A q \in Requests \ {r} : req[q].pc # "patch_write"
      BY <1>8 DEF PatchesSerial, Patching, PatchWrite
    <3>3. QED
      BY <3>1, <3>2 DEF Idle
  <2>5. SomeActiveAdmin'
    <3>1. LastAdminOf(r) /\ SomeActiveAdmin
      BY DEF AdminInv
    <3>2. CASE \E v \in Users \ {u} : users[v].active /\ users[v].admin
      BY <2>3, <3>2 DEF SomeActiveAdmin
    <3>3. CASE req[r].active /\ req[r].admin
      BY <2>2, <3>3 DEF SomeActiveAdmin
    <3>4. CASE ~(users[u].active /\ users[u].admin)
      BY <3>1, <3>2, <3>4 DEF SomeActiveAdmin
    <3>5. QED
      BY <1>8, <2>1, <3>1, <3>2, <3>3, <3>4 DEF LastAdminOf, PatchWrite
  <2>6. QED
    BY <2>4, <2>5 DEF AdminInv, LastAdminOf
<1>9. QED
  BY <1>1, <1>2, <1>3, <1>4, <1>5, <1>6, <1>7, <1>8
  DEF Next, SessionNext, LinkNext, AdminNext, SteadyStep

(* What a login has verified and what a PATCH has read of its account is   *)
(* still so, and every usable session is one of an active account, minted  *)
(* with its password.                                                      *)
CurrentOf(r) ==
  /\ req[r].pc = "login_insert" =>
       users[req[r].user].active /\ users[req[r].user].pw = req[r].pw
  /\ req[r].pc \in Patching => req[r].rowActive = users[req[r].user].active

SessionOK(s) ==
  sessions[s].state = "live" =>
    /\ sessions[s].user \in Users
    /\ users[sessions[s].user].active
    /\ sessions[s].cred = users[sessions[s].user].pw

SessionInv ==
  /\ \A s \in Sessions : SessionOK(s)
  /\ \A r \in Requests : CurrentOf(r)

(* No two requests are about the account a request is writing.             *)
LEMMA Alone ==
  ASSUME Inv, AccountsSerial, NEW r \in Requests, NEW u \in Users,
         req[r].pc \in WithUser, req[r].user = u
  PROVE  \A q \in Requests \ {r} : req[q].pc = "idle" \/ req[q].user # u
BY DEF AccountsSerial, About, WithUser

(* A step that writes the account u and nobody's else, and revokes the     *)
(* sessions of u unless what they stand for is still so.                   *)
LEMMA AccountWritten ==
  ASSUME Inv, SessionInv, AccountsSerial, NEW r \in Requests, NEW u \in Users,
         req[r].pc \in WithUser, req[r].user = u, End(r),
         \A v \in Users \ {u} : users'[v] = users[v],
         \/ sessions' = Revoked(u)
         \/ /\ UNCHANGED sessions /\ users'[u].pw = users[u].pw
            /\ users[u].active => users'[u].active
  PROVE  SessionInv'
<1>1. req'[r] = Idle /\ \A q \in Requests \ {r} : req'[q] = req[q]
  BY DEF Inv, TypeOK, End
<1>2. CurrentOf(r)'
  BY <1>1 DEF CurrentOf, Idle, Patching
<1>3. ASSUME NEW q \in Requests \ {r} PROVE CurrentOf(q)'
  <2>1. req[q].pc \in WithUser => req[q].user \in Users \ {u}
    <3>1. req[q].pc = "idle" \/ req[q].user # u
      BY <1>3, Alone
    <3>2. req[q].pc \in WithUser => req[q].user \in Users /\ req[q].pc # "idle"
      BY <1>3 DEF Inv, LocalsOK, LocalsOf, WithUser
    <3>3. QED
      BY <3>1, <3>2
  <2>2. req[q].pc \in Patching \cup {"login_insert"} => req[q].pc \in WithUser
    BY DEF Patching, WithUser
  <2>3. QED
    BY <1>1, <2>1, <2>2 DEF SessionInv, CurrentOf
<1>4. ASSUME NEW s \in Sessions PROVE SessionOK(s)'
  <2>1. CASE sessions' = Revoked(u)
    <3>1. SessionOK(s) /\ sessions'[s] = Revoked(u)[s]
      BY <2>1 DEF SessionInv
    <3>2. sessions'[s].state = "live" =>
            /\ sessions'[s] = sessions[s] /\ sessions[s].state = "live" /\ sessions[s].user # u
      <4> DEFINE old == sessions[s]
                 gone == [old EXCEPT !.state = "revoked"]
      <4>1. old \in SessionRow
        BY DEF Inv, TypeOK
      <4>2. Revoked(u)[s] = IF old.state = "live" /\ old.user = u THEN gone ELSE old
        BY DEF Revoked
      <4> HIDE DEF old
      <4>3. gone.state = "revoked"
        BY <4>1 DEF SessionRow
      <4> HIDE DEF gone
      <4>4. QED
        BY <3>1, <4>2, <4>3 DEF old
    <3>3. QED
      BY <3>1, <3>2 DEF SessionOK
  <2>2. CASE /\ UNCHANGED sessions /\ users'[u].pw = users[u].pw
             /\ users[u].active => users'[u].active
    BY <2>2 DEF SessionInv, SessionOK
  <2>3. QED
    BY <2>1, <2>2
<1>5. QED
  BY <1>2, <1>3, <1>4 DEF SessionInv

LEMMA SessionStep ==
  ASSUME Inv, SessionInv, AccountsSerial, Next
  PROVE  SessionInv'
<1> USE DEF Inv
<1>1. CASE SteadyStep
  <2>1. Steady
    BY <1>1, SteadySteps
  <2>2. \A s \in Sessions : SessionOK(s)'
    BY <2>1 DEF Steady, SessionInv, SessionOK
  <2>3. ASSUME NEW r \in Requests PROVE CurrentOf(r)'
    <3>1. req[r].pc \in Patching \cup {"login_insert"} => req[r].user \in Users
      BY DEF LocalsOK, LocalsOf, WithUser, Patching
    <3>2. QED
      BY <2>1, <3>1 DEF Steady, SessionInv, CurrentOf
  <2>4. QED
    BY <2>2, <2>3 DEF SessionInv
<1>2. ASSUME NEW r \in Requests, NEW u \in Users, NEW p \in Passwords, LoginVerify(r, u, p)
      PROVE  SessionInv'
  <2> DEFINE new == [Idle EXCEPT !.pc = "login_insert", !.user = u, !.pw = p]
  <2>1. new.pc = "login_insert" /\ new.user = u /\ new.pw = p
    BY DEF Idle
  <2>2. req' = [req EXCEPT ![r] = new] /\ UNCHANGED <<users, sessions>>
    BY <1>2 DEF LoginVerify, Open
  <2> HIDE DEF new
  <2>3. req'[r] = new /\ \A q \in Requests \ {r} : req'[q] = req[q]
    BY <2>2 DEF TypeOK
  <2>4. CurrentOf(r)'
    BY <1>2, <2>1, <2>2, <2>3 DEF CurrentOf, LoginVerify, Patching
  <2>5. QED
    BY <2>2, <2>3, <2>4 DEF SessionInv, SessionOK, CurrentOf
<1>3. ASSUME NEW r \in Requests, NEW s \in Sessions, LoginInsert(r, s)
      PROVE  SessionInv'
  <2> DEFINE new == [state |-> "live", user |-> req[r].user, cred |-> req[r].pw]
  <2>1. /\ sessions' = [sessions EXCEPT ![s] = new] /\ UNCHANGED users
        /\ req[r].pc = "login_insert" /\ End(r)
    BY <1>3 DEF LoginInsert
  <2>2. req[r].user \in Users /\ CurrentOf(r)
    BY <2>1 DEF LocalsOK, LocalsOf, WithUser, SessionInv
  <2>3. sessions'[s] = new /\ \A x \in Sessions \ {s} : sessions'[x] = sessions[x]
    BY <2>1 DEF TypeOK
  <2>4. SessionOK(s)'
    BY <2>1, <2>2, <2>3 DEF SessionOK, CurrentOf
  <2>5. \A x \in Sessions \ {s} : SessionOK(x)'
    BY <2>1, <2>3 DEF SessionOK, SessionInv
  <2>6. ASSUME NEW q \in Requests PROVE CurrentOf(q)'
    BY <2>1, SteadyEnd DEF SessionInv, CurrentOf
  <2>7. QED
    BY <2>4, <2>5, <2>6 DEF SessionInv
<1>4. ASSUME NEW r \in Requests, NEW p \in Passwords, ChangeWrite(r, p) \/ ResetWrite(r, p)
      PROVE  SessionInv'
  <2>1. PICK u \in Users : u = req[r].user
    BY <1>4 DEF ChangeWrite, ResetWrite, LocalsOK, LocalsOf, WithUser
  <2>2. req[r].pc \in WithUser /\ End(r) /\ sessions' = Revoked(u)
    BY <1>4, <2>1 DEF ChangeWrite, ResetWrite, WithUser
  <2>3. \A v \in Users \ {u} : users'[v] = users[v]
    <3>1. CASE ChangeWrite(r, p)
      BY <2>1, <3>1 DEF ChangeWrite, TypeOK
    <3>2. CASE ResetWrite(r, p)
      BY <2>1, <3>2 DEF ResetWrite, TypeOK
    <3>3. QED
      BY <1>4, <3>1, <3>2
  <2>4. QED
    BY <2>1, <2>2, <2>3, AccountWritten
<1>5. ASSUME NEW r \in Requests, NEW u \in Users, NEW isAdmin \in BOOLEAN,
             CreateUser(r, u, isAdmin)
      PROVE  SessionInv'
  <2>1. \A v \in Users : users[v].exists => users'[v] = users[v]
    BY <1>5 DEF CreateUser, TypeOK
  <2>2. \A v \in Users : users[v].active => users[v].exists
    BY DEF RowsOK, AbsentIsEmpty
  <2>3. \A q \in Requests : req'[q].pc \in Patching \cup {"login_insert"} => req'[q] = req[q]
    BY <1>5 DEF CreateUser, TypeOK, Request, Patching
  <2>4. \A s \in Sessions : SessionOK(s)'
    BY <1>5, <2>1, <2>2 DEF CreateUser, SessionInv, SessionOK
  <2>5. ASSUME NEW q \in Requests PROVE CurrentOf(q)'
    <3>1. req[q].pc \in Patching \cup {"login_insert"} =>
            req[q].user \in Users /\ users[req[q].user].exists
      BY DEF LocalsOK, LocalsOf, WithUser, Patching
    <3>2. QED
      BY <2>1, <2>3, <3>1 DEF SessionInv, CurrentOf
  <2>6. QED
    BY <2>4, <2>5 DEF SessionInv
<1>6. ASSUME NEW r \in Requests, NEW u \in Users, NEW active \in BOOLEAN,
             NEW isAdmin \in BOOLEAN, PatchRead(r, u, active, isAdmin)
      PROVE  SessionInv'
  <2> DEFINE last == users[u].admin /\ users[u].active /\ ~(active /\ isAdmin)
             was == users[u].active
             pc == IF last THEN "patch_count" ELSE "patch_write"
             new == [Idle EXCEPT !.user = u, !.rowActive = was, !.active = active,
                                 !.admin = isAdmin, !.pc = pc]
  <2>1. req' = [req EXCEPT ![r] = new] /\ UNCHANGED <<users, sessions>>
    BY <1>6 DEF PatchRead
  <2>2. pc # "login_insert"
    OBVIOUS
  <2> HIDE DEF was, pc
  <2>3. new.pc = pc /\ new.user = u /\ new.rowActive = was
    BY DEF Idle
  <2> HIDE DEF new
  <2>4. req'[r] = new /\ \A q \in Requests \ {r} : req'[q] = req[q]
    BY <2>1 DEF TypeOK
  <2>5. CurrentOf(r)'
    BY <2>1, <2>2, <2>3, <2>4 DEF CurrentOf, was
  <2>6. QED
    BY <2>1, <2>4, <2>5 DEF SessionInv, SessionOK, CurrentOf
<1>7. ASSUME NEW r \in Requests, PatchCount(r)
      PROVE  SessionInv'
  <2>1. /\ req'[r].pc = "patch_write" /\ req'[r].user = req[r].user
        /\ req'[r].rowActive = req[r].rowActive /\ req[r].pc \in Patching
        /\ \A q \in Requests \ {r} : req'[q] = req[q]
        /\ UNCHANGED <<users, sessions>>
    BY <1>7 DEF PatchCount, Goto, TypeOK, Request, Patching
  <2>2. CurrentOf(r)'
    BY <2>1 DEF SessionInv, CurrentOf
  <2>3. QED
    BY <2>1, <2>2 DEF SessionInv, SessionOK, CurrentOf
<1>8. ASSUME NEW r \in Requests, PatchWrite(r)
      PROVE  SessionInv'
  <2>1. PICK u \in Users : u = req[r].user
    BY <1>8 DEF PatchWrite, LocalsOK, LocalsOf, WithUser
  <2>2. req[r].pc \in WithUser /\ End(r)
    BY <1>8 DEF PatchWrite, WithUser
  <2>3. users'[u].active = req[r].active /\ users'[u].pw = users[u].pw
    BY <1>8, <2>1 DEF PatchWrite, TypeOK, UserRow
  <2>4. \A v \in Users \ {u} : users'[v] = users[v]
    BY <1>8, <2>1 DEF PatchWrite, TypeOK
  <2>5. req[r].rowActive = users[u].active
    BY <1>8, <2>1 DEF PatchWrite, SessionInv, CurrentOf, Patching
  <2>6. \/ sessions' = Revoked(u)
        \/ UNCHANGED sessions /\ (users[u].active => users'[u].active)
    BY <1>8, <2>1, <2>3, <2>5 DEF PatchWrite
  <2>7. QED
    BY <2>1, <2>2, <2>3, <2>4, <2>6, AccountWritten
<1>9. QED
  BY <1>1, <1>2, <1>3, <1>4, <1>5, <1>6, <1>7, <1>8
  DEF Next, SessionNext, LinkNext, AdminNext, SteadyStep

LEMMA SerialInit == Init => AdminInv /\ SessionInv
<1> SUFFICES ASSUME Init PROVE AdminInv /\ SessionInv
  OBVIOUS
<1>1. \A r \in Requests : req[r].pc = "idle"
  BY DEF Init, Idle
<1>2. \A s \in Sessions : sessions[s].state = "free"
  BY DEF Init
<1>3. users[Root].active /\ users[Root].admin
  BY ConstantsAssumption DEF Init, RootAccount, NoAccount
<1>4. QED
  BY <1>1, <1>2, <1>3, ConstantsAssumption
  DEF AdminInv, SessionInv, SomeActiveAdmin, LastAdminOf, CurrentOf, SessionOK, Patching

LEMMA SerialStutter ==
  ASSUME UNCHANGED vars
  PROVE  (AdminInv => AdminInv') /\ (SessionInv => SessionInv')
BY DEF vars, AdminInv, SessionInv, SomeActiveAdmin, LastAdminOf, CurrentOf, SessionOK

(* "the last active administrator cannot be deactivated or demoted", if    *)
(* PATCH requests do not overlap, whatever else does: the count of the     *)
(* others and the write are statements apart.                              *)
THEOREM SerialPatchesKeepAdmin == Spec /\ []PatchesSerial => []SomeActiveAdmin
<1>1. Inv /\ AdminInv /\ PatchesSerial /\ [Next]_vars => AdminInv'
  BY AdminStep, SerialStutter
<1>2. AdminInv => SomeActiveAdmin
  BY DEF AdminInv
<1>3. QED
  BY Invariance, SerialInit, <1>1, <1>2, PTL DEF Spec

LEMMA SerialSessions == Spec /\ []AccountsSerial => []SessionInv
<1>1. Inv /\ SessionInv /\ AccountsSerial /\ [Next]_vars => SessionInv'
  BY SessionStep, SerialStutter
<1>2. QED
  BY Invariance, SerialInit, <1>1, PTL DEF Spec

(* "Deactivating a user revokes all their sessions immediately", if no two *)
(* requests about one account overlap: a login that has verified its       *)
(* password inserts its session without looking at the account again.      *)
THEOREM SerialAccountsLogOut == Spec /\ []AccountsSerial => []InactiveHasNoSession
<1>1. SessionInv => InactiveHasNoSession
  BY DEF SessionInv, SessionOK, InactiveHasNoSession
<1>2. QED
  BY SerialSessions, <1>1, PTL

(* "A password change or password reset revokes all sessions and requires  *)
(* a fresh login", under the same condition and for the same reason.       *)
THEOREM SerialAccountsRenew == Spec /\ []AccountsSerial => []SessionsHaveCurrentPassword
<1>1. SessionInv => SessionsHaveCurrentPassword
  BY DEF SessionInv, SessionOK, SessionsHaveCurrentPassword
<1>2. QED
  BY SerialSessions, <1>1, PTL
=============================================================================
