----------------------------- MODULE SetupLinks -----------------------------
(***************************************************************************)
(* What the setup links of cflab promise, with no table, request or mail   *)
(* in sight (docs/AUTH.md, "Password recovery" and "Account-setup          *)
(* invitations"): a link is single-use, issuing one retires the account's  *)
(* others, an invitation is accepted only while the account has no         *)
(* password, and using a link retires the account's other links.           *)
(* HumanAuth implements this specification; see MCHumanAuth.               *)
(***************************************************************************)
CONSTANTS Users, Passwords, Tokens, None

VARIABLES
  link,       \* Tokens -> the life of a link, see LinkStates
  owner,      \* Tokens -> the account it was issued for
  purpose,    \* Tokens -> invitation or recovery
  password    \* Users -> the stored password, None while there is none

vars == <<link, owner, purpose, password>>

LinkStates == {"none", "live", "claimed", "dead"}

TypeOK ==
  /\ link \in [Tokens -> LinkStates]
  /\ owner \in [Tokens -> Users \cup {None}]
  /\ purpose \in [Tokens -> {"recovery", "invite"}]
  /\ password \in [Users -> Passwords \cup {None}]

Init ==
  /\ link = [t \in Tokens |-> "none"]
  /\ owner = [t \in Tokens |-> None]
  /\ purpose = [t \in Tokens |-> "recovery"]
  /\ password \in [Users -> Passwords \cup {None}]

(* The links of u that could still be used die. *)
Retired(u) ==
  [t \in Tokens |-> IF link[t] = "live" /\ owner[t] = u THEN "dead" ELSE link[t]]

Issue(t, u, kind) ==
  /\ link[t] = "none"
  /\ link' = [Retired(u) EXCEPT ![t] = "live"]
  /\ owner' = [owner EXCEPT ![t] = u]
  /\ purpose' = [purpose EXCEPT ![t] = kind]
  /\ UNCHANGED password

(* Submitting a link takes it; only the taker may go on to Redeem. *)
Claim(t) ==
  /\ link[t] = "live"
  /\ purpose[t] = "invite" => password[owner[t]] = None
  /\ link' = [link EXCEPT ![t] = "claimed"]
  /\ UNCHANGED <<owner, purpose, password>>

Redeem(t, p) ==
  /\ link[t] = "claimed"
  /\ link' = [Retired(owner[t]) EXCEPT ![t] = "dead"]
  /\ password' = [password EXCEPT ![owner[t]] = p]
  /\ UNCHANGED <<owner, purpose>>

(* Expiry, a failed mail, or a submission that died half way. *)
Void(t) ==
  /\ link[t] \in {"live", "claimed"}
  /\ link' = [link EXCEPT ![t] = "dead"]
  /\ UNCHANGED <<owner, purpose, password>>

(* The owner of an account changes a password that is already there. *)
Change(u, p) ==
  /\ password[u] # None
  /\ password' = [password EXCEPT ![u] = p]
  /\ UNCHANGED <<link, owner, purpose>>

Next ==
  \/ \E t \in Tokens, u \in Users, kind \in {"recovery", "invite"} :
       Issue(t, u, kind)
  \/ \E t \in Tokens : Claim(t) \/ Void(t)
  \/ \E t \in Tokens, p \in Passwords : Redeem(t, p)
  \/ \E u \in Users, p \in Passwords : Change(u, p)

Spec == Init /\ [][Next]_vars

(* No account ever has two links that could be used. *)
OneLiveLink ==
  \A t1, t2 \in Tokens :
    link[t1] = "live" /\ link[t2] = "live" /\ owner[t1] = owner[t2] => t1 = t2
=============================================================================
