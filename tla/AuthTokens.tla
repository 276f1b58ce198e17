----------------------------- MODULE AuthTokens ------------------------------
(***************************************************************************)
(* How one account is signed in: the one-time links, refresh tokens and    *)
(* OAuth exchange codes of apps/users/authentication.py and                *)
(* apps/users/auth_views.py, and the user snapshot that JWTAuthentication  *)
(* caches.                                                                 *)
(*                                                                         *)
(* Requests run concurrently and none of the views is one transaction.     *)
(* Each reads the User row once, works on that copy, and writes the        *)
(* columns it has changed.  A save is followed by a signal that drops the  *)
(* cached copy.  The admin site is different: it writes every column of    *)
(* the row it read, and its change view is one transaction, so that the    *)
(* signal comes before the commit.                                         *)
(*                                                                         *)
(* The account's version counts its password changes.  Its stamp is the    *)
(* version that password_changed_at was last set for, which is what the    *)
(* pwd_iat of an access token is compared with.  Hashing, e-mail and the   *)
(* checks that reject malformed input are left out; a request with wrong   *)
(* credentials changes nothing.  The expiry of refresh tokens and the      *)
(* deletion of the account, which only take sessions away, are out too.    *)
(***************************************************************************)
EXTENDS Naturals, FiniteSets

CONSTANTS Links,        \* one-time tokens and codes that may be minted
          Sessions,     \* refresh tokens that may be issued
          Requests,
          Ops,          \* kinds of request considered
          MaxVersion    \* bound on password changes

ASSUME TokensAssumption == MaxVersion \in Nat

VARIABLES account,    \* the User row
          link,       \* EmailVerificationToken, PasswordResetToken and SocialLinkRequest
                      \* rows, and token pairs cached under an OAuth exchange code
          session,    \* RefreshToken rows
          cached,     \* the cached copy of the user: its version, or NoCopy
          req,        \* what each request is doing
          redeemed,   \* history: how often each link was redeemed
          mishaps     \* history: what went wrong between two requests

rows == <<account, link, session>>
vars == <<account, link, session, cached, req, redeemed, mishaps>>

LinkKinds == {"verify", "reset", "social", "code"}
NoCopy == MaxVersion + 1
Nothing == "nothing"
NoAccount == [known |-> FALSE, active |-> FALSE, verified |-> FALSE,
              password |-> FALSE, version |-> 0, stamp |-> 0]
Accounts == [known : BOOLEAN, active : BOOLEAN, verified : BOOLEAN,
             password : BOOLEAN, version : 0..MaxVersion, stamp : 0..MaxVersion]
Stages == {"idle", "redeem", "verify", "reset", "social", "drop_copy", "revoke", "issue",
           "mint_verify", "mint_social", "rotate", "issue_code", "consume", "copy", "change",
           "edit", "commit", "admin_reset"}

\* What the history tells apart: a request that died before its last writes, a
\* copy of the user cached after a save that it does not show, one cached
\* while an admin's save was about to commit, and a password change that an
\* admin's save, which had read the row before, put back.
Mishaps == {"cut_short", "late_copy", "early_copy", "undone"}

\* user is the request's copy of the row, item the token it was given, next
\* what follows once the cached copy is dropped.
Idle == [stage |-> "idle", user |-> NoAccount, item |-> Nothing, next |-> "idle"]
Jobs == [stage : Stages, user : Accounts, item : Links \cup Sessions \cup {Nothing}, next : Stages]

LinkRows == [kind : LinkKinds \cup {Nothing},
             state : {"unused", "fresh", "expired", "claimed", "used", "deleted"}]
SessionRows == [state : {"unused", "live", "revoked"}, version : 0..MaxVersion, late : BOOLEAN]

TokensTypeOK ==
    /\ account \in Accounts
    /\ link \in [Links -> LinkRows]
    /\ session \in [Sessions -> SessionRows]
    /\ cached \in 0..NoCopy
    /\ redeemed \in [Links -> Nat]
    /\ mishaps \subseteq Mishaps
    /\ req \in [Requests -> Jobs]

Init ==
    /\ account = NoAccount
    /\ link = [l \in Links |-> [kind |-> Nothing, state |-> "unused"]]
    /\ session = [s \in Sessions |-> [state |-> "unused", version |-> 0, late |-> FALSE]]
    /\ cached = NoCopy
    /\ req = [r \in Requests |-> Idle]
    /\ redeemed = [l \in Links |-> 0]
    /\ mishaps = {}

----------------------------------------------------------------------------
Goto(r, j) == req' = [req EXCEPT ![r] = j]
Finish(r) == Goto(r, Idle)
Start(r, op, stage, user, item) ==
    /\ req[r].stage = "idle" /\ op \in Ops
    /\ Goto(r, [Idle EXCEPT !.stage = stage, !.user = user, !.item = item])

\* Of its copy of the user, a request that only issues tokens uses the version.
Stamp(user) == [NoAccount EXCEPT !.version = user.version]

IssueNext(r) == Goto(r, [Idle EXCEPT !.stage = "issue", !.user = Stamp(req[r].user)])

\* _create_one_time_token, create_refresh_token
Mint(l, kind) ==
    /\ link[l].state = "unused"
    /\ link' = [link EXCEPT ![l] = [kind |-> kind, state |-> "fresh"]]
IssueTo(user, s) ==
    /\ session[s].state = "unused"
    /\ session' = [session EXCEPT ![s] =
          [state |-> "live", version |-> user.version, late |-> user.version < account.stamp]]

\* Unused links of a kind stop working, so that only the newest does.
Superseded(kind) ==
    [l \in Links |-> IF link[l].kind = kind /\ link[l].state \in {"fresh", "expired"}
                     THEN [link[l] EXCEPT !.state = "used"] ELSE link[l]]

Revoked(T) ==
    [s \in Sessions |-> IF s \in T /\ session[s].state = "live"
                        THEN [session[s] EXCEPT !.state = "revoked"] ELSE session[s]]

----------------------------------------------------------------------------
(* Accounts come into being.                                               *)

\* RegisterView: account, verification link and session.
Register(l, s) ==
    /\ ~account.known /\ "register" \in Ops
    /\ account' = [NoAccount EXCEPT !.known = TRUE, !.active = TRUE, !.password = TRUE]
    /\ Mint(l, "verify")
    /\ IssueTo(NoAccount, s)
    /\ UNCHANGED <<cached, req, redeemed, mishaps>>

\* accept_invitation: an account without password, and a link to set one.
AcceptInvitation(l) ==
    /\ ~account.known /\ "invite" \in Ops
    /\ account' = [NoAccount EXCEPT !.known = TRUE, !.active = TRUE]
    /\ Mint(l, "verify")
    /\ UNCHANGED <<session, cached, req, redeemed, mishaps>>

\* resolve_oauth_user: a provider that vouches for the address creates a
\* verified account without password; signing it in is OAuthSignIn's part.
RegisterByProvider ==
    /\ ~account.known /\ "oauth" \in Ops
    /\ account' = [NoAccount EXCEPT !.known = TRUE, !.active = TRUE, !.verified = TRUE]
    /\ UNCHANGED <<link, session, cached, req, redeemed, mishaps>>

----------------------------------------------------------------------------
(* Links.                                                                  *)

\* ForgotPasswordView: earlier links stay good.
ForgotPassword(l) ==
    /\ "forgot" \in Ops /\ account.active
    /\ Mint(l, "reset")
    /\ UNCHANGED <<account, session, cached, req, redeemed, mishaps>>

\* ResendVerificationView, and the collision branch of OAuthCallbackView: the
\* earlier links are spent, then a new one is minted.
Resend(r, kind) ==
    /\ account.active /\ (kind = "verify" => ~account.verified)
    /\ Start(r, kind, IF kind = "verify" THEN "mint_verify" ELSE "mint_social", NoAccount, Nothing)
    /\ link' = Superseded(kind)
    /\ UNCHANGED <<account, session, cached, redeemed, mishaps>>

MintAgain(r, l) ==
    /\ req[r].stage \in {"mint_verify", "mint_social"}
    /\ Mint(l, IF req[r].stage = "mint_verify" THEN "verify" ELSE "social")
    /\ Finish(r)
    /\ UNCHANGED <<account, session, cached, redeemed, mishaps>>

\* Mutant of ReadLink: exchange codes are looked up among the links.
ReadAnyLink(r, l) ==
    /\ link[l].state = "fresh"
    /\ Start(r, "redeem", "redeem", account, l)
    /\ UNCHANGED <<rows, cached, redeemed, mishaps>>

\* _consume_one_time_token: the row is looked up and rejected if it is spent.
ReadLink(r, l) ==
    /\ link[l].kind # "code" /\ link[l].state = "fresh"
    /\ Start(r, "redeem", "redeem", account, l)
    /\ UNCHANGED <<rows, cached, redeemed, mishaps>>

\* Mutant of ConsumeLink: the row read before is taken at its word.
ConsumeLinkAsRead(r) ==
    LET l == req[r].item IN
    /\ req[r].stage = "redeem"
    /\ link' = [link EXCEPT ![l].state = "used"]
    /\ redeemed' = [redeemed EXCEPT ![l] = @ + 1]
    /\ IF req[r].user.active
       THEN Goto(r, [req[r] EXCEPT !.stage = link[l].kind, !.item = Nothing]) ELSE Finish(r)
    /\ UNCHANGED <<account, session, cached, mishaps>>

\* The conditional UPDATE: it changes the row only if nobody has used it, and
\* the request goes on only if it did.  Its clock is the one of the lookup, so
\* a link that expired since then is still taken, unless it has been deleted.
\* The owner is looked at after that.
ConsumeLink(r) ==
    LET l == req[r].item
        won == link[l].state \in {"fresh", "expired"} IN
    /\ req[r].stage = "redeem"
    /\ link' = IF won THEN [link EXCEPT ![l].state = "used"] ELSE link
    /\ redeemed' = IF won THEN [redeemed EXCEPT ![l] = @ + 1] ELSE redeemed
    /\ IF won /\ req[r].user.active
       THEN Goto(r, [req[r] EXCEPT !.stage = link[l].kind, !.item = Nothing]) ELSE Finish(r)
    /\ UNCHANGED <<account, session, cached, mishaps>>

\* Between an admin's UPDATE and its commit every other writer of the row waits.
Unlocked == \A q \in Requests : req[q].stage # "commit"

\* A save of the row; what the request does after the signal comes next.
WriteUser(r, row, next) ==
    /\ Unlocked
    /\ account' = row
    /\ Goto(r, [Idle EXCEPT !.stage = "drop_copy", !.next = next,
                            !.user = Stamp(IF next = "revoke" THEN row ELSE req[r].user)])
    /\ UNCHANGED <<link, session, cached, redeemed>>
SaveUser(r, row, next) == WriteUser(r, row, next) /\ UNCHANGED mishaps

\* VerifyEmailView: an account without password must be given one; without it
\* the answer is 400 and the link is spent.  Nothing to change is not saved.
VerifyEmail(r, given) ==
    LET user == req[r].user IN
    /\ req[r].stage = "verify"
    /\ \/ /\ ~user.password /\ ~given
          /\ Finish(r) /\ UNCHANGED <<rows, cached, redeemed, mishaps>>
       \/ /\ user.password \/ given
          /\ ~(user.password /\ user.verified)
          /\ SaveUser(r, [account EXCEPT !.verified = TRUE, !.password = TRUE], "issue")
       \/ /\ user.password /\ user.verified
          /\ IssueNext(r) /\ UNCHANGED <<rows, cached, redeemed, mishaps>>

\* ResetPasswordView and ChangePasswordView
SetPassword(r) ==
    /\ req[r].stage \in {"reset", "change"} /\ account.version < MaxVersion
    /\ SaveUser(r, [account EXCEPT !.password = TRUE,
                                   !.version = account.version + 1, !.stamp = account.version + 1,
                                   !.verified = @ \/ req[r].stage = "reset"], "revoke")

\* OAuthConfirmLinkView: the mailbox is proved, the provider linked.
ConfirmLink(r) ==
    /\ req[r].stage = "social"
    /\ IF req[r].user.verified
       THEN IssueNext(r) /\ UNCHANGED <<rows, cached, redeemed, mishaps>>
       ELSE SaveUser(r, [account EXCEPT !.verified = TRUE], "issue")

\* Mutant of DropCopy: the signal is not connected.
DropNothing(r) ==
    /\ req[r].stage = "drop_copy"
    /\ Goto(r, [req[r] EXCEPT !.stage = req[r].next, !.next = "idle"])
    /\ UNCHANGED <<rows, cached, redeemed, mishaps>>

\* _invalidate_auth_user_cache
DropCopy(r) ==
    /\ req[r].stage = "drop_copy"
    /\ cached' = NoCopy
    /\ Goto(r, [req[r] EXCEPT !.stage = req[r].next, !.next = "idle"])
    /\ UNCHANGED <<rows, redeemed, mishaps>>

\* Mutant of RevokeAll: the other sessions are left alone.
RevokeNone(r) ==
    /\ req[r].stage = "revoke"
    /\ IssueNext(r)
    /\ UNCHANGED <<rows, cached, redeemed, mishaps>>

\* revoke_all_refresh_tokens
RevokeAll(r) ==
    /\ req[r].stage = "revoke"
    /\ session' = Revoked(Sessions)
    /\ IssueNext(r)
    /\ UNCHANGED <<account, link, cached, redeemed, mishaps>>

----------------------------------------------------------------------------
(* Sessions.                                                               *)

Issue(r, s) ==
    /\ req[r].stage = "issue"
    /\ IssueTo(req[r].user, s)
    /\ Finish(r)
    /\ UNCHANGED <<account, link, cached, redeemed, mishaps>>

\* LoginView
Login(r) ==
    /\ account.active /\ account.verified /\ account.password
    /\ Start(r, "login", "issue", Stamp(account), Nothing)
    /\ UNCHANGED <<rows, cached, redeemed, mishaps>>

\* rotate_refresh_token: the old token and its user are read; one that was
\* revoked before counts as reuse and ends every session.
ReadSession(r, s) ==
    /\ session[s].state = "live" /\ account.active
    /\ Start(r, "refresh", "rotate", Stamp(account), s)
    /\ UNCHANGED <<rows, cached, redeemed, mishaps>>

ReusedSession(s) ==
    /\ "refresh" \in Ops /\ session[s].state = "revoked"
    /\ session' = Revoked(Sessions)
    /\ UNCHANGED <<account, link, cached, req, redeemed, mishaps>>

\* The token is saved as revoked whatever it is by now, then replaced.
RotateSession(r) ==
    /\ req[r].stage = "rotate"
    /\ session' = [session EXCEPT ![req[r].item].state = "revoked"]
    /\ IssueNext(r)
    /\ UNCHANGED <<account, link, cached, redeemed, mishaps>>

\* LogoutView
Logout(s) ==
    /\ "logout" \in Ops /\ session[s].state = "live"
    /\ session' = Revoked({s})
    /\ UNCHANGED <<account, link, cached, req, redeemed, mishaps>>

----------------------------------------------------------------------------
(* OAuth exchange codes.                                                   *)

\* OAuthCallbackView signs an active user in: a session, then a cached pair
\* of tokens under a one-time code.
OAuthSignIn(r) ==
    /\ account.active
    /\ Start(r, "oauth", "issue_code", Stamp(account), Nothing)
    /\ UNCHANGED <<rows, cached, redeemed, mishaps>>

StoreCode(r, s, l) ==
    /\ req[r].stage = "issue_code"
    /\ IssueTo(req[r].user, s)
    /\ Mint(l, "code")
    /\ Finish(r)
    /\ UNCHANGED <<account, cached, redeemed, mishaps>>

\* _consume_oauth_exchange: cache.add of the sentinel lets one request through,
ClaimCode(r, l) ==
    /\ link[l].kind = "code" /\ link[l].state = "fresh"
    /\ Start(r, "exchange", "consume", NoAccount, l)
    /\ link' = [link EXCEPT ![l].state = "claimed"]
    /\ UNCHANGED <<account, session, cached, redeemed, mishaps>>

\* which gets the pair, unless it has expired, and deletes it.  The sentinel
\* lives as long as the pair and is set later, so it is there until then.
ConsumeCode(r) ==
    LET l == req[r].item
        found == link[l].state = "claimed" IN
    /\ req[r].stage = "consume"
    /\ redeemed' = IF found THEN [redeemed EXCEPT ![l] = @ + 1] ELSE redeemed
    /\ link' = [link EXCEPT ![l].state = "used"]
    /\ Finish(r)
    /\ UNCHANGED <<account, session, cached, mishaps>>

----------------------------------------------------------------------------
(* Authenticated requests.                                                 *)

\* A copy that no longer says what the row does; only active users are copied.
Outdated(version) == version # account.version \/ ~account.active

\* JWTAuthentication with nothing cached: the row is read,
ReadUser(r) ==
    /\ cached = NoCopy /\ account.active
    /\ Start(r, "api", "copy", Stamp(account), Nothing)
    /\ UNCHANGED <<rows, cached, redeemed, mishaps>>

\* and the copy cached, whatever was saved meanwhile or is about to be.
CacheUser(r) ==
    /\ req[r].stage = "copy"
    /\ cached' = req[r].user.version
    /\ mishaps' = mishaps
          \cup (IF Outdated(req[r].user.version) THEN {"late_copy"} ELSE {})
          \cup (IF Unlocked THEN {} ELSE {"early_copy"})
    /\ Finish(r)
    /\ UNCHANGED <<rows, redeemed>>

\* ChangePasswordView, given the current password.  The user at hand is the
\* cached copy, if there is one, whatever has become of the row.
ChangePassword(r) ==
    /\ account.active \/ cached # NoCopy
    /\ account.password /\ account.version < MaxVersion
    /\ Start(r, "change", "change", NoAccount, Nothing)
    /\ UNCHANGED <<rows, cached, redeemed, mishaps>>

----------------------------------------------------------------------------
(* The admin site, and time.                                               *)

\* UserAdmin.add_view: an account with a password, and neither link nor session.
AddUser ==
    /\ ~account.known /\ "add" \in Ops
    /\ account' = [NoAccount EXCEPT !.known = TRUE, !.active = TRUE, !.password = TRUE]
    /\ UNCHANGED <<link, session, cached, req, redeemed, mishaps>>

\* The change form is posted, or the one behind "Reset password": the row is read,
ReadForAdmin(r, stage) ==
    /\ account.known
    /\ Start(r, stage, stage, account, Nothing)
    /\ UNCHANGED <<rows, cached, redeemed, mishaps>>

\* then UserChangeForm is saved with what its boxes say, whether somebody has
\* ticked them or they were left as they were when it was opened, and the
\* signal drops the cached copy.  All of it is still to be committed.
SaveForm(r, active, verified) ==
    /\ req[r].stage = "edit" /\ Unlocked
    /\ Goto(r, [req[r] EXCEPT !.stage = "commit",
                              !.user = [req[r].user EXCEPT !.active = active, !.verified = verified]])
    /\ cached' = NoCopy
    /\ UNCHANGED <<rows, redeemed, mishaps>>

\* A row read before a password change puts the old password and its stamp back.
Undoing(row) ==
    IF row.version = account.version /\ row.stamp = account.stamp THEN {} ELSE {"undone"}

CommitForm(r) ==
    /\ req[r].stage = "commit"
    /\ account' = req[r].user
    /\ mishaps' = mishaps \cup Undoing(req[r].user)
    /\ Finish(r)
    /\ UNCHANGED <<link, session, cached, redeemed>>

\* UserAdmin.user_change_password, which is no transaction, neither stamps
\* password_changed_at nor revokes a session.  (Its other button, which takes
\* the password away, is left out.)
AdminResetPassword(r) ==
    /\ req[r].stage = "admin_reset" /\ account.version < MaxVersion
    /\ WriteUser(r, [req[r].user EXCEPT !.password = TRUE, !.version = account.version + 1], "idle")
    /\ mishaps' = mishaps \cup Undoing(req[r].user)

\* Expired rows are refused; the daily cleanup deletes them.  The cache drops
\* a pair of tokens as it expires.
ExpireLink(l) ==
    /\ link[l].state \in {"fresh", "claimed"}
    /\ link' = [link EXCEPT ![l].state = IF link[l].kind = "code" THEN "deleted" ELSE "expired"]
    /\ UNCHANGED <<account, session, cached, req, redeemed, mishaps>>

CleanUpLink(l) ==
    /\ link[l].state = "expired"
    /\ link' = [link EXCEPT ![l].state = "deleted"]
    /\ UNCHANGED <<account, session, cached, req, redeemed, mishaps>>

\* _AUTH_CACHE_TTL
ExpireCopy ==
    /\ cached # NoCopy
    /\ cached' = NoCopy
    /\ UNCHANGED <<rows, req, redeemed, mishaps>>

----------------------------------------------------------------------------
\* What a request that has begun does next.
Proceed(r) ==
    \/ \E l \in Links : MintAgain(r, l)
    \/ ConsumeLink(r) \/ \E given \in BOOLEAN : VerifyEmail(r, given)
    \/ SetPassword(r) \/ ConfirmLink(r) \/ DropCopy(r) \/ RevokeAll(r)
    \/ \E s \in Sessions : Issue(r, s) \/ \E l \in Links : StoreCode(r, s, l)
    \/ RotateSession(r) \/ ConsumeCode(r) \/ CacheUser(r)
    \/ \E active, verified \in BOOLEAN : SaveForm(r, active, verified)
    \/ CommitForm(r) \/ AdminResetPassword(r)

Begin(r) ==
    \/ Resend(r, "verify") \/ Resend(r, "social")
    \/ \E l \in Links : ReadLink(r, l) \/ ClaimCode(r, l)
    \/ Login(r) \/ OAuthSignIn(r) \/ ReadUser(r) \/ ChangePassword(r)
    \/ ReadForAdmin(r, "edit") \/ ReadForAdmin(r, "admin_reset")
    \/ \E s \in Sessions : ReadSession(r, s)

\* The process serving a request dies, or runs out of the ids of this model; a
\* transaction that was not committed is rolled back.
Die(r) ==
    /\ req[r].stage # "idle"
    /\ mishaps' = IF req[r].stage \in {"drop_copy", "revoke"}
                  THEN mishaps \cup {"cut_short"} ELSE mishaps
    /\ Finish(r)
    /\ UNCHANGED <<rows, cached, redeemed>>

Next ==
    \/ \E l \in Links : \/ AcceptInvitation(l) \/ ForgotPassword(l) \/ ExpireLink(l) \/ CleanUpLink(l)
                        \/ \E s \in Sessions : Register(l, s)
    \/ RegisterByProvider \/ AddUser
    \/ \E s \in Sessions : ReusedSession(s) \/ Logout(s)
    \/ ExpireCopy
    \/ \E r \in Requests : Begin(r) \/ Proceed(r) \/ Die(r)

Spec == Init /\ [][Next]_vars

----------------------------------------------------------------------------
\* However many requests present the same link or code at once, and whatever
\* expires between their steps, one of them at most gets what it stands for
\* ("two parallel redeems can never both succeed", authentication.py).
RedeemedOnce == \A x \in DOMAIN redeemed : redeemed[x] <= 1

\* ResetPasswordView and ChangePasswordView end every session begun before the
\* change once their request is done: no live session predates the moment that
\* password_changed_at shows.  (The admin's "Reset password" is no such moment:
\* sessions from before it live on.)  The exceptions are a request that had read the
\* user before the change and issues its token after it, a process that dies
\* between the save and the revocation, and an admin's save that puts an
\* earlier row back.
ChangesEndSessions ==
    \/ mishaps \cap {"cut_short", "undone"} # {}
    \/ \E r \in Requests : req[r].stage \in {"drop_copy", "revoke"}
    \/ \A s \in Sessions :
           session[s].state = "live" => session[s].version >= account.stamp \/ session[s].late

\* A cached copy that hides a password change or the deactivation of the
\* account is one whose signal is still to come, one that was read before
\* the save and cached after it, or one cached while an admin's save, whose
\* signal had gone out already, was about to commit.
CopyIsCurrent ==
    cached # NoCopy /\ Outdated(cached) =>
        mishaps # {} \/ \E r \in Requests : req[r].stage = "drop_copy"
=============================================================================
