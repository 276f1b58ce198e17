-------------------------- MODULE AuthTokensProofs ---------------------------
(***************************************************************************)
(* The properties of AuthTokens for any number of links, sessions,         *)
(* concurrent requests and password changes.                               *)
(***************************************************************************)
EXTENDS AuthTokens, TLAPS

\* What a request holds in its hand exists, a link has a kind, and a request
\* that saves the account goes on to revoke or to issue tokens.
HeldItems ==
    /\ \A l \in Links : link[l].state # "unused" => link[l].kind \in LinkKinds
    /\ \A r \in Requests :
          /\ req[r].stage \in {"redeem", "consume"} =>
                req[r].item \in Links /\ link[req[r].item].state # "unused"
          /\ req[r].stage = "redeem" => link[req[r].item].kind # "code"
          /\ req[r].stage = "rotate" => req[r].item \in Sessions
          /\ req[r].next \in {"idle", "issue", "revoke"}

\* A link or code that has been redeemed is used up for good.
RedeemedIsUsed ==
    \A l \in Links : redeemed[l] = 0 \/ (redeemed[l] = 1 /\ link[l].state = "used")

\* Without an account there is nothing yet.
NothingBefore ==
    ~account.known =>
        /\ account = NoAccount
        /\ cached = NoCopy
        /\ \A l \in Links : link[l].state = "unused"
        /\ \A s \in Sessions : session[s].state = "unused"
        /\ \A r \in Requests : req[r] = Idle

\* r has changed the password and not yet revoked the sessions.
OwesRevocation(r) ==
    \/ req[r].stage = "revoke"
    \/ req[r].stage = "drop_copy" /\ req[r].next = "revoke"

\* Old sessions live on only while some request still owes their revocation.
\* ChangesEndSessions alone is not inductive: it is satisfied by a request that
\* is about to drop the cached copy and owes no revocation.
OldSessionsAreOwed ==
    \/ mishaps \cap {"cut_short", "undone"} # {}
    \/ \E r \in Requests : OwesRevocation(r)
    \/ \A s \in Sessions :
           session[s].state = "live" => session[s].version >= account.stamp \/ session[s].late

\* The admin site edits an account that is there.
FormsHaveAccounts ==
    \A r \in Requests : req[r].stage \in {"edit", "commit", "admin_reset"} => req[r].user.known

\* The signal of an admin's save has dropped the cached copy, and one that is
\* cached before the commit is remembered.  CopyIsCurrent needs it: the commit
\* itself sends no signal.
CommitsAreUncached == Unlocked \/ cached = NoCopy \/ "early_copy" \in mishaps

Inv == TokensTypeOK /\ HeldItems /\ RedeemedIsUsed /\ NothingBefore
       /\ OldSessionsAreOwed /\ FormsHaveAccounts /\ CommitsAreUncached /\ CopyIsCurrent

----------------------------------------------------------------------------
(* Types.                                                                  *)

\* What a request may hold in its hand.
Items == Links \cup Sessions \cup {Nothing}

\* The empty account, and what a request keeps of a copy, are accounts.
LEMMA AccountsAreTyped ==
    /\ NoAccount \in Accounts
    /\ \A u \in Accounts : Stamp(u) \in Accounts
<1>1. NoAccount \in Accounts
  BY TokensAssumption DEF NoAccount, Accounts
<1>2. ASSUME NEW u \in Accounts PROVE Stamp(u) \in Accounts
  <2>1. u.version \in 0..MaxVersion
    BY DEF Accounts
  <2> QED BY <1>1, <2>1 DEF Accounts, Stamp
<1> QED BY <1>1, <1>2

\* A request moves to another state of a request:
LEMMA GotoIsTyped ==
    ASSUME TokensTypeOK, NEW r \in Requests, NEW j \in Jobs, Goto(r, j)
    PROVE  req' \in [Requests -> Jobs]
BY DEF TokensTypeOK, Goto

\* when it is done,
LEMMA FinishIsTyped ==
    ASSUME TokensTypeOK, NEW r \in Requests, Finish(r)
    PROVE  req' \in [Requests -> Jobs]
<1>1. Idle \in Jobs
  BY AccountsAreTyped DEF Idle, Jobs, Stages
<1> QED BY <1>1, GotoIsTyped DEF Finish

\* when it begins,
LEMMA StartIsTyped ==
    ASSUME TokensTypeOK, NEW r \in Requests, NEW op, NEW st \in Stages, NEW u \in Accounts,
           NEW i \in Items, Start(r, op, st, u, i)
    PROVE  req' \in [Requests -> Jobs]
<1>1. [Idle EXCEPT !.stage = st, !.user = u, !.item = i] \in Jobs
  BY AccountsAreTyped DEF Idle, Jobs, Stages, Items
<1> QED BY <1>1, GotoIsTyped DEF Start

\* and when only the tokens are left to issue.
LEMMA IssueNextIsTyped ==
    ASSUME TokensTypeOK, NEW r \in Requests, IssueNext(r)
    PROVE  req' \in [Requests -> Jobs]
<1>1. req[r].user \in Accounts
  BY DEF TokensTypeOK, Jobs
<1>2. Stamp(req[r].user) \in Accounts
  BY <1>1, AccountsAreTyped
<1>3. [Idle EXCEPT !.stage = "issue", !.user = Stamp(req[r].user)] \in Jobs
  BY <1>2, AccountsAreTyped DEF Idle, Jobs, Stages
<1> QED BY <1>3, GotoIsTyped DEF IssueNext

\* The changes of the rows keep their types.
LEMMA MintIsTyped ==
    ASSUME TokensTypeOK, NEW l \in Links, NEW kind \in LinkKinds, Mint(l, kind)
    PROVE  link' \in [Links -> LinkRows]
BY DEF TokensTypeOK, Mint, LinkRows

\* A refresh token is typed,
LEMMA IssueToIsTyped ==
    ASSUME TokensTypeOK, NEW s \in Sessions, NEW u \in Accounts, IssueTo(u, s)
    PROVE  session' \in [Sessions -> SessionRows]
BY DEF TokensTypeOK, IssueTo, SessionRows, Accounts

\* revoked ones are,
LEMMA RevokedIsTyped ==
    ASSUME TokensTypeOK, NEW T PROVE Revoked(T) \in [Sessions -> SessionRows]
BY DEF TokensTypeOK, Revoked, SessionRows

\* superseded links are,
LEMMA SupersededIsTyped ==
    ASSUME TokensTypeOK, NEW kind PROVE Superseded(kind) \in [Links -> LinkRows]
BY DEF TokensTypeOK, Superseded, LinkRows

\* and so is a request that has saved the account.
LEMMA WriteUserIsTyped ==
    ASSUME TokensTypeOK, NEW r \in Requests, NEW row \in Accounts, NEW n \in Stages,
           WriteUser(r, row, n)
    PROVE  req' \in [Requests -> Jobs]
<1>1. req[r].user \in Accounts
  BY DEF TokensTypeOK, Jobs
<1>2. Stamp(IF n = "revoke" THEN row ELSE req[r].user) \in Accounts
  BY <1>1, AccountsAreTyped
<1>3. [Idle EXCEPT !.stage = "drop_copy", !.next = n,
                   !.user = Stamp(IF n = "revoke" THEN row ELSE req[r].user)] \in Jobs
  BY <1>2, AccountsAreTyped DEF Idle, Jobs, Stages
<1> QED BY <1>3, GotoIsTyped DEF WriteUser

\* Everything is, once a view has saved the account.
LEMMA SaveUserIsTyped ==
    ASSUME TokensTypeOK, NEW r \in Requests, NEW row \in Accounts, NEW n \in Stages,
           SaveUser(r, row, n)
    PROVE  TokensTypeOK'
BY WriteUserIsTyped DEF SaveUser, WriteUser, TokensTypeOK

\* Every step keeps the types; redeeming needs to know the kind of link held.
LEMMA TypeStep ==
    ASSUME TokensTypeOK, HeldItems, [Next]_vars
    PROVE  TokensTypeOK'
<1>0. CASE UNCHANGED vars
  BY <1>0 DEF TokensTypeOK, vars, rows
<1>1. ASSUME NEW l \in Links, AcceptInvitation(l) PROVE TokensTypeOK'
  BY <1>1, MintIsTyped, AccountsAreTyped DEF TokensTypeOK, AcceptInvitation, LinkKinds, Accounts,
       NoAccount
<1>2. ASSUME NEW l \in Links, ForgotPassword(l) PROVE TokensTypeOK'
  BY <1>2, MintIsTyped DEF TokensTypeOK, ForgotPassword, LinkKinds
<1>3. ASSUME NEW l \in Links, ExpireLink(l) PROVE TokensTypeOK'
  BY <1>3 DEF TokensTypeOK, ExpireLink, LinkRows
<1>4. ASSUME NEW l \in Links, CleanUpLink(l) PROVE TokensTypeOK'
  BY <1>4 DEF TokensTypeOK, CleanUpLink, LinkRows
<1>5. ASSUME NEW l \in Links, NEW s \in Sessions, Register(l, s) PROVE TokensTypeOK'
  BY <1>5, MintIsTyped, IssueToIsTyped, AccountsAreTyped DEF TokensTypeOK, Register, LinkKinds,
       Accounts, NoAccount
<1>6. CASE RegisterByProvider
  BY <1>6, AccountsAreTyped DEF TokensTypeOK, RegisterByProvider, Accounts, NoAccount
<1>7. ASSUME NEW s \in Sessions, ReusedSession(s) PROVE TokensTypeOK'
  BY <1>7, RevokedIsTyped DEF TokensTypeOK, ReusedSession
<1>8. ASSUME NEW s \in Sessions, Logout(s) PROVE TokensTypeOK'
  BY <1>8, RevokedIsTyped DEF TokensTypeOK, Logout
<1>9. CASE ExpireCopy
  BY <1>9, TokensAssumption DEF TokensTypeOK, ExpireCopy, NoCopy, rows
<1>10. ASSUME NEW r \in Requests, Resend(r, "verify") \/ Resend(r, "social") PROVE TokensTypeOK'
  BY <1>10, StartIsTyped, SupersededIsTyped, AccountsAreTyped DEF TokensTypeOK, Resend, Resend,
       Stages, Items
<1>11. ASSUME NEW r \in Requests, NEW l \in Links, ReadLink(r, l) PROVE TokensTypeOK'
  BY <1>11, StartIsTyped DEF TokensTypeOK, ReadLink, Stages, Items, rows
<1>12. ASSUME NEW r \in Requests, NEW l \in Links, ClaimCode(r, l) PROVE TokensTypeOK'
  BY <1>12, StartIsTyped, AccountsAreTyped DEF TokensTypeOK, ClaimCode, Stages, Items, LinkRows
<1>13. ASSUME NEW r \in Requests, Login(r) \/ OAuthSignIn(r) \/ ReadUser(r) PROVE TokensTypeOK'
  BY <1>13, StartIsTyped, AccountsAreTyped DEF TokensTypeOK, Login, OAuthSignIn, ReadUser, Stages,
       Items, rows
<1>14. ASSUME NEW r \in Requests, ChangePassword(r) PROVE TokensTypeOK'
  BY <1>14, StartIsTyped, AccountsAreTyped DEF TokensTypeOK, ChangePassword, Stages, Items, rows
<1>15. ASSUME NEW r \in Requests, ReadForAdmin(r, "edit") \/ ReadForAdmin(r, "admin_reset")
      PROVE TokensTypeOK'
  BY <1>15, StartIsTyped DEF TokensTypeOK, ReadForAdmin, Stages, Items, rows
<1>16. ASSUME NEW r \in Requests, NEW s \in Sessions, ReadSession(r, s) PROVE TokensTypeOK'
  BY <1>16, StartIsTyped, AccountsAreTyped DEF TokensTypeOK, ReadSession, Stages, Items, rows
<1>17. ASSUME NEW r \in Requests, NEW l \in Links, MintAgain(r, l) PROVE TokensTypeOK'
  BY <1>17, MintIsTyped, FinishIsTyped DEF TokensTypeOK, MintAgain, LinkKinds
<1>18. ASSUME NEW r \in Requests, ConsumeLink(r) PROVE TokensTypeOK'
  <2> DEFINE l == req[r].item
  <2>1. req[r] \in Jobs /\ req[r].stage = "redeem" /\ l \in Links
    BY <1>18 DEF TokensTypeOK, HeldItems, ConsumeLink
  <2>2. link[l].kind \in {"verify", "reset", "social"}
    BY <2>1 DEF HeldItems, LinkKinds
  <2>3. [req[r] EXCEPT !.stage = link[l].kind, !.item = Nothing] \in Jobs
    BY <2>1, <2>2 DEF Jobs, Stages
  <2>4. req' \in [Requests -> Jobs]
    BY <1>18, <2>3, GotoIsTyped, FinishIsTyped DEF ConsumeLink
  <2>5. link' \in [Links -> LinkRows]
    BY <1>18, <2>1 DEF TokensTypeOK, ConsumeLink, LinkRows
  <2>6. redeemed' \in [Links -> Nat]
    BY <1>18, <2>1 DEF TokensTypeOK, ConsumeLink
  <2> QED BY <1>18, <2>4, <2>5, <2>6 DEF TokensTypeOK, ConsumeLink
<1>19. ASSUME NEW r \in Requests, NEW given \in BOOLEAN, VerifyEmail(r, given) PROVE TokensTypeOK'
  <2>1. CASE Finish(r) /\ UNCHANGED <<rows, cached, redeemed, mishaps>>
    BY <2>1, FinishIsTyped DEF TokensTypeOK, rows
  <2>2. CASE SaveUser(r, [account EXCEPT !.verified = TRUE, !.password = TRUE], "issue")
    <3>1. [account EXCEPT !.verified = TRUE, !.password = TRUE] \in Accounts
      BY DEF TokensTypeOK, Accounts
    <3> QED BY <2>2, <3>1, SaveUserIsTyped DEF Stages
  <2>3. CASE IssueNext(r) /\ UNCHANGED <<rows, cached, redeemed, mishaps>>
    BY <2>3, IssueNextIsTyped DEF TokensTypeOK, rows
  <2> QED BY <1>19, <2>1, <2>2, <2>3 DEF VerifyEmail
<1>20. ASSUME NEW r \in Requests, SetPassword(r) PROVE TokensTypeOK'
  <2> DEFINE row == [account EXCEPT !.password = TRUE,
                                    !.version = account.version + 1, !.stamp = account.version + 1,
                                    !.verified = @ \/ req[r].stage = "reset"]
  <2>1. account.version + 1 \in 0..MaxVersion
    BY <1>20, TokensAssumption DEF TokensTypeOK, SetPassword, Accounts
  <2>2. row \in Accounts
    BY <2>1 DEF TokensTypeOK, Accounts
  <2>3. SaveUser(r, row, "revoke")
    BY <1>20 DEF SetPassword
  <2> QED BY <2>2, <2>3, SaveUserIsTyped DEF Stages
<1>21. ASSUME NEW r \in Requests, ConfirmLink(r) PROVE TokensTypeOK'
  <2>1. CASE IssueNext(r) /\ UNCHANGED <<rows, cached, redeemed, mishaps>>
    BY <2>1, IssueNextIsTyped DEF TokensTypeOK, rows
  <2>2. CASE SaveUser(r, [account EXCEPT !.verified = TRUE], "issue")
    <3>1. [account EXCEPT !.verified = TRUE] \in Accounts
      BY DEF TokensTypeOK, Accounts
    <3> QED BY <2>2, <3>1, SaveUserIsTyped DEF Stages
  <2> QED BY <1>21, <2>1, <2>2 DEF ConfirmLink
<1>22. ASSUME NEW r \in Requests, DropCopy(r) PROVE TokensTypeOK'
  <2>1. [req[r] EXCEPT !.stage = req[r].next, !.next = "idle"] \in Jobs
    BY DEF TokensTypeOK, Jobs, Stages
  <2> QED BY <1>22, <2>1, GotoIsTyped, TokensAssumption DEF TokensTypeOK, DropCopy, NoCopy, rows
<1>23. ASSUME NEW r \in Requests, RevokeAll(r) PROVE TokensTypeOK'
  BY <1>23, RevokedIsTyped, IssueNextIsTyped DEF TokensTypeOK, RevokeAll
<1>24. ASSUME NEW r \in Requests, NEW s \in Sessions, Issue(r, s) PROVE TokensTypeOK'
  BY <1>24, IssueToIsTyped, FinishIsTyped DEF TokensTypeOK, Issue, Jobs
<1>25. ASSUME NEW r \in Requests, NEW s \in Sessions, NEW l \in Links, StoreCode(r, s, l)
      PROVE TokensTypeOK'
  BY <1>25, IssueToIsTyped, MintIsTyped, FinishIsTyped DEF TokensTypeOK, StoreCode, Jobs, LinkKinds
<1>26. ASSUME NEW r \in Requests, RotateSession(r) PROVE TokensTypeOK'
  BY <1>26, IssueNextIsTyped DEF TokensTypeOK, RotateSession, SessionRows
<1>27. ASSUME NEW r \in Requests, ConsumeCode(r) PROVE TokensTypeOK'
  <2> DEFINE l == req[r].item
  <2>1. l \in Links
    BY <1>27 DEF HeldItems, ConsumeCode
  <2>2. link' \in [Links -> LinkRows] /\ redeemed' \in [Links -> Nat]
    BY <1>27, <2>1 DEF TokensTypeOK, ConsumeCode, LinkRows
  <2> QED BY <1>27, <2>2, FinishIsTyped DEF TokensTypeOK, ConsumeCode
<1>28. ASSUME NEW r \in Requests, CacheUser(r) PROVE TokensTypeOK'
  <2>1. req[r].user.version \in 0..MaxVersion
    BY DEF TokensTypeOK, Jobs, Accounts
  <2>2. cached' \in 0..NoCopy
    BY <1>28, <2>1, TokensAssumption DEF CacheUser, NoCopy
  <2> QED BY <1>28, <2>2, FinishIsTyped DEF TokensTypeOK, CacheUser, Mishaps, rows
<1>29. ASSUME NEW r \in Requests, Die(r) PROVE TokensTypeOK'
  BY <1>29, FinishIsTyped DEF TokensTypeOK, Die, Mishaps, rows
<1>30. ASSUME NEW r \in Requests, NEW active \in BOOLEAN, NEW verified \in BOOLEAN,
             SaveForm(r, active, verified)
      PROVE TokensTypeOK'
  <2> DEFINE j == [req[r] EXCEPT !.stage = "commit",
                     !.user = [req[r].user EXCEPT !.active = active, !.verified = verified]]
  <2>1. req[r] \in Jobs /\ req[r].user \in Accounts
    BY DEF TokensTypeOK, Jobs
  <2>2. [req[r].user EXCEPT !.active = active, !.verified = verified] \in Accounts
    BY <2>1 DEF Accounts
  <2>3. j \in Jobs
    BY <2>1, <2>2 DEF Jobs, Stages
  <2> QED BY <1>30, <2>3, GotoIsTyped, TokensAssumption DEF TokensTypeOK, SaveForm, NoCopy, rows
<1>31. ASSUME NEW r \in Requests, CommitForm(r) PROVE TokensTypeOK'
  <2>1. req[r].user \in Accounts /\ Undoing(req[r].user) \subseteq Mishaps
    BY DEF TokensTypeOK, Jobs, Undoing, Mishaps
  <2> QED BY <1>31, <2>1, FinishIsTyped DEF TokensTypeOK, CommitForm
<1>32. ASSUME NEW r \in Requests, AdminResetPassword(r) PROVE TokensTypeOK'
  <2> DEFINE row == [req[r].user EXCEPT !.password = TRUE, !.version = account.version + 1]
  <2>1. req[r].user \in Accounts /\ Undoing(req[r].user) \subseteq Mishaps
    BY DEF TokensTypeOK, Jobs, Undoing, Mishaps
  <2>2. account.version + 1 \in 0..MaxVersion
    BY <1>32, TokensAssumption DEF TokensTypeOK, AdminResetPassword, Accounts
  <2>3. row \in Accounts
    BY <2>1, <2>2 DEF Accounts
  <2>4. WriteUser(r, row, "idle")
    BY <1>32 DEF AdminResetPassword
  <2>5. req' \in [Requests -> Jobs]
    BY <2>3, <2>4, WriteUserIsTyped DEF Stages
  <2> QED BY <1>32, <2>1, <2>3, <2>5 DEF TokensTypeOK, AdminResetPassword, WriteUser
<1>33. CASE AddUser
  BY <1>33, AccountsAreTyped DEF TokensTypeOK, AddUser, Accounts, NoAccount
<1> QED BY <1>0, <1>1, <1>2, <1>3, <1>4, <1>5, <1>6, <1>7, <1>8, <1>9, <1>10, <1>11, <1>12, <1>13,
       <1>14, <1>15, <1>16, <1>17, <1>18, <1>19, <1>20, <1>21, <1>22, <1>23, <1>24, <1>25, <1>26,
       <1>27, <1>28, <1>29, <1>30, <1>31, <1>32, <1>33 DEF Next, Begin, Proceed

----------------------------------------------------------------------------
(* Links.                                                                  *)

\* A link that exists keeps its kind and goes on existing.
LinksLast ==
    \A l \in Links :
        /\ link[l].state # "unused" => link[l].kind' = link[l].kind /\ link[l].state' # "unused"
        /\ link[l].state' # "unused" => link[l].kind' \in LinkKinds

\* No step revives a link or turns it into another.
LEMMA LinksLastStep ==
    ASSUME TokensTypeOK, HeldItems, [Next]_vars
    PROVE  LinksLast
<1> USE DEF LinksLast, HeldItems, TokensTypeOK, LinkRows, LinkKinds, Goto, Finish, Start, IssueNext,
       Mint, IssueTo, Superseded, Revoked, SaveUser, WriteUser, rows, Idle
<1>0. CASE UNCHANGED vars
  BY <1>0 DEF vars
<1>1. ASSUME NEW l \in Links, AcceptInvitation(l) PROVE LinksLast
  BY <1>1 DEF AcceptInvitation
<1>2. ASSUME NEW l \in Links, ForgotPassword(l) PROVE LinksLast
  BY <1>2 DEF ForgotPassword
<1>3. ASSUME NEW l \in Links, ExpireLink(l) PROVE LinksLast
  BY <1>3 DEF ExpireLink
<1>4. ASSUME NEW l \in Links, CleanUpLink(l) PROVE LinksLast
  BY <1>4 DEF CleanUpLink
<1>5. ASSUME NEW l \in Links, NEW s \in Sessions, Register(l, s) PROVE LinksLast
  BY <1>5 DEF Register
<1>6. CASE RegisterByProvider
  BY <1>6 DEF RegisterByProvider
<1>7. ASSUME NEW s \in Sessions, ReusedSession(s) PROVE LinksLast
  BY <1>7 DEF ReusedSession
<1>8. ASSUME NEW s \in Sessions, Logout(s) PROVE LinksLast
  BY <1>8 DEF Logout
<1>9. CASE ExpireCopy
  BY <1>9 DEF ExpireCopy
<1>10. ASSUME NEW r \in Requests, Resend(r, "verify") \/ Resend(r, "social") PROVE LinksLast
  BY <1>10 DEF Resend
<1>11. ASSUME NEW r \in Requests, NEW l \in Links, ReadLink(r, l) PROVE LinksLast
  BY <1>11 DEF ReadLink
<1>12. ASSUME NEW r \in Requests, NEW l \in Links, ClaimCode(r, l) PROVE LinksLast
  BY <1>12 DEF ClaimCode
<1>13. ASSUME NEW r \in Requests, Login(r) \/ OAuthSignIn(r) \/ ReadUser(r) PROVE LinksLast
  BY <1>13 DEF Login, OAuthSignIn, ReadUser
<1>14. ASSUME NEW r \in Requests, ChangePassword(r) PROVE LinksLast
  BY <1>14 DEF ChangePassword
<1>15. ASSUME NEW r \in Requests, ReadForAdmin(r, "edit") \/ ReadForAdmin(r, "admin_reset")
      PROVE LinksLast
  BY <1>15 DEF ReadForAdmin
<1>16. ASSUME NEW r \in Requests, NEW s \in Sessions, ReadSession(r, s) PROVE LinksLast
  BY <1>16 DEF ReadSession
<1>17. ASSUME NEW r \in Requests, NEW l \in Links, MintAgain(r, l) PROVE LinksLast
  BY <1>17 DEF MintAgain
<1>18. ASSUME NEW r \in Requests, ConsumeLink(r) PROVE LinksLast
  BY <1>18 DEF ConsumeLink
<1>19. ASSUME NEW r \in Requests, NEW given \in BOOLEAN, VerifyEmail(r, given) PROVE LinksLast
  BY <1>19 DEF VerifyEmail
<1>20. ASSUME NEW r \in Requests, SetPassword(r) PROVE LinksLast
  BY <1>20 DEF SetPassword
<1>21. ASSUME NEW r \in Requests, ConfirmLink(r) PROVE LinksLast
  BY <1>21 DEF ConfirmLink
<1>22. ASSUME NEW r \in Requests, DropCopy(r) PROVE LinksLast
  BY <1>22 DEF DropCopy
<1>23. ASSUME NEW r \in Requests, RevokeAll(r) PROVE LinksLast
  BY <1>23 DEF RevokeAll
<1>24. ASSUME NEW r \in Requests, NEW s \in Sessions, Issue(r, s) PROVE LinksLast
  BY <1>24 DEF Issue
<1>25. ASSUME NEW r \in Requests, NEW s \in Sessions, NEW l \in Links, StoreCode(r, s, l)
      PROVE LinksLast
  BY <1>25 DEF StoreCode
<1>26. ASSUME NEW r \in Requests, RotateSession(r) PROVE LinksLast
  BY <1>26 DEF RotateSession
<1>27. ASSUME NEW r \in Requests, ConsumeCode(r) PROVE LinksLast
  BY <1>27 DEF ConsumeCode
<1>28. ASSUME NEW r \in Requests, CacheUser(r) PROVE LinksLast
  BY <1>28 DEF CacheUser
<1>29. ASSUME NEW r \in Requests, Die(r) PROVE LinksLast
  BY <1>29 DEF Die
<1>30. ASSUME NEW r \in Requests, NEW active \in BOOLEAN, NEW verified \in BOOLEAN,
             SaveForm(r, active, verified)
      PROVE LinksLast
  BY <1>30 DEF SaveForm
<1>31. ASSUME NEW r \in Requests, CommitForm(r) PROVE LinksLast
  BY <1>31 DEF CommitForm
<1>32. ASSUME NEW r \in Requests, AdminResetPassword(r) PROVE LinksLast
  BY <1>32 DEF AdminResetPassword
<1>33. CASE AddUser
  BY <1>33 DEF AddUser
<1> QED BY <1>0, <1>1, <1>2, <1>3, <1>4, <1>5, <1>6, <1>7, <1>8, <1>9, <1>10, <1>11, <1>12, <1>13,
       <1>14, <1>15, <1>16, <1>17, <1>18, <1>19, <1>20, <1>21, <1>22, <1>23, <1>24, <1>25, <1>26,
       <1>27, <1>28, <1>29, <1>30, <1>31, <1>32, <1>33 DEF Next, Begin, Proceed

\* A request that takes nothing into its hand leaves what is held alone.
LEMMA LetGo ==
    ASSUME TokensTypeOK, HeldItems, LinksLast, NEW r \in Requests, NEW j, Goto(r, j),
           j.stage \notin {"redeem", "consume", "rotate"}, j.next \in {"idle", "issue", "revoke"}
    PROVE  HeldItems'
BY DEF TokensTypeOK, HeldItems, LinksLast, Goto

\* What requests hold stays good.
LEMMA HeldItemsStep ==
    ASSUME TokensTypeOK, HeldItems, LinksLast, [Next]_vars
    PROVE  HeldItems'
<1> USE DEF LinksLast, HeldItems, TokensTypeOK, LinkKinds, Goto, Finish, Start, IssueNext, Mint,
       IssueTo, Superseded, Revoked, SaveUser, WriteUser, rows, Idle
<1>0. CASE UNCHANGED vars
  BY <1>0 DEF vars
<1>1. ASSUME NEW l \in Links, AcceptInvitation(l) PROVE HeldItems'
  BY <1>1 DEF AcceptInvitation
<1>2. ASSUME NEW l \in Links, ForgotPassword(l) PROVE HeldItems'
  BY <1>2 DEF ForgotPassword
<1>3. ASSUME NEW l \in Links, ExpireLink(l) PROVE HeldItems'
  BY <1>3 DEF ExpireLink
<1>4. ASSUME NEW l \in Links, CleanUpLink(l) PROVE HeldItems'
  BY <1>4 DEF CleanUpLink
<1>5. ASSUME NEW l \in Links, NEW s \in Sessions, Register(l, s) PROVE HeldItems'
  BY <1>5 DEF Register
<1>6. CASE RegisterByProvider
  BY <1>6 DEF RegisterByProvider
<1>7. ASSUME NEW s \in Sessions, ReusedSession(s) PROVE HeldItems'
  BY <1>7 DEF ReusedSession
<1>8. ASSUME NEW s \in Sessions, Logout(s) PROVE HeldItems'
  BY <1>8 DEF Logout
<1>9. CASE ExpireCopy
  BY <1>9 DEF ExpireCopy
<1>10. ASSUME NEW r \in Requests, Resend(r, "verify") \/ Resend(r, "social") PROVE HeldItems'
  <2> HIDE DEF HeldItems, LinksLast, TokensTypeOK, Goto, Finish, Start, IssueNext, SaveUser, WriteUser
  <2> DEFINE j(st) == [Idle EXCEPT !.stage = st, !.user = NoAccount, !.item = Nothing]
  <2>1. Goto(r, j("mint_verify")) \/ Goto(r, j("mint_social"))
    BY <1>10 DEF Resend, Start
  <2> QED BY <2>1, LetGo DEF Idle
<1>11. ASSUME NEW r \in Requests, NEW l \in Links, ReadLink(r, l) PROVE HeldItems'
  BY <1>11 DEF ReadLink
<1>12. ASSUME NEW r \in Requests, NEW l \in Links, ClaimCode(r, l) PROVE HeldItems'
  BY <1>12 DEF ClaimCode
<1>13. ASSUME NEW r \in Requests, Login(r) \/ OAuthSignIn(r) \/ ReadUser(r) PROVE HeldItems'
  <2> HIDE DEF HeldItems, LinksLast, TokensTypeOK, Goto, Finish, Start, IssueNext, SaveUser, WriteUser
  <2> DEFINE j(st) == [Idle EXCEPT !.stage = st, !.user = Stamp(account), !.item = Nothing]
  <2>1. Goto(r, j("issue")) \/ Goto(r, j("issue_code")) \/ Goto(r, j("copy"))
    BY <1>13 DEF Login, OAuthSignIn, ReadUser, Start
  <2> QED BY <2>1, LetGo DEF Idle
<1>14. ASSUME NEW r \in Requests, ChangePassword(r) PROVE HeldItems'
  BY <1>14 DEF ChangePassword
<1>15. ASSUME NEW r \in Requests, ReadForAdmin(r, "edit") \/ ReadForAdmin(r, "admin_reset")
      PROVE HeldItems'
  <2> HIDE DEF HeldItems, LinksLast, TokensTypeOK, Goto, Finish, Start, IssueNext, SaveUser, WriteUser
  <2> DEFINE j(st) == [Idle EXCEPT !.stage = st, !.user = account, !.item = Nothing]
  <2>1. Goto(r, j("edit")) \/ Goto(r, j("admin_reset"))
    BY <1>15 DEF ReadForAdmin, Start
  <2> QED BY <2>1, LetGo DEF Idle
<1>16. ASSUME NEW r \in Requests, NEW s \in Sessions, ReadSession(r, s) PROVE HeldItems'
  BY <1>16 DEF ReadSession
<1>17. ASSUME NEW r \in Requests, NEW l \in Links, MintAgain(r, l) PROVE HeldItems'
  BY <1>17 DEF MintAgain
<1>18. ASSUME NEW r \in Requests, ConsumeLink(r) PROVE HeldItems'
  <2> HIDE DEF HeldItems, LinksLast, TokensTypeOK, Goto, Finish, Start, IssueNext, SaveUser, WriteUser
  <2> DEFINE j == [req[r] EXCEPT !.stage = link[req[r].item].kind, !.item = Nothing]
  <2>1. /\ req[r] \in Jobs /\ req[r].next \in {"idle", "issue", "revoke"}
        /\ link[req[r].item].kind \in LinkKinds
    BY <1>18 DEF TokensTypeOK, HeldItems, ConsumeLink
  <2>2. j.stage \notin {"redeem", "consume", "rotate"} /\ j.next = req[r].next
    BY <2>1 DEF Jobs, LinkKinds
  <2>3. CASE Goto(r, j)
    BY <2>1, <2>2, <2>3, LetGo
  <2>4. CASE Finish(r)
    BY <2>4, LetGo DEF Finish, Idle
  <2> QED BY <1>18, <2>3, <2>4 DEF ConsumeLink
<1>19. ASSUME NEW r \in Requests, NEW given \in BOOLEAN, VerifyEmail(r, given) PROVE HeldItems'
  <2> HIDE DEF HeldItems, LinksLast, TokensTypeOK, Goto, Finish, Start, IssueNext, SaveUser, WriteUser
  <2>1. CASE IssueNext(r)
    BY <2>1, LetGo DEF IssueNext, Idle
  <2>2. ASSUME NEW row, SaveUser(r, row, "issue") PROVE HeldItems'
    BY <2>2, LetGo DEF SaveUser, WriteUser, Idle
  <2>3. CASE Finish(r)
    BY <2>3, LetGo DEF Finish, Idle
  <2> QED BY <1>19, <2>1, <2>2, <2>3 DEF VerifyEmail
<1>20. ASSUME NEW r \in Requests, SetPassword(r) PROVE HeldItems'
  BY <1>20 DEF SetPassword
<1>21. ASSUME NEW r \in Requests, ConfirmLink(r) PROVE HeldItems'
  <2> HIDE DEF HeldItems, LinksLast, TokensTypeOK, Goto, Finish, Start, IssueNext, SaveUser, WriteUser
  <2>1. CASE IssueNext(r)
    BY <2>1, LetGo DEF IssueNext, Idle
  <2>2. ASSUME NEW row, SaveUser(r, row, "issue") PROVE HeldItems'
    BY <2>2, LetGo DEF SaveUser, WriteUser, Idle
  <2> QED BY <1>21, <2>1, <2>2 DEF ConfirmLink
<1>22. ASSUME NEW r \in Requests, DropCopy(r) PROVE HeldItems'
  <2> HIDE DEF HeldItems, LinksLast, TokensTypeOK, Goto, Finish, Start, IssueNext, SaveUser, WriteUser
  <2> DEFINE j == [req[r] EXCEPT !.stage = req[r].next, !.next = "idle"]
  <2>1. req[r] \in Jobs /\ req[r].next \in {"idle", "issue", "revoke"}
    BY DEF TokensTypeOK, HeldItems
  <2>2. j.stage \notin {"redeem", "consume", "rotate"} /\ j.next = "idle"
    BY <2>1 DEF Jobs
  <2> QED BY <1>22, <2>2, LetGo DEF DropCopy
<1>23. ASSUME NEW r \in Requests, RevokeAll(r) PROVE HeldItems'
  BY <1>23 DEF RevokeAll
<1>24. ASSUME NEW r \in Requests, NEW s \in Sessions, Issue(r, s) PROVE HeldItems'
  BY <1>24 DEF Issue
<1>25. ASSUME NEW r \in Requests, NEW s \in Sessions, NEW l \in Links, StoreCode(r, s, l)
      PROVE HeldItems'
  BY <1>25 DEF StoreCode
<1>26. ASSUME NEW r \in Requests, RotateSession(r) PROVE HeldItems'
  BY <1>26 DEF RotateSession
<1>27. ASSUME NEW r \in Requests, ConsumeCode(r) PROVE HeldItems'
  BY <1>27 DEF ConsumeCode
<1>28. ASSUME NEW r \in Requests, CacheUser(r) PROVE HeldItems'
  BY <1>28 DEF CacheUser
<1>29. ASSUME NEW r \in Requests, Die(r) PROVE HeldItems'
  BY <1>29 DEF Die
<1>30. ASSUME NEW r \in Requests, NEW active \in BOOLEAN, NEW verified \in BOOLEAN,
             SaveForm(r, active, verified)
      PROVE HeldItems'
  <2> HIDE DEF HeldItems, LinksLast, TokensTypeOK, Goto, Finish, Start, IssueNext, SaveUser, WriteUser
  <2> DEFINE j == [req[r] EXCEPT !.stage = "commit",
                     !.user = [req[r].user EXCEPT !.active = active, !.verified = verified]]
  <2>1. req[r] \in Jobs /\ req[r].next \in {"idle", "issue", "revoke"}
    BY DEF TokensTypeOK, HeldItems
  <2>2. j.stage = "commit" /\ j.next = req[r].next
    BY <2>1 DEF Jobs
  <2> QED BY <1>30, <2>1, <2>2, LetGo DEF SaveForm
<1>31. ASSUME NEW r \in Requests, CommitForm(r) PROVE HeldItems'
  <2> HIDE DEF HeldItems, LinksLast, TokensTypeOK, Goto, Finish, Start, IssueNext, SaveUser, WriteUser
  <2> QED BY <1>31, LetGo DEF CommitForm, Finish, Idle
<1>32. ASSUME NEW r \in Requests, AdminResetPassword(r) PROVE HeldItems'
  <2> HIDE DEF HeldItems, LinksLast, TokensTypeOK, Goto, Finish, Start, IssueNext, SaveUser, WriteUser
  <2> QED BY <1>32, LetGo DEF AdminResetPassword, WriteUser, Idle
<1>33. CASE AddUser
  BY <1>33 DEF AddUser
<1> QED BY <1>0, <1>1, <1>2, <1>3, <1>4, <1>5, <1>6, <1>7, <1>8, <1>9, <1>10, <1>11, <1>12, <1>13,
       <1>14, <1>15, <1>16, <1>17, <1>18, <1>19, <1>20, <1>21, <1>22, <1>23, <1>24, <1>25, <1>26,
       <1>27, <1>28, <1>29, <1>30, <1>31, <1>32, <1>33 DEF Next, Begin, Proceed

\* Only a link that is not used up can be redeemed.
LEMMA RedeemedIsUsedStep ==
    ASSUME TokensTypeOK, HeldItems, RedeemedIsUsed, [Next]_vars
    PROVE  RedeemedIsUsed'
<1> USE DEF RedeemedIsUsed, HeldItems, TokensTypeOK, LinkRows, Goto, Finish, Start, IssueNext, Mint,
       IssueTo, Superseded, Revoked, SaveUser, WriteUser, rows, Idle
<1>0. CASE UNCHANGED vars
  BY <1>0 DEF vars
<1>1. ASSUME NEW l \in Links, AcceptInvitation(l) PROVE RedeemedIsUsed'
  BY <1>1 DEF AcceptInvitation
<1>2. ASSUME NEW l \in Links, ForgotPassword(l) PROVE RedeemedIsUsed'
  BY <1>2 DEF ForgotPassword
<1>3. ASSUME NEW l \in Links, ExpireLink(l) PROVE RedeemedIsUsed'
  BY <1>3 DEF ExpireLink
<1>4. ASSUME NEW l \in Links, CleanUpLink(l) PROVE RedeemedIsUsed'
  BY <1>4 DEF CleanUpLink
<1>5. ASSUME NEW l \in Links, NEW s \in Sessions, Register(l, s) PROVE RedeemedIsUsed'
  BY <1>5 DEF Register
<1>6. CASE RegisterByProvider
  BY <1>6 DEF RegisterByProvider
<1>7. ASSUME NEW s \in Sessions, ReusedSession(s) PROVE RedeemedIsUsed'
  BY <1>7 DEF ReusedSession
<1>8. ASSUME NEW s \in Sessions, Logout(s) PROVE RedeemedIsUsed'
  BY <1>8 DEF Logout
<1>9. CASE ExpireCopy
  BY <1>9 DEF ExpireCopy
<1>10. ASSUME NEW r \in Requests, Resend(r, "verify") \/ Resend(r, "social") PROVE RedeemedIsUsed'
  BY <1>10 DEF Resend
<1>11. ASSUME NEW r \in Requests, NEW l \in Links, ReadLink(r, l) PROVE RedeemedIsUsed'
  BY <1>11 DEF ReadLink
<1>12. ASSUME NEW r \in Requests, NEW l \in Links, ClaimCode(r, l) PROVE RedeemedIsUsed'
  BY <1>12 DEF ClaimCode
<1>13. ASSUME NEW r \in Requests, Login(r) \/ OAuthSignIn(r) \/ ReadUser(r) PROVE RedeemedIsUsed'
  BY <1>13 DEF Login, OAuthSignIn, ReadUser
<1>14. ASSUME NEW r \in Requests, ChangePassword(r) PROVE RedeemedIsUsed'
  BY <1>14 DEF ChangePassword
<1>15. ASSUME NEW r \in Requests, ReadForAdmin(r, "edit") \/ ReadForAdmin(r, "admin_reset")
      PROVE RedeemedIsUsed'
  BY <1>15 DEF ReadForAdmin
<1>16. ASSUME NEW r \in Requests, NEW s \in Sessions, ReadSession(r, s) PROVE RedeemedIsUsed'
  BY <1>16 DEF ReadSession
<1>17. ASSUME NEW r \in Requests, NEW l \in Links, MintAgain(r, l) PROVE RedeemedIsUsed'
  BY <1>17 DEF MintAgain
<1>18. ASSUME NEW r \in Requests, ConsumeLink(r) PROVE RedeemedIsUsed'
  BY <1>18 DEF ConsumeLink
<1>19. ASSUME NEW r \in Requests, NEW given \in BOOLEAN, VerifyEmail(r, given) PROVE RedeemedIsUsed'
  BY <1>19 DEF VerifyEmail
<1>20. ASSUME NEW r \in Requests, SetPassword(r) PROVE RedeemedIsUsed'
  BY <1>20 DEF SetPassword
<1>21. ASSUME NEW r \in Requests, ConfirmLink(r) PROVE RedeemedIsUsed'
  BY <1>21 DEF ConfirmLink
<1>22. ASSUME NEW r \in Requests, DropCopy(r) PROVE RedeemedIsUsed'
  BY <1>22 DEF DropCopy
<1>23. ASSUME NEW r \in Requests, RevokeAll(r) PROVE RedeemedIsUsed'
  BY <1>23 DEF RevokeAll
<1>24. ASSUME NEW r \in Requests, NEW s \in Sessions, Issue(r, s) PROVE RedeemedIsUsed'
  BY <1>24 DEF Issue
<1>25. ASSUME NEW r \in Requests, NEW s \in Sessions, NEW l \in Links, StoreCode(r, s, l)
      PROVE RedeemedIsUsed'
  BY <1>25 DEF StoreCode
<1>26. ASSUME NEW r \in Requests, RotateSession(r) PROVE RedeemedIsUsed'
  BY <1>26 DEF RotateSession
<1>27. ASSUME NEW r \in Requests, ConsumeCode(r) PROVE RedeemedIsUsed'
  BY <1>27 DEF ConsumeCode
<1>28. ASSUME NEW r \in Requests, CacheUser(r) PROVE RedeemedIsUsed'
  BY <1>28 DEF CacheUser
<1>29. ASSUME NEW r \in Requests, Die(r) PROVE RedeemedIsUsed'
  BY <1>29 DEF Die
<1>30. ASSUME NEW r \in Requests, NEW active \in BOOLEAN, NEW verified \in BOOLEAN,
             SaveForm(r, active, verified)
      PROVE RedeemedIsUsed'
  BY <1>30 DEF SaveForm
<1>31. ASSUME NEW r \in Requests, CommitForm(r) PROVE RedeemedIsUsed'
  BY <1>31 DEF CommitForm
<1>32. ASSUME NEW r \in Requests, AdminResetPassword(r) PROVE RedeemedIsUsed'
  BY <1>32 DEF AdminResetPassword
<1>33. CASE AddUser
  BY <1>33 DEF AddUser
<1> QED BY <1>0, <1>1, <1>2, <1>3, <1>4, <1>5, <1>6, <1>7, <1>8, <1>9, <1>10, <1>11, <1>12, <1>13,
       <1>14, <1>15, <1>16, <1>17, <1>18, <1>19, <1>20, <1>21, <1>22, <1>23, <1>24, <1>25, <1>26,
       <1>27, <1>28, <1>29, <1>30, <1>31, <1>32, <1>33 DEF Next, Begin, Proceed

----------------------------------------------------------------------------
(* Sessions and the cached copy.                                           *)

\* A request that does not open a form leaves the open ones alone.
LEMMA LeaveForms ==
    ASSUME TokensTypeOK, FormsHaveAccounts, NEW r \in Requests, NEW j, Goto(r, j),
           j.stage \notin {"edit", "commit", "admin_reset"}
    PROVE  FormsHaveAccounts'
BY DEF TokensTypeOK, FormsHaveAccounts, Goto

\* An account, once there, is never gone from a form.
LEMMA FormsHaveAccountsStep ==
    ASSUME TokensTypeOK, HeldItems, FormsHaveAccounts, [Next]_vars
    PROVE  FormsHaveAccounts'
<1> USE DEF FormsHaveAccounts, TokensTypeOK, Goto, Finish, Start, IssueNext, Mint, IssueTo,
       Superseded, Revoked, SaveUser, WriteUser, rows, Idle
<1>0. CASE UNCHANGED vars
  BY <1>0 DEF vars
<1>1. ASSUME NEW l \in Links, AcceptInvitation(l) PROVE FormsHaveAccounts'
  BY <1>1 DEF AcceptInvitation
<1>2. ASSUME NEW l \in Links, ForgotPassword(l) PROVE FormsHaveAccounts'
  BY <1>2 DEF ForgotPassword
<1>3. ASSUME NEW l \in Links, ExpireLink(l) PROVE FormsHaveAccounts'
  BY <1>3 DEF ExpireLink
<1>4. ASSUME NEW l \in Links, CleanUpLink(l) PROVE FormsHaveAccounts'
  BY <1>4 DEF CleanUpLink
<1>5. ASSUME NEW l \in Links, NEW s \in Sessions, Register(l, s) PROVE FormsHaveAccounts'
  BY <1>5 DEF Register
<1>6. CASE RegisterByProvider
  BY <1>6 DEF RegisterByProvider
<1>7. ASSUME NEW s \in Sessions, ReusedSession(s) PROVE FormsHaveAccounts'
  BY <1>7 DEF ReusedSession
<1>8. ASSUME NEW s \in Sessions, Logout(s) PROVE FormsHaveAccounts'
  BY <1>8 DEF Logout
<1>9. CASE ExpireCopy
  BY <1>9 DEF ExpireCopy
<1>10. ASSUME NEW r \in Requests, Resend(r, "verify") \/ Resend(r, "social") PROVE FormsHaveAccounts'
  <2> HIDE DEF FormsHaveAccounts, TokensTypeOK, Goto, Finish, Start, IssueNext, SaveUser, WriteUser
  <2> DEFINE j(st) == [Idle EXCEPT !.stage = st, !.user = NoAccount, !.item = Nothing]
  <2>1. Goto(r, j("mint_verify")) \/ Goto(r, j("mint_social"))
    BY <1>10 DEF Resend, Start
  <2> QED BY <1>10, <2>1, LeaveForms DEF Resend, Idle
<1>11. ASSUME NEW r \in Requests, NEW l \in Links, ReadLink(r, l) PROVE FormsHaveAccounts'
  BY <1>11 DEF ReadLink
<1>12. ASSUME NEW r \in Requests, NEW l \in Links, ClaimCode(r, l) PROVE FormsHaveAccounts'
  BY <1>12 DEF ClaimCode
<1>13. ASSUME NEW r \in Requests, Login(r) \/ OAuthSignIn(r) \/ ReadUser(r) PROVE FormsHaveAccounts'
  <2> HIDE DEF FormsHaveAccounts, TokensTypeOK, Goto, Finish, Start, IssueNext, SaveUser, WriteUser
  <2> DEFINE j(st) == [Idle EXCEPT !.stage = st, !.user = Stamp(account), !.item = Nothing]
  <2>1. Goto(r, j("issue")) \/ Goto(r, j("issue_code")) \/ Goto(r, j("copy"))
    BY <1>13 DEF Login, OAuthSignIn, ReadUser, Start
  <2> QED BY <1>13, <2>1, LeaveForms DEF Login, OAuthSignIn, ReadUser, Idle
<1>14. ASSUME NEW r \in Requests, ChangePassword(r) PROVE FormsHaveAccounts'
  BY <1>14 DEF ChangePassword
<1>15. ASSUME NEW r \in Requests, ReadForAdmin(r, "edit") \/ ReadForAdmin(r, "admin_reset")
      PROVE FormsHaveAccounts'
  BY <1>15 DEF ReadForAdmin
<1>16. ASSUME NEW r \in Requests, NEW s \in Sessions, ReadSession(r, s) PROVE FormsHaveAccounts'
  BY <1>16 DEF ReadSession
<1>17. ASSUME NEW r \in Requests, NEW l \in Links, MintAgain(r, l) PROVE FormsHaveAccounts'
  BY <1>17 DEF MintAgain
<1>18. ASSUME NEW r \in Requests, ConsumeLink(r) PROVE FormsHaveAccounts'
  <2> HIDE DEF FormsHaveAccounts, TokensTypeOK, Goto, Finish, Start, IssueNext, SaveUser, WriteUser
  <2> DEFINE j == [req[r] EXCEPT !.stage = link[req[r].item].kind, !.item = Nothing]
  <2>1. req[r] \in Jobs /\ link[req[r].item].kind \in LinkKinds
    BY <1>18 DEF TokensTypeOK, HeldItems, ConsumeLink
  <2>2. j.stage \notin {"edit", "commit", "admin_reset"}
    BY <2>1 DEF Jobs, LinkKinds
  <2>3. CASE Goto(r, j)
    BY <1>18, <2>2, <2>3, LeaveForms DEF ConsumeLink
  <2>4. CASE Finish(r)
    BY <1>18, <2>4, LeaveForms DEF ConsumeLink, Finish, Idle
  <2> QED BY <1>18, <2>3, <2>4 DEF ConsumeLink
<1>19. ASSUME NEW r \in Requests, NEW given \in BOOLEAN, VerifyEmail(r, given) PROVE FormsHaveAccounts'
  <2> HIDE DEF FormsHaveAccounts, TokensTypeOK, Goto, Finish, Start, IssueNext, SaveUser, WriteUser
  <2>1. CASE IssueNext(r)
    BY <2>1, LeaveForms DEF IssueNext, Idle
  <2>2. ASSUME NEW row, SaveUser(r, row, "issue") PROVE FormsHaveAccounts'
    BY <2>2, LeaveForms DEF SaveUser, WriteUser, Idle
  <2>3. CASE Finish(r)
    BY <2>3, LeaveForms DEF Finish, Idle
  <2> QED BY <1>19, <2>1, <2>2, <2>3 DEF VerifyEmail
<1>20. ASSUME NEW r \in Requests, SetPassword(r) PROVE FormsHaveAccounts'
  BY <1>20 DEF SetPassword
<1>21. ASSUME NEW r \in Requests, ConfirmLink(r) PROVE FormsHaveAccounts'
  <2> HIDE DEF FormsHaveAccounts, TokensTypeOK, Goto, Finish, Start, IssueNext, SaveUser, WriteUser
  <2>1. CASE IssueNext(r)
    BY <2>1, LeaveForms DEF IssueNext, Idle
  <2>2. ASSUME NEW row, SaveUser(r, row, "issue") PROVE FormsHaveAccounts'
    BY <2>2, LeaveForms DEF SaveUser, WriteUser, Idle
  <2> QED BY <1>21, <2>1, <2>2 DEF ConfirmLink
<1>22. ASSUME NEW r \in Requests, DropCopy(r) PROVE FormsHaveAccounts'
  <2> HIDE DEF FormsHaveAccounts, TokensTypeOK, Goto, Finish, Start, IssueNext, SaveUser, WriteUser
  <2> DEFINE j == [req[r] EXCEPT !.stage = req[r].next, !.next = "idle"]
  <2>1. req[r] \in Jobs /\ req[r].next \in {"idle", "issue", "revoke"}
    BY DEF TokensTypeOK, HeldItems
  <2>2. j.stage \notin {"edit", "commit", "admin_reset"}
    BY <2>1 DEF Jobs
  <2> QED BY <1>22, <2>2, LeaveForms DEF DropCopy
<1>23. ASSUME NEW r \in Requests, RevokeAll(r) PROVE FormsHaveAccounts'
  BY <1>23 DEF RevokeAll
<1>24. ASSUME NEW r \in Requests, NEW s \in Sessions, Issue(r, s) PROVE FormsHaveAccounts'
  BY <1>24 DEF Issue
<1>25. ASSUME NEW r \in Requests, NEW s \in Sessions, NEW l \in Links, StoreCode(r, s, l)
      PROVE FormsHaveAccounts'
  BY <1>25 DEF StoreCode
<1>26. ASSUME NEW r \in Requests, RotateSession(r) PROVE FormsHaveAccounts'
  BY <1>26 DEF RotateSession
<1>27. ASSUME NEW r \in Requests, ConsumeCode(r) PROVE FormsHaveAccounts'
  BY <1>27 DEF ConsumeCode
<1>28. ASSUME NEW r \in Requests, CacheUser(r) PROVE FormsHaveAccounts'
  BY <1>28 DEF CacheUser
<1>29. ASSUME NEW r \in Requests, Die(r) PROVE FormsHaveAccounts'
  BY <1>29 DEF Die
<1>30. ASSUME NEW r \in Requests, NEW active \in BOOLEAN, NEW verified \in BOOLEAN,
             SaveForm(r, active, verified)
      PROVE FormsHaveAccounts'
  BY <1>30 DEF SaveForm
<1>31. ASSUME NEW r \in Requests, CommitForm(r) PROVE FormsHaveAccounts'
  BY <1>31 DEF CommitForm
<1>32. ASSUME NEW r \in Requests, AdminResetPassword(r) PROVE FormsHaveAccounts'
  BY <1>32 DEF AdminResetPassword
<1>33. CASE AddUser
  BY <1>33 DEF AddUser
<1> QED BY <1>0, <1>1, <1>2, <1>3, <1>4, <1>5, <1>6, <1>7, <1>8, <1>9, <1>10, <1>11, <1>12, <1>13,
       <1>14, <1>15, <1>16, <1>17, <1>18, <1>19, <1>20, <1>21, <1>22, <1>23, <1>24, <1>25, <1>26,
       <1>27, <1>28, <1>29, <1>30, <1>31, <1>32, <1>33 DEF Next, Begin, Proceed

\* A request that saves no form leaves the commits alone.
LEMMA LeaveCommits ==
    ASSUME TokensTypeOK, CommitsAreUncached, NEW r \in Requests, NEW j, Goto(r, j),
           j.stage # "commit", cached' = cached, mishaps' = mishaps
    PROVE  CommitsAreUncached'
BY DEF TokensTypeOK, CommitsAreUncached, Unlocked, NoCopy, Goto

\* Nothing is cached unseen while an admin's save is about to commit.
LEMMA CommitsAreUncachedStep ==
    ASSUME TokensTypeOK, HeldItems, CommitsAreUncached, [Next]_vars
    PROVE  CommitsAreUncached'
<1> USE DEF CommitsAreUncached, Unlocked, TokensTypeOK, NoCopy, Goto, Finish, Start, IssueNext,
       Mint, IssueTo, Superseded, Revoked, SaveUser, WriteUser, rows, Idle
<1>0. CASE UNCHANGED vars
  BY <1>0 DEF vars
<1>1. ASSUME NEW l \in Links, AcceptInvitation(l) PROVE CommitsAreUncached'
  BY <1>1 DEF AcceptInvitation
<1>2. ASSUME NEW l \in Links, ForgotPassword(l) PROVE CommitsAreUncached'
  BY <1>2 DEF ForgotPassword
<1>3. ASSUME NEW l \in Links, ExpireLink(l) PROVE CommitsAreUncached'
  BY <1>3 DEF ExpireLink
<1>4. ASSUME NEW l \in Links, CleanUpLink(l) PROVE CommitsAreUncached'
  BY <1>4 DEF CleanUpLink
<1>5. ASSUME NEW l \in Links, NEW s \in Sessions, Register(l, s) PROVE CommitsAreUncached'
  BY <1>5 DEF Register
<1>6. CASE RegisterByProvider
  BY <1>6 DEF RegisterByProvider
<1>7. ASSUME NEW s \in Sessions, ReusedSession(s) PROVE CommitsAreUncached'
  BY <1>7 DEF ReusedSession
<1>8. ASSUME NEW s \in Sessions, Logout(s) PROVE CommitsAreUncached'
  BY <1>8 DEF Logout
<1>9. CASE ExpireCopy
  BY <1>9 DEF ExpireCopy
<1>10. ASSUME NEW r \in Requests, Resend(r, "verify") \/ Resend(r, "social") PROVE CommitsAreUncached'
  BY <1>10 DEF Resend
<1>11. ASSUME NEW r \in Requests, NEW l \in Links, ReadLink(r, l) PROVE CommitsAreUncached'
  BY <1>11 DEF ReadLink
<1>12. ASSUME NEW r \in Requests, NEW l \in Links, ClaimCode(r, l) PROVE CommitsAreUncached'
  BY <1>12 DEF ClaimCode
<1>13. ASSUME NEW r \in Requests, Login(r) \/ OAuthSignIn(r) \/ ReadUser(r) PROVE CommitsAreUncached'
  <2> HIDE DEF CommitsAreUncached, Unlocked, TokensTypeOK, Goto, Finish, Start, IssueNext, SaveUser, WriteUser
  <2> DEFINE j(st) == [Idle EXCEPT !.stage = st, !.user = Stamp(account), !.item = Nothing]
  <2>1. Goto(r, j("issue")) \/ Goto(r, j("issue_code")) \/ Goto(r, j("copy"))
    BY <1>13 DEF Login, OAuthSignIn, ReadUser, Start
  <2> QED BY <1>13, <2>1, LeaveCommits DEF Login, OAuthSignIn, ReadUser, Idle
<1>14. ASSUME NEW r \in Requests, ChangePassword(r) PROVE CommitsAreUncached'
  BY <1>14 DEF ChangePassword
<1>15. ASSUME NEW r \in Requests, ReadForAdmin(r, "edit") \/ ReadForAdmin(r, "admin_reset")
      PROVE CommitsAreUncached'
  <2> HIDE DEF CommitsAreUncached, Unlocked, TokensTypeOK, Goto, Finish, Start, IssueNext, SaveUser, WriteUser
  <2> DEFINE j(st) == [Idle EXCEPT !.stage = st, !.user = account, !.item = Nothing]
  <2>1. Goto(r, j("edit")) \/ Goto(r, j("admin_reset"))
    BY <1>15 DEF ReadForAdmin, Start
  <2> QED BY <1>15, <2>1, LeaveCommits DEF ReadForAdmin, Idle
<1>16. ASSUME NEW r \in Requests, NEW s \in Sessions, ReadSession(r, s) PROVE CommitsAreUncached'
  BY <1>16 DEF ReadSession
<1>17. ASSUME NEW r \in Requests, NEW l \in Links, MintAgain(r, l) PROVE CommitsAreUncached'
  BY <1>17 DEF MintAgain
<1>18. ASSUME NEW r \in Requests, ConsumeLink(r) PROVE CommitsAreUncached'
  <2> HIDE DEF CommitsAreUncached, Unlocked, TokensTypeOK, Goto, Finish, Start, IssueNext, SaveUser, WriteUser
  <2> DEFINE j == [req[r] EXCEPT !.stage = link[req[r].item].kind, !.item = Nothing]
  <2>1. req[r] \in Jobs /\ link[req[r].item].kind \in LinkKinds
    BY <1>18 DEF TokensTypeOK, HeldItems, ConsumeLink
  <2>2. j.stage \notin {"edit", "commit", "admin_reset"}
    BY <2>1 DEF Jobs, LinkKinds
  <2>3. CASE Goto(r, j)
    BY <1>18, <2>2, <2>3, LeaveCommits DEF ConsumeLink
  <2>4. CASE Finish(r)
    BY <1>18, <2>4, LeaveCommits DEF ConsumeLink, Finish, Idle
  <2> QED BY <1>18, <2>3, <2>4 DEF ConsumeLink
<1>19. ASSUME NEW r \in Requests, NEW given \in BOOLEAN, VerifyEmail(r, given) PROVE CommitsAreUncached'
  <2> HIDE DEF CommitsAreUncached, Unlocked, TokensTypeOK, Goto, Finish, Start, IssueNext, SaveUser, WriteUser
  <2>0. cached' = cached /\ mishaps' = mishaps
    BY <1>19 DEF VerifyEmail, SaveUser, WriteUser
  <2>1. CASE IssueNext(r)
    BY <2>0, <2>1, LeaveCommits DEF IssueNext, Idle
  <2>2. ASSUME NEW row, SaveUser(r, row, "issue") PROVE CommitsAreUncached'
    BY <2>0, <2>2, LeaveCommits DEF SaveUser, WriteUser, Idle
  <2>3. CASE Finish(r)
    BY <2>0, <2>3, LeaveCommits DEF Finish, Idle
  <2> QED BY <1>19, <2>1, <2>2, <2>3 DEF VerifyEmail
<1>20. ASSUME NEW r \in Requests, SetPassword(r) PROVE CommitsAreUncached'
  BY <1>20 DEF SetPassword
<1>21. ASSUME NEW r \in Requests, ConfirmLink(r) PROVE CommitsAreUncached'
  BY <1>21 DEF ConfirmLink
<1>22. ASSUME NEW r \in Requests, DropCopy(r) PROVE CommitsAreUncached'
  BY <1>22 DEF DropCopy
<1>23. ASSUME NEW r \in Requests, RevokeAll(r) PROVE CommitsAreUncached'
  BY <1>23 DEF RevokeAll
<1>24. ASSUME NEW r \in Requests, NEW s \in Sessions, Issue(r, s) PROVE CommitsAreUncached'
  BY <1>24 DEF Issue
<1>25. ASSUME NEW r \in Requests, NEW s \in Sessions, NEW l \in Links, StoreCode(r, s, l)
      PROVE CommitsAreUncached'
  BY <1>25 DEF StoreCode
<1>26. ASSUME NEW r \in Requests, RotateSession(r) PROVE CommitsAreUncached'
  BY <1>26 DEF RotateSession
<1>27. ASSUME NEW r \in Requests, ConsumeCode(r) PROVE CommitsAreUncached'
  BY <1>27 DEF ConsumeCode
<1>28. ASSUME NEW r \in Requests, CacheUser(r) PROVE CommitsAreUncached'
  BY <1>28 DEF CacheUser
<1>29. ASSUME NEW r \in Requests, Die(r) PROVE CommitsAreUncached'
  BY <1>29 DEF Die
<1>30. ASSUME NEW r \in Requests, NEW active \in BOOLEAN, NEW verified \in BOOLEAN,
             SaveForm(r, active, verified)
      PROVE CommitsAreUncached'
  BY <1>30 DEF SaveForm
<1>31. ASSUME NEW r \in Requests, CommitForm(r) PROVE CommitsAreUncached'
  BY <1>31 DEF CommitForm
<1>32. ASSUME NEW r \in Requests, AdminResetPassword(r) PROVE CommitsAreUncached'
  BY <1>32 DEF AdminResetPassword
<1>33. CASE AddUser
  BY <1>33 DEF AddUser
<1> QED BY <1>0, <1>1, <1>2, <1>3, <1>4, <1>5, <1>6, <1>7, <1>8, <1>9, <1>10, <1>11, <1>12, <1>13,
       <1>14, <1>15, <1>16, <1>17, <1>18, <1>19, <1>20, <1>21, <1>22, <1>23, <1>24, <1>25, <1>26,
       <1>27, <1>28, <1>29, <1>30, <1>31, <1>32, <1>33 DEF Next, Begin, Proceed

\* Everything starts with one of the four ways to create the account.
LEMMA NothingBeforeStep ==
    ASSUME TokensTypeOK, NothingBefore, FormsHaveAccounts, [Next]_vars
    PROVE  NothingBefore'
<1> USE DEF NothingBefore, TokensTypeOK, NoAccount, NoCopy, Goto, Finish, Start, IssueNext, Mint,
       IssueTo, Superseded, Revoked, SaveUser, WriteUser, rows, Idle
<1>0. CASE UNCHANGED vars
  BY <1>0 DEF vars
<1>1. ASSUME NEW l \in Links, AcceptInvitation(l) PROVE NothingBefore'
  BY <1>1 DEF AcceptInvitation
<1>2. ASSUME NEW l \in Links, ForgotPassword(l) PROVE NothingBefore'
  BY <1>2 DEF ForgotPassword
<1>3. ASSUME NEW l \in Links, ExpireLink(l) PROVE NothingBefore'
  BY <1>3 DEF ExpireLink
<1>4. ASSUME NEW l \in Links, CleanUpLink(l) PROVE NothingBefore'
  BY <1>4 DEF CleanUpLink
<1>5. ASSUME NEW l \in Links, NEW s \in Sessions, Register(l, s) PROVE NothingBefore'
  BY <1>5 DEF Register
<1>6. CASE RegisterByProvider
  BY <1>6 DEF RegisterByProvider
<1>7. ASSUME NEW s \in Sessions, ReusedSession(s) PROVE NothingBefore'
  BY <1>7 DEF ReusedSession
<1>8. ASSUME NEW s \in Sessions, Logout(s) PROVE NothingBefore'
  BY <1>8 DEF Logout
<1>9. CASE ExpireCopy
  BY <1>9 DEF ExpireCopy
<1>10. ASSUME NEW r \in Requests, Resend(r, "verify") \/ Resend(r, "social") PROVE NothingBefore'
  BY <1>10 DEF Resend
<1>11. ASSUME NEW r \in Requests, NEW l \in Links, ReadLink(r, l) PROVE NothingBefore'
  BY <1>11 DEF ReadLink
<1>12. ASSUME NEW r \in Requests, NEW l \in Links, ClaimCode(r, l) PROVE NothingBefore'
  BY <1>12 DEF ClaimCode
<1>13. ASSUME NEW r \in Requests, Login(r) \/ OAuthSignIn(r) \/ ReadUser(r) PROVE NothingBefore'
  BY <1>13 DEF Login, OAuthSignIn, ReadUser
<1>14. ASSUME NEW r \in Requests, ChangePassword(r) PROVE NothingBefore'
  BY <1>14 DEF ChangePassword
<1>15. ASSUME NEW r \in Requests, ReadForAdmin(r, "edit") \/ ReadForAdmin(r, "admin_reset")
      PROVE NothingBefore'
  BY <1>15 DEF ReadForAdmin
<1>16. ASSUME NEW r \in Requests, NEW s \in Sessions, ReadSession(r, s) PROVE NothingBefore'
  BY <1>16 DEF ReadSession
<1>17. ASSUME NEW r \in Requests, NEW l \in Links, MintAgain(r, l) PROVE NothingBefore'
  BY <1>17 DEF MintAgain
<1>18. ASSUME NEW r \in Requests, ConsumeLink(r) PROVE NothingBefore'
  BY <1>18 DEF ConsumeLink
<1>19. ASSUME NEW r \in Requests, NEW given \in BOOLEAN, VerifyEmail(r, given) PROVE NothingBefore'
  <2>1. account.known
    BY <1>19 DEF VerifyEmail
  <2>2. account.known'
    BY <1>19, <2>1 DEF VerifyEmail, Accounts
  <2> QED BY <2>2
<1>20. ASSUME NEW r \in Requests, SetPassword(r) PROVE NothingBefore'
  BY <1>20 DEF SetPassword
<1>21. ASSUME NEW r \in Requests, ConfirmLink(r) PROVE NothingBefore'
  <2>1. account.known
    BY <1>21 DEF ConfirmLink
  <2>2. account.known'
    BY <1>21, <2>1 DEF ConfirmLink, Accounts
  <2> QED BY <2>2
<1>22. ASSUME NEW r \in Requests, DropCopy(r) PROVE NothingBefore'
  BY <1>22 DEF DropCopy
<1>23. ASSUME NEW r \in Requests, RevokeAll(r) PROVE NothingBefore'
  BY <1>23 DEF RevokeAll
<1>24. ASSUME NEW r \in Requests, NEW s \in Sessions, Issue(r, s) PROVE NothingBefore'
  BY <1>24 DEF Issue
<1>25. ASSUME NEW r \in Requests, NEW s \in Sessions, NEW l \in Links, StoreCode(r, s, l)
      PROVE NothingBefore'
  BY <1>25 DEF StoreCode
<1>26. ASSUME NEW r \in Requests, RotateSession(r) PROVE NothingBefore'
  BY <1>26 DEF RotateSession
<1>27. ASSUME NEW r \in Requests, ConsumeCode(r) PROVE NothingBefore'
  BY <1>27 DEF ConsumeCode
<1>28. ASSUME NEW r \in Requests, CacheUser(r) PROVE NothingBefore'
  BY <1>28 DEF CacheUser
<1>29. ASSUME NEW r \in Requests, Die(r) PROVE NothingBefore'
  BY <1>29 DEF Die
<1>30. ASSUME NEW r \in Requests, NEW active \in BOOLEAN, NEW verified \in BOOLEAN,
             SaveForm(r, active, verified)
      PROVE NothingBefore'
  BY <1>30 DEF SaveForm
<1>31. ASSUME NEW r \in Requests, CommitForm(r) PROVE NothingBefore'
  BY <1>31 DEF CommitForm, FormsHaveAccounts
<1>32. ASSUME NEW r \in Requests, AdminResetPassword(r) PROVE NothingBefore'
  <2>1. account'.known
    BY <1>32 DEF AdminResetPassword, FormsHaveAccounts, Jobs, Accounts
  <2> QED BY <2>1
<1>33. CASE AddUser
  BY <1>33 DEF AddUser
<1> QED BY <1>0, <1>1, <1>2, <1>3, <1>4, <1>5, <1>6, <1>7, <1>8, <1>9, <1>10, <1>11, <1>12, <1>13,
       <1>14, <1>15, <1>16, <1>17, <1>18, <1>19, <1>20, <1>21, <1>22, <1>23, <1>24, <1>25, <1>26,
       <1>27, <1>28, <1>29, <1>30, <1>31, <1>32, <1>33 DEF Next, Begin, Proceed

\* A token issued to a request that read the user too early is marked as late.
LEMMA IssuedIsKnown ==
    ASSUME TokensTypeOK, NEW s \in Sessions, NEW u \in Accounts, IssueTo(u, s)
    PROVE  \A q \in Sessions :
              \/ session'[q] = session[q]
              \/ session'[q].version >= account.stamp \/ session'[q].late
<1>1. u.version \in Nat /\ account.stamp \in Nat
  BY TokensAssumption DEF TokensTypeOK, Accounts
<1>2. /\ session'[s].version = u.version
      /\ session'[s].late = (u.version < account.stamp)
      /\ \A q \in Sessions \ {s} : session'[q] = session[q]
  BY DEF TokensTypeOK, IssueTo
<1>3. CASE u.version < account.stamp
  BY <1>2, <1>3
<1>4. CASE u.version >= account.stamp
  BY <1>2, <1>4
<1> QED BY <1>1, <1>3, <1>4

\* A step that leaves old sessions alive leaves somebody who will revoke them.
LEMMA OldSessionsAreOwedStep ==
    ASSUME TokensTypeOK, HeldItems, NothingBefore, OldSessionsAreOwed, [Next]_vars
    PROVE  OldSessionsAreOwed'
<1> USE DEF OldSessionsAreOwed, OwesRevocation, TokensTypeOK, SessionRows, Goto, Finish, Start,
       IssueNext, Mint, IssueTo, Superseded, Revoked, SaveUser, WriteUser, rows, Idle
<1>0. CASE UNCHANGED vars
  BY <1>0 DEF vars
<1>1. ASSUME NEW l \in Links, AcceptInvitation(l) PROVE OldSessionsAreOwed'
  BY <1>1 DEF AcceptInvitation, NothingBefore, NoAccount
<1>2. ASSUME NEW l \in Links, ForgotPassword(l) PROVE OldSessionsAreOwed'
  BY <1>2 DEF ForgotPassword
<1>3. ASSUME NEW l \in Links, ExpireLink(l) PROVE OldSessionsAreOwed'
  BY <1>3 DEF ExpireLink
<1>4. ASSUME NEW l \in Links, CleanUpLink(l) PROVE OldSessionsAreOwed'
  BY <1>4 DEF CleanUpLink
<1>5. ASSUME NEW l \in Links, NEW s \in Sessions, Register(l, s) PROVE OldSessionsAreOwed'
  BY <1>5 DEF Register, NothingBefore, NoAccount
<1>6. CASE RegisterByProvider
  BY <1>6 DEF RegisterByProvider, NothingBefore, NoAccount
<1>7. ASSUME NEW s \in Sessions, ReusedSession(s) PROVE OldSessionsAreOwed'
  BY <1>7 DEF ReusedSession
<1>8. ASSUME NEW s \in Sessions, Logout(s) PROVE OldSessionsAreOwed'
  BY <1>8 DEF Logout
<1>9. CASE ExpireCopy
  BY <1>9 DEF ExpireCopy
<1>10. ASSUME NEW r \in Requests, Resend(r, "verify") \/ Resend(r, "social")
      PROVE OldSessionsAreOwed'
  BY <1>10 DEF Resend
<1>11. ASSUME NEW r \in Requests, NEW l \in Links, ReadLink(r, l) PROVE OldSessionsAreOwed'
  BY <1>11 DEF ReadLink
<1>12. ASSUME NEW r \in Requests, NEW l \in Links, ClaimCode(r, l) PROVE OldSessionsAreOwed'
  BY <1>12 DEF ClaimCode
<1>13. ASSUME NEW r \in Requests, Login(r) \/ OAuthSignIn(r) \/ ReadUser(r)
      PROVE OldSessionsAreOwed'
  BY <1>13 DEF Login, OAuthSignIn, ReadUser
<1>14. ASSUME NEW r \in Requests, ChangePassword(r) PROVE OldSessionsAreOwed'
  BY <1>14 DEF ChangePassword
<1>15. ASSUME NEW r \in Requests, ReadForAdmin(r, "edit") \/ ReadForAdmin(r, "admin_reset")
      PROVE OldSessionsAreOwed'
  BY <1>15 DEF ReadForAdmin
<1>16. ASSUME NEW r \in Requests, NEW s \in Sessions, ReadSession(r, s) PROVE OldSessionsAreOwed'
  BY <1>16 DEF ReadSession
<1>17. ASSUME NEW r \in Requests, NEW l \in Links, MintAgain(r, l) PROVE OldSessionsAreOwed'
  BY <1>17 DEF MintAgain
<1>18. ASSUME NEW r \in Requests, ConsumeLink(r) PROVE OldSessionsAreOwed'
  BY <1>18 DEF ConsumeLink
<1>19. ASSUME NEW r \in Requests, NEW given \in BOOLEAN, VerifyEmail(r, given)
      PROVE OldSessionsAreOwed'
  <2>1. session' = session /\ account.stamp' = account.stamp /\ mishaps' = mishaps
    BY <1>19 DEF VerifyEmail, Accounts
  <2>2. ~OwesRevocation(r)
    BY <1>19 DEF VerifyEmail
  <2>3. \A q \in Requests : OwesRevocation(q) => OwesRevocation(q)'
    BY <1>19, <2>2 DEF VerifyEmail
  <2> QED BY <2>1, <2>3
<1>20. ASSUME NEW r \in Requests, SetPassword(r) PROVE OldSessionsAreOwed'
  BY <1>20 DEF SetPassword
<1>21. ASSUME NEW r \in Requests, ConfirmLink(r) PROVE OldSessionsAreOwed'
  <2>1. session' = session /\ account.stamp' = account.stamp /\ mishaps' = mishaps
    BY <1>21 DEF ConfirmLink, Accounts
  <2>2. ~OwesRevocation(r)
    BY <1>21 DEF ConfirmLink
  <2>3. \A q \in Requests : OwesRevocation(q) => OwesRevocation(q)'
    BY <1>21, <2>2 DEF ConfirmLink
  <2> QED BY <2>1, <2>3
<1>22. ASSUME NEW r \in Requests, DropCopy(r) PROVE OldSessionsAreOwed'
  BY <1>22 DEF DropCopy
<1>23. ASSUME NEW r \in Requests, RevokeAll(r) PROVE OldSessionsAreOwed'
  BY <1>23 DEF RevokeAll
<1>24. ASSUME NEW r \in Requests, NEW s \in Sessions, Issue(r, s) PROVE OldSessionsAreOwed'
  <2>1. IssueTo(req[r].user, s) /\ req[r].user \in Accounts
    BY <1>24 DEF Issue, Jobs
  <2>2. \A q \in Requests : OwesRevocation(q) => OwesRevocation(q)'
    BY <1>24 DEF Issue
  <2>3. account' = account /\ mishaps' = mishaps
    BY <1>24 DEF Issue
  <2> HIDE DEF IssueTo, OwesRevocation, TokensTypeOK
  <2> QED BY <2>1, <2>2, <2>3, IssuedIsKnown
<1>25. ASSUME NEW r \in Requests, NEW s \in Sessions, NEW l \in Links, StoreCode(r, s, l)
      PROVE OldSessionsAreOwed'
  <2>1. IssueTo(req[r].user, s) /\ req[r].user \in Accounts
    BY <1>25 DEF StoreCode, Jobs
  <2>2. \A q \in Requests : OwesRevocation(q) => OwesRevocation(q)'
    BY <1>25 DEF StoreCode
  <2>3. account' = account /\ mishaps' = mishaps
    BY <1>25 DEF StoreCode
  <2> HIDE DEF IssueTo, OwesRevocation, TokensTypeOK
  <2> QED BY <2>1, <2>2, <2>3, IssuedIsKnown
<1>26. ASSUME NEW r \in Requests, RotateSession(r) PROVE OldSessionsAreOwed'
  BY <1>26 DEF RotateSession
<1>27. ASSUME NEW r \in Requests, ConsumeCode(r) PROVE OldSessionsAreOwed'
  BY <1>27 DEF ConsumeCode
<1>28. ASSUME NEW r \in Requests, CacheUser(r) PROVE OldSessionsAreOwed'
  BY <1>28 DEF CacheUser
<1>29. ASSUME NEW r \in Requests, Die(r) PROVE OldSessionsAreOwed'
  BY <1>29 DEF Die
<1>30. ASSUME NEW r \in Requests, NEW active \in BOOLEAN, NEW verified \in BOOLEAN,
             SaveForm(r, active, verified)
      PROVE OldSessionsAreOwed'
  BY <1>30 DEF SaveForm
<1>31. ASSUME NEW r \in Requests, CommitForm(r) PROVE OldSessionsAreOwed'
  BY <1>31 DEF CommitForm, Undoing
<1>32. ASSUME NEW r \in Requests, AdminResetPassword(r) PROVE OldSessionsAreOwed'
  <2>1. CASE "undone" \in mishaps'
    BY <2>1
  <2>2. CASE "undone" \notin mishaps'
    <3>1. req[r].user \in Accounts
      BY DEF Jobs
    <3>2. account'.stamp = req[r].user.stamp
      BY <1>32, <3>1 DEF AdminResetPassword, Accounts
    <3>3. mishaps' = mishaps /\ session' = session /\ account'.stamp = account.stamp
      BY <1>32, <2>2, <3>2 DEF AdminResetPassword, Undoing
    <3>4. \A q \in Requests : OwesRevocation(q) => OwesRevocation(q)'
      BY <1>32 DEF AdminResetPassword
    <3> QED BY <3>3, <3>4
  <2> QED BY <2>1, <2>2
<1>33. CASE AddUser
  BY <1>33 DEF AddUser, NothingBefore, NoAccount
<1> QED BY <1>0, <1>1, <1>2, <1>3, <1>4, <1>5, <1>6, <1>7, <1>8, <1>9, <1>10, <1>11, <1>12, <1>13,
       <1>14, <1>15, <1>16, <1>17, <1>18, <1>19, <1>20, <1>21, <1>22, <1>23, <1>24, <1>25, <1>26,
       <1>27, <1>28, <1>29, <1>30, <1>31, <1>32, <1>33 DEF Next, Begin, Proceed

\* A save that outdates the cached copy is followed by its signal.
LEMMA CopyIsCurrentStep ==
    ASSUME TokensTypeOK, NothingBefore, CommitsAreUncached, CopyIsCurrent, [Next]_vars
    PROVE  CopyIsCurrent'
<1> USE DEF CopyIsCurrent, Outdated, TokensTypeOK, Goto, Finish, Start, IssueNext, Mint, IssueTo,
       Superseded, Revoked, SaveUser, WriteUser, rows, Idle
<1>0. CASE UNCHANGED vars
  BY <1>0 DEF vars
<1>1. ASSUME NEW l \in Links, AcceptInvitation(l) PROVE CopyIsCurrent'
  BY <1>1 DEF AcceptInvitation, NothingBefore
<1>2. ASSUME NEW l \in Links, ForgotPassword(l) PROVE CopyIsCurrent'
  BY <1>2 DEF ForgotPassword
<1>3. ASSUME NEW l \in Links, ExpireLink(l) PROVE CopyIsCurrent'
  BY <1>3 DEF ExpireLink
<1>4. ASSUME NEW l \in Links, CleanUpLink(l) PROVE CopyIsCurrent'
  BY <1>4 DEF CleanUpLink
<1>5. ASSUME NEW l \in Links, NEW s \in Sessions, Register(l, s) PROVE CopyIsCurrent'
  BY <1>5 DEF Register, NothingBefore
<1>6. CASE RegisterByProvider
  BY <1>6 DEF RegisterByProvider, NothingBefore
<1>7. ASSUME NEW s \in Sessions, ReusedSession(s) PROVE CopyIsCurrent'
  BY <1>7 DEF ReusedSession
<1>8. ASSUME NEW s \in Sessions, Logout(s) PROVE CopyIsCurrent'
  BY <1>8 DEF Logout
<1>9. CASE ExpireCopy
  BY <1>9 DEF ExpireCopy
<1>10. ASSUME NEW r \in Requests, Resend(r, "verify") \/ Resend(r, "social") PROVE CopyIsCurrent'
  BY <1>10 DEF Resend
<1>11. ASSUME NEW r \in Requests, NEW l \in Links, ReadLink(r, l) PROVE CopyIsCurrent'
  BY <1>11 DEF ReadLink
<1>12. ASSUME NEW r \in Requests, NEW l \in Links, ClaimCode(r, l) PROVE CopyIsCurrent'
  BY <1>12 DEF ClaimCode
<1>13. ASSUME NEW r \in Requests, Login(r) \/ OAuthSignIn(r) \/ ReadUser(r) PROVE CopyIsCurrent'
  BY <1>13 DEF Login, OAuthSignIn, ReadUser
<1>14. ASSUME NEW r \in Requests, ChangePassword(r) PROVE CopyIsCurrent'
  BY <1>14 DEF ChangePassword
<1>15. ASSUME NEW r \in Requests, ReadForAdmin(r, "edit") \/ ReadForAdmin(r, "admin_reset")
      PROVE CopyIsCurrent'
  BY <1>15 DEF ReadForAdmin
<1>16. ASSUME NEW r \in Requests, NEW s \in Sessions, ReadSession(r, s) PROVE CopyIsCurrent'
  BY <1>16 DEF ReadSession
<1>17. ASSUME NEW r \in Requests, NEW l \in Links, MintAgain(r, l) PROVE CopyIsCurrent'
  BY <1>17 DEF MintAgain
<1>18. ASSUME NEW r \in Requests, ConsumeLink(r) PROVE CopyIsCurrent'
  BY <1>18 DEF ConsumeLink
<1>19. ASSUME NEW r \in Requests, NEW given \in BOOLEAN, VerifyEmail(r, given) PROVE CopyIsCurrent'
  <2>1. CASE SaveUser(r, [account EXCEPT !.verified = TRUE, !.password = TRUE], "issue")
    BY <2>1
  <2>2. CASE Finish(r) /\ UNCHANGED <<rows, cached, redeemed, mishaps>>
    BY <1>19, <2>2 DEF VerifyEmail
  <2>3. CASE IssueNext(r) /\ UNCHANGED <<rows, cached, redeemed, mishaps>>
    BY <1>19, <2>3 DEF VerifyEmail
  <2> HIDE DEF SaveUser, WriteUser, Finish, IssueNext, rows
  <2> QED BY <1>19, <2>1, <2>2, <2>3 DEF VerifyEmail
<1>20. ASSUME NEW r \in Requests, SetPassword(r) PROVE CopyIsCurrent'
  BY <1>20 DEF SetPassword
<1>21. ASSUME NEW r \in Requests, ConfirmLink(r) PROVE CopyIsCurrent'
  <2>1. CASE UNCHANGED rows /\ req[r].stage # "drop_copy"
    BY <1>21, <2>1 DEF ConfirmLink
  <2>2. CASE req'[r].stage = "drop_copy"
    BY <2>2
  <2> QED BY <1>21, <2>1, <2>2 DEF ConfirmLink
<1>22. ASSUME NEW r \in Requests, DropCopy(r) PROVE CopyIsCurrent'
  BY <1>22 DEF DropCopy
<1>23. ASSUME NEW r \in Requests, RevokeAll(r) PROVE CopyIsCurrent'
  BY <1>23 DEF RevokeAll
<1>24. ASSUME NEW r \in Requests, NEW s \in Sessions, Issue(r, s) PROVE CopyIsCurrent'
  BY <1>24 DEF Issue
<1>25. ASSUME NEW r \in Requests, NEW s \in Sessions, NEW l \in Links, StoreCode(r, s, l)
      PROVE CopyIsCurrent'
  BY <1>25 DEF StoreCode
<1>26. ASSUME NEW r \in Requests, RotateSession(r) PROVE CopyIsCurrent'
  BY <1>26 DEF RotateSession
<1>27. ASSUME NEW r \in Requests, ConsumeCode(r) PROVE CopyIsCurrent'
  BY <1>27 DEF ConsumeCode
<1>28. ASSUME NEW r \in Requests, CacheUser(r) PROVE CopyIsCurrent'
  BY <1>28 DEF CacheUser
<1>29. ASSUME NEW r \in Requests, Die(r) PROVE CopyIsCurrent'
  BY <1>29 DEF Die
<1>30. ASSUME NEW r \in Requests, NEW active \in BOOLEAN, NEW verified \in BOOLEAN,
             SaveForm(r, active, verified)
      PROVE CopyIsCurrent'
  BY <1>30 DEF SaveForm
<1>31. ASSUME NEW r \in Requests, CommitForm(r) PROVE CopyIsCurrent'
  BY <1>31 DEF CommitForm, CommitsAreUncached, Unlocked
<1>32. ASSUME NEW r \in Requests, AdminResetPassword(r) PROVE CopyIsCurrent'
  BY <1>32 DEF AdminResetPassword
<1>33. CASE AddUser
  BY <1>33 DEF AddUser, NothingBefore
<1> QED BY <1>0, <1>1, <1>2, <1>3, <1>4, <1>5, <1>6, <1>7, <1>8, <1>9, <1>10, <1>11, <1>12, <1>13,
       <1>14, <1>15, <1>16, <1>17, <1>18, <1>19, <1>20, <1>21, <1>22, <1>23, <1>24, <1>25, <1>26,
       <1>27, <1>28, <1>29, <1>30, <1>31, <1>32, <1>33 DEF Next, Begin, Proceed

----------------------------------------------------------------------------
(* The theorems.                                                           *)

\* The inductive invariant holds at the start.
LEMMA InitEstablishesInv == Init => Inv
<1> SUFFICES ASSUME Init PROVE Inv
  OBVIOUS
<1>1. TokensTypeOK
  <2>1. Idle \in Jobs
    BY AccountsAreTyped DEF Idle, Jobs, Stages
  <2>2. link \in [Links -> LinkRows] /\ session \in [Sessions -> SessionRows]
    BY TokensAssumption DEF Init, LinkRows, SessionRows
  <2> QED BY <2>1, <2>2, AccountsAreTyped, TokensAssumption DEF Init, TokensTypeOK, NoCopy
<1>2. HeldItems /\ RedeemedIsUsed /\ NothingBefore
  BY DEF Init, HeldItems, RedeemedIsUsed, NothingBefore, Idle
<1>3. OldSessionsAreOwed /\ CopyIsCurrent
  BY DEF Init, OldSessionsAreOwed, CopyIsCurrent
<1>4. FormsHaveAccounts /\ CommitsAreUncached
  BY DEF Init, FormsHaveAccounts, CommitsAreUncached, Idle
<1> QED BY <1>1, <1>2, <1>3, <1>4 DEF Inv

\* Every step keeps the inductive invariant.
LEMMA InvStep == Inv /\ [Next]_vars => Inv'
<1> SUFFICES ASSUME Inv, [Next]_vars PROVE Inv'
  OBVIOUS
<1> USE DEF Inv
<1>1. TokensTypeOK'
  BY TypeStep
<1>2. HeldItems'
  BY LinksLastStep, HeldItemsStep
<1>3. RedeemedIsUsed'
  BY RedeemedIsUsedStep
<1>4. NothingBefore'
  BY NothingBeforeStep
<1>5. OldSessionsAreOwed'
  BY OldSessionsAreOwedStep
<1>6. CopyIsCurrent'
  BY CopyIsCurrentStep
<1>7. FormsHaveAccounts'
  BY FormsHaveAccountsStep
<1>8. CommitsAreUncached'
  BY CommitsAreUncachedStep
<1> QED BY <1>1, <1>2, <1>3, <1>4, <1>5, <1>6, <1>7, <1>8

\* The inductive invariant is an invariant of the token store and the views.
THEOREM InvCorrect == Spec => []Inv
BY InitEstablishesInv, InvStep, PTL DEF Spec

\* The state of tokens, requests and cache keeps its types: no handler goes on
\* to a step that its kind of link does not have.
THEOREM TokensTypeCorrect == Spec => []TokensTypeOK
<1>1. Inv => TokensTypeOK
  BY DEF Inv
<1> QED BY <1>1, InvCorrect, PTL

\* _consume_one_time_token and _consume_oauth_exchange let one request through
\* per link or code, however many race for it.
THEOREM RedeemedOnceCorrect == Spec => []RedeemedOnce
<1>1. Inv => RedeemedOnce
  BY DEF Inv, TokensTypeOK, RedeemedIsUsed, RedeemedOnce
<1> QED BY <1>1, InvCorrect, PTL

\* ResetPasswordView and ChangePasswordView leave no session of the old password
\* alive but those that the property excepts, with the admin site at work on the
\* same account.
THEOREM ChangesEndSessionsCorrect == Spec => []ChangesEndSessions
<1>1. Inv => ChangesEndSessions
  BY DEF Inv, OldSessionsAreOwed, OwesRevocation, ChangesEndSessions
<1> QED BY <1>1, InvCorrect, PTL

\* _invalidate_auth_user_cache keeps the copy of JWTAuthentication current, up
\* to its own delay, copies cached late, and copies cached between the signal
\* and the commit of an admin's save.
THEOREM CopyIsCurrentCorrect == Spec => []CopyIsCurrent
<1>1. Inv => CopyIsCurrent
  BY DEF Inv
<1> QED BY <1>1, InvCorrect, PTL
=============================================================================
