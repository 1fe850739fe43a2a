------------------------------ MODULE Accounts ------------------------------
(***************************************************************************)
(* Accounts, organisations and access tokens.                              *)
(*                                                                         *)
(*   backend/api/v1/auth.py   register, login, oidc_callback               *)
(*   backend/api/v1/users.py  invite_user, update_role, remove_user        *)
(*   backend/core/deps.py     get_current_user, require_admin: who a token *)
(*       stands for is read from the users table in every request          *)
(*                                                                         *)
(* A request reads first and commits later, each SELECT seeing whatever is *)
(* committed by then, and no row is locked or carries a version.  Only the *)
(* unique constraint on users.email is checked by the database.  What ends *)
(* a request early (400, 401, 403, 404, 500, 502) leaves no trace: it      *)
(* becomes idle, and its session is rolled back.                           *)
(***************************************************************************)
EXTENDS Integers, FiniteSets

CONSTANTS
    Ids,      \* uuids: each account gets one that nobody had before
    NoId,     \* no account
    Emails,
    Roles,    \* role_enum
    Clients   \* requests that may be under way at the same time

ASSUME IdsAssumption == NoId \notin Ids
ASSUME RolesAssumption == "admin" \in Roles

VARIABLES
    user,     \* the users table: the row of each id, or Nobody
    orgs,     \* the organizations table, each named by the account it began with
    minted,   \* the ids given to accounts so far
    tokens,   \* the access tokens issued: the account, and the role it had
    req       \* the request of each client

vars == <<user, orgs, minted, tokens, req>>

Nobody == [email |-> NoId, org |-> NoId, role |-> "admin"]

Account == [email : Emails, org : Ids, role : Roles]

Token == [sub : Ids, role : Roles]

\* A client with nothing under way.
Idle == [pc |-> "idle", actor |-> NoId, org |-> NoId, asAdmin |-> FALSE,
         subject |-> NoId, email |-> NoId, role |-> "admin", seen |-> "admin"]

(* pc: "create" register or oidc_callback found no account of that e-mail;
       "issue" the new account is committed, its token is not yet handed out;
       "admitted" require_admin let the caller through;
       "insert" invite_user found no account of that e-mail;
       "set_role", "remove" the account to change has been read.
   org and asAdmin are what the users table said of the caller when it was
   admitted; seen is the role of the subject as it was read. *)
Request ==
    [pc : {"create", "issue", "admitted", "insert", "set_role", "remove"},
     actor : Ids \cup {NoId}, org : Ids \cup {NoId}, asAdmin : BOOLEAN,
     subject : Ids \cup {NoId}, email : Emails \cup {NoId}, role : Roles, seen : Roles]

TypeOK ==
    /\ user \in [Ids -> Account \cup {Nobody}]
    /\ orgs \subseteq Ids
    /\ minted \subseteq Ids
    /\ tokens \subseteq Token
    /\ req \in [Clients -> Request \cup {Idle}]

Init ==
    /\ user = [i \in Ids |-> Nobody]
    /\ orgs = {}
    /\ minted = {}
    /\ tokens = {}
    /\ req = [c \in Clients |-> Idle]

Present(i) == user[i] /= Nobody

Taken(e) == \E i \in Ids : Present(i) /\ user[i].email = e

At(c, pc) == req[c].pc = pc

Answer(c) == req' = [req EXCEPT ![c] = Idle]

TokenOf(i) == [sub |-> i, role |-> user[i].role]

-----------------------------------------------------------------------------
(* auth.py                                                                 *)

\* register: the SELECT finds nobody of this e-mail (otherwise 400).
StartRegister(c, e) ==
    /\ At(c, "idle")
    /\ ~Taken(e)
    /\ req' = [req EXCEPT ![c] = [Idle EXCEPT !.pc = "create", !.email = e]]
    /\ UNCHANGED <<user, orgs, minted, tokens>>

\* oidc_callback: the state cookie matches and the provider vouches for e;
\* a token for the account of that e-mail, or a new one is to be made.
OidcCallback(c, e) ==
    /\ At(c, "idle")
    /\ \/ /\ \E i \in Ids : /\ Present(i) /\ user[i].email = e
                            /\ tokens' = tokens \cup {TokenOf(i)}
          /\ UNCHANGED req
       \/ /\ ~Taken(e)
          /\ req' = [req EXCEPT ![c] = [Idle EXCEPT !.pc = "create", !.email = e]]
          /\ UNCHANGED tokens
    /\ UNCHANGED <<user, orgs, minted>>

\* login with the right password.  An account made by oidc_callback has none,
\* but gets the same token there.
Login(i) ==
    /\ Present(i)
    /\ tokens' = tokens \cup {TokenOf(i)}
    /\ UNCHANGED <<user, orgs, minted, req>>

\* Mutant: no unique constraint on users.email.
CreateAccount_AnyEmail(c, i) ==
    /\ At(c, "create")
    /\ i \notin minted
    /\ user' = [user EXCEPT ![i] = [email |-> req[c].email, org |-> i, role |-> "admin"]]
    /\ orgs' = orgs \cup {i}
    /\ minted' = minted \cup {i}
    /\ req' = [req EXCEPT ![c].pc = "issue", ![c].subject = i]
    /\ UNCHANGED tokens

\* Mutant: the organisation is committed where the code flushes it.
CreateAccount_CommitsOrg(c, i) ==
    /\ At(c, "create")
    /\ i \notin minted
    /\ orgs' = orgs \cup {i}
    /\ IF Taken(req[c].email)
       THEN Answer(c) /\ UNCHANGED <<user, minted>>
       ELSE /\ user' = [user EXCEPT ![i] = [email |-> req[c].email, org |-> i, role |-> "admin"]]
            /\ minted' = minted \cup {i}
            /\ req' = [req EXCEPT ![c].pc = "issue", ![c].subject = i]
    /\ UNCHANGED tokens

\* The organisation, flushed, and its first account in one commit; the unique
\* constraint refuses both when the e-mail was taken meanwhile (500).
CreateAccount(c, i) ==
    /\ At(c, "create")
    /\ i \notin minted
    /\ IF Taken(req[c].email)
       THEN Answer(c) /\ UNCHANGED <<user, orgs, minted>>
       ELSE /\ user' = [user EXCEPT ![i] = [email |-> req[c].email, org |-> i, role |-> "admin"]]
            /\ orgs' = orgs \cup {i}
            /\ minted' = minted \cup {i}
            /\ req' = [req EXCEPT ![c].pc = "issue", ![c].subject = i]
    /\ UNCHANGED tokens

\* The token of the new account, with the role it was created with.
IssueToken(c) ==
    /\ At(c, "issue")
    /\ tokens' = tokens \cup {[sub |-> req[c].subject, role |-> "admin"]}
    /\ Answer(c)
    /\ UNCHANGED <<user, orgs, minted>>

-----------------------------------------------------------------------------
(* deps.py                                                                 *)

\* Mutant: the role is taken from the token.
Authorize_ByClaim(c, t) ==
    /\ At(c, "idle")
    /\ Present(t.sub)
    /\ t.role = "admin"
    /\ req' = [req EXCEPT ![c] = [Idle EXCEPT !.pc = "admitted", !.actor = t.sub,
                                     !.org = user[t.sub].org, !.asAdmin = user[t.sub].role = "admin"]]
    /\ UNCHANGED <<user, orgs, minted, tokens>>

\* get_current_user and require_admin: the account of the token exists (401)
\* and its row, not the token, says admin (403).
Authorize(c, t) ==
    /\ At(c, "idle")
    /\ Present(t.sub)
    /\ user[t.sub].role = "admin"
    /\ req' = [req EXCEPT ![c] = [Idle EXCEPT !.pc = "admitted", !.actor = t.sub,
                                     !.org = user[t.sub].org, !.asAdmin = user[t.sub].role = "admin"]]
    /\ UNCHANGED <<user, orgs, minted, tokens>>

-----------------------------------------------------------------------------
(* users.py, behind require_admin                                          *)

Admitted(c, next) ==
    /\ At(c, "admitted")
    /\ req' = [req EXCEPT ![c] = next]
    /\ UNCHANGED <<user, orgs, minted, tokens>>

\* invite_user: the SELECT finds nobody of this e-mail (otherwise 400).
FindInvited(c, e, r) ==
    /\ ~Taken(e)
    /\ Admitted(c, [req[c] EXCEPT !.pc = "insert", !.email = e, !.role = r])

\* The commit of invite_user, which the unique constraint may refuse.
InsertInvited(c, i) ==
    /\ At(c, "insert")
    /\ i \notin minted
    /\ IF Taken(req[c].email)
       THEN UNCHANGED <<user, minted>>
       ELSE /\ user' = [user EXCEPT ![i] =
                          [email |-> req[c].email, org |-> req[c].org, role |-> req[c].role]]
            /\ minted' = minted \cup {i}
    /\ Answer(c)
    /\ UNCHANGED <<orgs, tokens>>

\* Mutant: no check against oneself.
Manages_Oneself(c, i) == Present(i) /\ user[i].org = req[c].org

\* The account asked for is one of the caller's organisation (404), and not
\* the caller's own (400).
Manages(c, i) == /\ Present(i)
                 /\ user[i].org = req[c].org
                 /\ i /= req[c].actor

\* update_role and remove_user, up to the commit.
LoadForRole(c, i, r) ==
    /\ Manages(c, i)
    /\ Admitted(c, [req[c] EXCEPT !.pc = "set_role", !.subject = i, !.role = r,
                                  !.seen = user[i].role])

LoadForRemove(c, i) ==
    /\ Manages(c, i)
    /\ Admitted(c, [req[c] EXCEPT !.pc = "remove", !.subject = i])

\* Mutant: a row that is gone is written again, as a merge of the object would.
CommitRole_Restores(c) ==
    LET i == req[c].subject IN
    /\ At(c, "set_role")
    /\ user' = [user EXCEPT ![i] = IF Present(i) THEN [@ EXCEPT !.role = req[c].role]
                                   ELSE [email |-> CHOOSE e \in Emails : ~Taken(e),
                                         org |-> req[c].org, role |-> req[c].role]]
    /\ Answer(c)
    /\ UNCHANGED <<orgs, minted, tokens>>

\* UPDATE, of the role only and only if it differs from the one read; when the
\* row is gone it matches none, which the ORM reports (500).
CommitRole(c) ==
    LET i == req[c].subject IN
    /\ At(c, "set_role")
    /\ user' = IF Present(i) /\ req[c].role /= req[c].seen
               THEN [user EXCEPT ![i].role = req[c].role]
               ELSE user
    /\ Answer(c)
    /\ UNCHANGED <<orgs, minted, tokens>>

\* DELETE; nothing refers to a user, and a row that is gone is no error.
CommitRemove(c) ==
    /\ At(c, "remove")
    /\ user' = [user EXCEPT ![req[c].subject] = Nobody]
    /\ Answer(c)
    /\ UNCHANGED <<orgs, minted, tokens>>

\* get_db rolls back a request that raises; a process that dies is rolled back
\* by the database.  What was committed before stays.
RequestFails(c) ==
    /\ ~At(c, "idle")
    /\ Answer(c)
    /\ UNCHANGED <<user, orgs, minted, tokens>>

-----------------------------------------------------------------------------
Auth(c) ==
    \/ \E e \in Emails : StartRegister(c, e) \/ OidcCallback(c, e)
    \/ \E i \in Ids : CreateAccount(c, i)
    \/ IssueToken(c)
    \/ \E t \in tokens : Authorize(c, t)

Manage(c) ==
    \/ \E e \in Emails, r \in Roles : FindInvited(c, e, r)
    \/ \E i \in Ids : InsertInvited(c, i) \/ LoadForRemove(c, i)
    \/ \E i \in Ids, r \in Roles : LoadForRole(c, i, r)
    \/ CommitRole(c) \/ CommitRemove(c)

Next ==
    \/ \E i \in Ids : Login(i)
    \/ \E c \in Clients : Auth(c) \/ Manage(c) \/ RequestFails(c)

Spec == Init /\ [][Next]_vars

-----------------------------------------------------------------------------
(* Properties                                                              *)

\* However registrations, sign-ins and invitations race, an e-mail address
\* belongs to one account, and an organisation exists only together with the
\* account it was made for (flush, then one commit): no request that lost the
\* race leaves an organisation nobody belongs to.
AccountsAreSound ==
    /\ \A i, j \in Ids : Present(i) /\ Present(j) /\ user[i].email = user[j].email => i = j
    /\ orgs \subseteq minted
    /\ \A i \in Ids : Present(i) => user[i].org \in orgs

\* The row of an account changes or goes only by a request of somebody else
\* whom the table, not the token, called an admin of the same organisation
\* when the request came in.
ChangesByAnotherAdmin ==
    [][\A i \in Ids : Present(i) /\ user'[i] /= user[i] =>
          \E c \in Clients : /\ req[c].pc \in {"set_role", "remove"}
                             /\ req[c].subject = i /\ req[c].actor /= i
                             /\ req[c].asAdmin /\ req[c].org = user[i].org]_vars

AdminOf(i, o) == Present(i) /\ user[i].org = o /\ user[i].role = "admin"

HasAdmin(o) == \E i \in Ids : AdminOf(i, o)

\* Nobody can demote or remove themselves, so that an organisation keeps an
\* admin; two admins who do it to each other at the same time are the one way
\* around: the caller of the commit that takes the last admin is, by then, no
\* admin any more.
LastAdminNeedsARace ==
    [][\A o \in Ids : HasAdmin(o) /\ ~HasAdmin(o)' =>
          \E c \in Clients : /\ req[c].pc \in {"set_role", "remove"} /\ req'[c] = Idle
                             /\ req[c].org = o /\ ~AdminOf(req[c].actor, o)]_vars

\* An account that was removed never comes back under its id, whatever requests
\* were still about to write to it: its tokens are worth nothing from then on.
RemovedStayRemoved ==
    [][\A i \in minted : ~Present(i) => ~Present(i)']_vars
=============================================================================
