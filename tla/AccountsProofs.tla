--------------------------- MODULE AccountsProofs ---------------------------
(***************************************************************************)
(* Theorems about Accounts, for any number of accounts, e-mail addresses,  *)
(* roles and concurrent requests.                                          *)
(***************************************************************************)
EXTENDS Accounts, TLAPS

\* Only ids that were given out have rows.
Known == \A i \in Ids : Present(i) => i \in minted

\* What a request behind require_admin carries agrees with the tables, as far
\* as these still have the rows.
Grounded(r) ==
    /\ r.pc \in {"admitted", "insert", "set_role", "remove"}
          => /\ r.actor \in minted /\ r.org \in orgs /\ r.asAdmin
             /\ Present(r.actor) => user[r.actor].org = r.org
    /\ r.pc \in {"create", "insert"} => r.email \in Emails
    /\ r.pc = "issue" => r.subject \in Ids
    /\ r.pc \in {"set_role", "remove"}
          => /\ r.subject \in minted /\ r.subject /= r.actor
             /\ Present(r.subject) => user[r.subject].org = r.org

Inv ==
    /\ TypeOK
    /\ AccountsAreSound
    /\ Known
    /\ \A c \in Clients : Grounded(req[c])

-----------------------------------------------------------------------------
\* A row is an account.
LEMMA RowTyped ==
  ASSUME TypeOK, NEW i \in Ids, Present(i) PROVE user[i] \in Account
  BY DEF TypeOK, Present

\* Nobody is no account.
LEMMA NobodyIsNone == Nobody \notin Account
  BY IdsAssumption DEF Nobody, Account

\* A client with nothing under way carries nothing.
LEMMA IdleGrounded == Grounded(Idle)
  BY DEF Grounded, Idle

\* Steps of a request that leave the tables alone.
LEMMA RequestStep ==
  ASSUME Inv, NEW c \in Clients, NEW r \in Request \cup {Idle}, Grounded(r),
         req' = [req EXCEPT ![c] = r], tokens' \subseteq Token,
         UNCHANGED <<user, orgs, minted>>
  PROVE  Inv'
<1>1. TypeOK'
  BY DEF Inv, TypeOK
<1>2. AccountsAreSound' /\ Known'
  BY DEF Inv, AccountsAreSound, Known, Present
<1>3. \A d \in Clients : Grounded(req'[d])
  BY DEF Inv, TypeOK
<1>4. (\A d \in Clients : Grounded(req[d]))'
  BY <1>3 DEF Grounded, Present
<1>5. QED
  BY <1>1, <1>2, <1>4 DEF Inv

\* A new account, under an id and with an e-mail address that nobody has.
LEMMA InsertStep ==
  ASSUME Inv, NEW c \in Clients, NEW r \in Request \cup {Idle}, Grounded(req[c])',
         NEW i \in Ids, i \notin minted, NEW a \in Account, ~Taken(a.email),
         user' = [user EXCEPT ![i] = a], minted' = minted \cup {i},
         orgs' = orgs \/ orgs' = orgs \cup {i}, a.org \in orgs',
         req' = [req EXCEPT ![c] = r], UNCHANGED tokens
  PROVE  Inv'
<1>1. TypeOK'
  BY DEF Inv, TypeOK
<1>2. ~Present(i) /\ a /= Nobody
  BY NobodyIsNone DEF Inv, Known
<1>3. \A j \in Ids : j /= i => user'[j] = user[j]
  BY DEF Inv, TypeOK
<1>4. user'[i] = a
  BY DEF Inv, TypeOK
<1>5. AccountsAreSound'
  <2>1. \A j, k \in Ids : Present(j)' /\ Present(k)' /\ user'[j].email = user'[k].email => j = k
    BY <1>3, <1>4 DEF Inv, AccountsAreSound, Present, Taken
  <2>2. orgs' \subseteq minted'
    BY DEF Inv, AccountsAreSound
  <2>3. \A j \in Ids : Present(j)' => user'[j].org \in orgs'
    BY <1>3, <1>4 DEF Inv, AccountsAreSound, Present
  <2>4. QED
    BY <2>1, <2>2, <2>3 DEF AccountsAreSound
<1>6. Known'
  BY <1>3 DEF Inv, Known, Present
<1>7. ASSUME NEW d \in Clients PROVE Grounded(req[d])'
  <2>1. CASE d = c
    BY <2>1 DEF Inv, TypeOK
  <2>2. CASE d /= c
    <3>1. req'[d] = req[d] /\ Grounded(req[d])
      BY <2>2 DEF Inv, TypeOK
    <3>2. ASSUME NEW j \in minted PROVE user'[j] = user[j]
      BY <1>3, <3>2 DEF Inv, TypeOK
    <3>3. QED
      BY <3>1, <3>2 DEF Grounded, Present
  <2>3. QED
    BY <2>1, <2>2
<1>8. QED
  BY <1>1, <1>5, <1>6, <1>7 DEF Inv

\* A row that goes, or changes its role.
LEMMA ChangeStep ==
  ASSUME Inv, NEW c \in Clients, NEW i \in Ids, NEW a,
         \/ a = Nobody
         \/ Present(i) /\ a \in Account /\ a.org = user[i].org /\ a.email = user[i].email,
         user' = [user EXCEPT ![i] = a], req' = [req EXCEPT ![c] = Idle],
         UNCHANGED <<orgs, minted, tokens>>
  PROVE  Inv'
<1>1. TypeOK'
  BY DEF Inv, TypeOK
<1>2. \A j \in Ids : Present(j)' => /\ Present(j)
                                   /\ user'[j].org = user[j].org
                                   /\ user'[j].email = user[j].email
  BY DEF Inv, TypeOK, Present
<1>3. AccountsAreSound' /\ Known'
  BY <1>2 DEF Inv, AccountsAreSound, Known
<1>4. ASSUME NEW d \in Clients PROVE Grounded(req[d])'
  <2>1. req'[d] = req[d] \/ req'[d] = Idle
    BY DEF Inv, TypeOK
  <2>2. \A j \in minted : j \in Ids
    BY DEF Inv, TypeOK
  <2>3. Grounded(req[d])
    BY DEF Inv
  <2>4. CASE req'[d] = req[d]
    BY <1>2, <2>2, <2>3, <2>4 DEF Grounded
  <2>5. CASE req'[d] = Idle
    BY <2>5 DEF Grounded, Idle
  <2>6. QED
    BY <2>1, <2>4, <2>5
<1>5. QED
  BY <1>1, <1>3, <1>4 DEF Inv

-----------------------------------------------------------------------------
\* The tokens of register, login and oidc_callback.
LEMMA TokenTyped ==
  ASSUME TypeOK, NEW i \in Ids, Present(i) PROVE TokenOf(i) \in Token
  BY RowTyped DEF TokenOf, Token, Account

LEMMA AuthStep ==
  ASSUME Inv, NEW c \in Clients, Auth(c) PROVE Inv'
<1>1. ASSUME NEW e \in Emails, StartRegister(c, e) PROVE Inv'
  <2>1. [Idle EXCEPT !.pc = "create", !.email = e] \in Request
    BY RolesAssumption DEF Idle, Request
  <2>2. Grounded([Idle EXCEPT !.pc = "create", !.email = e])
    BY DEF Grounded, Idle
  <2>3. QED
    BY <1>1, <2>1, <2>2, RequestStep DEF StartRegister, Inv, TypeOK
<1>2. ASSUME NEW e \in Emails, OidcCallback(c, e) PROVE Inv'
  <2>1. CASE UNCHANGED req
    <3>1. tokens' \subseteq Token
      BY <1>2, TokenTyped DEF OidcCallback, Inv, TypeOK
    <3>2. req' = [req EXCEPT ![c] = req[c]] /\ req[c] \in Request \cup {Idle}
      BY <2>1 DEF Inv, TypeOK
    <3>3. QED
      BY <1>2, <3>1, <3>2, RequestStep DEF OidcCallback, Inv
  <2>2. CASE req' = [req EXCEPT ![c] = [Idle EXCEPT !.pc = "create", !.email = e]]
             /\ UNCHANGED tokens
    <3>1. [Idle EXCEPT !.pc = "create", !.email = e] \in Request
      BY RolesAssumption DEF Idle, Request
    <3>2. Grounded([Idle EXCEPT !.pc = "create", !.email = e])
      BY DEF Grounded, Idle
    <3>3. QED
      BY <1>2, <2>2, <3>1, <3>2, RequestStep DEF OidcCallback, Inv, TypeOK
  <2>3. QED
    BY <1>2, <2>1, <2>2 DEF OidcCallback
<1>3. ASSUME NEW i \in Ids, CreateAccount(c, i) PROVE Inv'
  <2>1. CASE Taken(req[c].email)
    BY <1>3, <2>1, RequestStep, IdleGrounded DEF CreateAccount, Answer, Inv, TypeOK
  <2>2. CASE ~Taken(req[c].email)
    <3> DEFINE a == [email |-> req[c].email, org |-> i, role |-> "admin"]
               r == [req[c] EXCEPT !.pc = "issue", !.subject = i]
    <3>1. req[c] \in Request /\ req[c].email \in Emails
      BY <1>3 DEF CreateAccount, At, Inv, TypeOK, Grounded, Idle
    <3>2. r \in Request
      BY <3>1 DEF Request
    <3>3. r.pc = "issue" /\ r.subject = i
      BY <3>1 DEF Request
    <3>4. a \in Account
      BY <3>1, RolesAssumption DEF Account
    <3>5. req' = [req EXCEPT ![c] = r]
      BY <1>3, <2>2, <3>1 DEF CreateAccount, Inv, TypeOK, Request
    <3>6. /\ user' = [user EXCEPT ![i] = a] /\ orgs' = orgs \cup {i} /\ i \notin minted
          /\ minted' = minted \cup {i} /\ UNCHANGED tokens
          /\ ~Taken(a.email) /\ a.org \in orgs'
      BY <1>3, <2>2 DEF CreateAccount
    <3> HIDE DEF a, r
    <3>7. Grounded(req[c])'
      BY <3>3, <3>5 DEF Grounded, Inv, TypeOK
    <3>8. QED
      BY <3>2, <3>4, <3>5, <3>6, <3>7, InsertStep
  <2>3. QED
    BY <2>1, <2>2
<1>4. ASSUME IssueToken(c) PROVE Inv'
  <2>1. [sub |-> req[c].subject, role |-> "admin"] \in Token
    BY <1>4, RolesAssumption DEF IssueToken, At, Inv, Grounded, Token
  <2>2. QED
    BY <1>4, <2>1, RequestStep, IdleGrounded DEF IssueToken, Answer, Inv, TypeOK
<1>5. ASSUME NEW t \in tokens, Authorize(c, t) PROVE Inv'
  <2> DEFINE r == [Idle EXCEPT !.pc = "admitted", !.actor = t.sub, !.org = user[t.sub].org,
                          !.asAdmin = user[t.sub].role = "admin"]
  <2>1. t.sub \in Ids /\ Present(t.sub) /\ user[t.sub] \in Account
    BY <1>5, RowTyped DEF Authorize, Inv, TypeOK, Token
  <2>2. r \in Request
    BY <2>1, RolesAssumption DEF Idle, Request, Account
  <2>3. Grounded(r)
    BY <1>5, <2>1 DEF Grounded, Authorize, Idle, Inv, AccountsAreSound, Known
  <2>4. req' = [req EXCEPT ![c] = r] /\ UNCHANGED <<user, orgs, minted, tokens>>
    BY <1>5 DEF Authorize
  <2> HIDE DEF r
  <2>5. QED
    BY <2>2, <2>3, <2>4, RequestStep DEF Inv, TypeOK
<1>6. QED
  BY <1>1, <1>2, <1>3, <1>4, <1>5 DEF Auth

LEMMA ManageStep ==
  ASSUME Inv, NEW c \in Clients, Manage(c) PROVE Inv'
<1>0. req[c] \in Request \cup {Idle} /\ Grounded(req[c])
  BY DEF Inv, TypeOK
<1>1. ASSUME NEW e \in Emails, NEW r \in Roles, FindInvited(c, e, r) PROVE Inv'
  <2> DEFINE n == [req[c] EXCEPT !.pc = "insert", !.email = e, !.role = r]
  <2>1. req[c] \in Request /\ req[c].pc = "admitted"
    BY <1>0, <1>1 DEF FindInvited, Admitted, At, Idle
  <2>2. n \in Request
    BY <2>1 DEF Request
  <2>3. Grounded(n)
    BY <1>0, <2>1 DEF Grounded, Request
  <2>4. req' = [req EXCEPT ![c] = n] /\ UNCHANGED <<user, orgs, minted, tokens>>
    BY <1>1 DEF FindInvited, Admitted
  <2> HIDE DEF n
  <2>5. QED
    BY <2>2, <2>3, <2>4, RequestStep DEF Inv, TypeOK
<1>2. ASSUME NEW i \in Ids, InsertInvited(c, i) PROVE Inv'
  <2> DEFINE a == [email |-> req[c].email, org |-> req[c].org, role |-> req[c].role]
  <2>1. CASE Taken(req[c].email)
    BY <1>2, <2>1, RequestStep, IdleGrounded DEF InsertInvited, Answer, Inv, TypeOK
  <2>2. CASE ~Taken(req[c].email)
    <3>1. /\ req[c] \in Request /\ req[c].email \in Emails
          /\ req[c].org \in orgs
      BY <1>0, <1>2 DEF InsertInvited, At, Idle, Grounded
    <3>2. a \in Account
      BY <3>1 DEF Account, Request, Inv, TypeOK
    <3>3. Grounded(req[c])'
      BY <1>2 DEF InsertInvited, Answer, Grounded, Idle, Inv, TypeOK
    <3>4. /\ user' = [user EXCEPT ![i] = a] /\ i \notin minted /\ minted' = minted \cup {i}
          /\ UNCHANGED <<orgs, tokens>> /\ req' = [req EXCEPT ![c] = Idle]
          /\ ~Taken(a.email) /\ a.org \in orgs'
      BY <1>2, <2>2, <3>1 DEF InsertInvited, Answer
    <3> HIDE DEF a
    <3>5. QED
      BY <3>2, <3>3, <3>4, InsertStep
  <2>3. QED
    BY <2>1, <2>2
<1>3. ASSUME NEW i \in Ids, NEW r \in Roles, LoadForRole(c, i, r) PROVE Inv'
  <2> DEFINE n == [req[c] EXCEPT !.pc = "set_role", !.subject = i, !.role = r,
                                 !.seen = user[i].role]
  <2>1. req[c] \in Request /\ req[c].pc = "admitted"
    BY <1>0, <1>3 DEF LoadForRole, Admitted, At, Idle
  <2>2. Present(i) /\ user[i].org = req[c].org /\ i /= req[c].actor /\ i \in minted
    BY <1>3 DEF LoadForRole, Manages, Inv, Known
  <2>3. n \in Request
    BY <2>1, <2>2, RowTyped DEF Request, Account, Inv
  <2>4. Grounded(n)
    BY <1>0, <2>1, <2>2 DEF Grounded, Request
  <2>5. req' = [req EXCEPT ![c] = n] /\ UNCHANGED <<user, orgs, minted, tokens>>
    BY <1>3 DEF LoadForRole, Admitted
  <2> HIDE DEF n
  <2>6. QED
    BY <2>3, <2>4, <2>5, RequestStep DEF Inv, TypeOK
<1>4. ASSUME NEW i \in Ids, LoadForRemove(c, i) PROVE Inv'
  <2> DEFINE n == [req[c] EXCEPT !.pc = "remove", !.subject = i]
  <2>1. req[c] \in Request /\ req[c].pc = "admitted"
    BY <1>0, <1>4 DEF LoadForRemove, Admitted, At, Idle
  <2>2. Present(i) /\ user[i].org = req[c].org /\ i /= req[c].actor /\ i \in minted
    BY <1>4 DEF LoadForRemove, Manages, Inv, Known
  <2>3. n \in Request
    BY <2>1, <2>2 DEF Request
  <2>4. Grounded(n)
    BY <1>0, <2>1, <2>2 DEF Grounded, Request
  <2>5. req' = [req EXCEPT ![c] = n] /\ UNCHANGED <<user, orgs, minted, tokens>>
    BY <1>4 DEF LoadForRemove, Admitted
  <2> HIDE DEF n
  <2>6. QED
    BY <2>3, <2>4, <2>5, RequestStep DEF Inv, TypeOK
<1>5. ASSUME CommitRole(c) PROVE Inv'
  <2> DEFINE i == req[c].subject
  <2>1. i \in Ids /\ req[c].role \in Roles
    BY <1>0, <1>5 DEF CommitRole, At, Grounded, Inv, TypeOK, Idle, Request
  <2>2. CASE Present(i) /\ req[c].role /= req[c].seen
    <3> DEFINE a == [user[i] EXCEPT !.role = req[c].role]
    <3>1. user[i] \in Account
      BY <2>1, <2>2, RowTyped DEF Inv
    <3>2. a \in Account /\ a.org = user[i].org /\ a.email = user[i].email
      BY <2>1, <3>1 DEF Account
    <3>3. /\ user' = [user EXCEPT ![i] = a] /\ req' = [req EXCEPT ![c] = Idle]
          /\ UNCHANGED <<orgs, minted, tokens>>
      BY <1>5, <2>1, <2>2, <3>1 DEF CommitRole, Answer, Inv, TypeOK, Account
    <3> HIDE DEF a, i
    <3>4. QED
      BY <2>1, <2>2, <3>2, <3>3, ChangeStep
  <2>3. CASE ~(Present(i) /\ req[c].role /= req[c].seen)
    BY <1>5, <2>3, RequestStep, IdleGrounded DEF CommitRole, Answer, Inv, TypeOK
  <2>4. QED
    BY <2>2, <2>3
<1>6. ASSUME CommitRemove(c) PROVE Inv'
  <2>1. req[c].subject \in Ids
    BY <1>0, <1>6 DEF CommitRemove, At, Grounded, Inv, TypeOK
  <2>2. QED
    BY <1>6, <2>1, ChangeStep DEF CommitRemove, Answer
<1>7. QED
  BY <1>1, <1>2, <1>3, <1>4, <1>5, <1>6 DEF Manage

-----------------------------------------------------------------------------
\* The inductive invariant: what every request carries still agrees with the
\* tables, so that its commit can only do what it was admitted for.
THEOREM RequestsAreGrounded == Spec => []Inv
<1>1. Init => Inv
  BY DEF Init, Inv, TypeOK, AccountsAreSound, Known, Present, Grounded, Idle
<1>2. Inv /\ [Next]_vars => Inv'
  <2> SUFFICES ASSUME Inv, [Next]_vars PROVE Inv'
    OBVIOUS
  <2>1. ASSUME NEW i \in Ids, Login(i) PROVE Inv'
    <3>1. tokens' \subseteq Token
      BY <2>1, TokenTyped DEF Login, Inv, TypeOK
    <3>2. TypeOK'
      BY <2>1, <3>1 DEF Login, Inv, TypeOK
    <3>3. QED
      BY <2>1, <3>2 DEF Login, Inv, AccountsAreSound, Known, Present, Grounded
  <2>2. ASSUME NEW c \in Clients, RequestFails(c) PROVE Inv'
    BY <2>2, RequestStep, IdleGrounded DEF RequestFails, Answer, Inv, TypeOK
  <2>3. ASSUME UNCHANGED vars PROVE Inv'
    BY <2>3 DEF vars, Inv, TypeOK, AccountsAreSound, Known, Present, Grounded
  <2>4. QED
    BY <2>1, <2>2, <2>3, AuthStep, ManageStep DEF Next
<1>3. QED
  BY <1>1, <1>2, PTL DEF Spec

\* Type correctness.
THEOREM TypeCorrect == Spec => []TypeOK
<1>1. Inv => TypeOK
  BY DEF Inv
<1>2. QED
  BY <1>1, RequestsAreGrounded, PTL

\* One account per e-mail address, and no organisation without its founder.
THEOREM AccountsStaySound == Spec => []AccountsAreSound
<1>1. Inv => AccountsAreSound
  BY DEF Inv
<1>2. QED
  BY <1>1, RequestsAreGrounded, PTL

-----------------------------------------------------------------------------
\* A row that changes or goes is the subject of a request behind require_admin.
LEMMA WhoChanges ==
  ASSUME Inv, Next, NEW i \in Ids, Present(i), user'[i] /= user[i]
  PROVE  \E c \in Clients : /\ req[c].pc \in {"set_role", "remove"}
                            /\ req[c].subject = i /\ req[c].actor /= i
                            /\ req[c].actor \in Ids /\ req[c].asAdmin
                            /\ req[c].org = user[i].org /\ req'[c] = Idle
                            /\ \A j \in Ids : j /= i => user'[j] = user[j]
<1>1. i \in minted
  BY DEF Inv, Known
<1>2. PICK c \in Clients : CommitRole(c) \/ CommitRemove(c)
  BY <1>1 DEF Next, Auth, Manage, Login, StartRegister, OidcCallback, CreateAccount,
              IssueToken, Authorize, FindInvited, InsertInvited, LoadForRole,
              LoadForRemove, Admitted, RequestFails, Inv, TypeOK
<1>3. req[c].subject = i /\ \A j \in Ids : j /= i => user'[j] = user[j]
  BY <1>2 DEF CommitRole, CommitRemove, Inv, TypeOK
<1>4. req[c].pc \in {"set_role", "remove"} /\ req'[c] = Idle
  BY <1>2 DEF CommitRole, CommitRemove, At, Answer, Inv, TypeOK
<1>5. Grounded(req[c])
  BY DEF Inv
<1>6. QED
  BY <1>3, <1>4, <1>5 DEF Grounded, Inv, TypeOK

\* Accounts change by the hand of another admin of their organisation.
THEOREM OnlyAdminsChange == Spec => ChangesByAnotherAdmin
<1> DEFINE A == \A i \in Ids : Present(i) /\ user'[i] /= user[i] =>
                 \E c \in Clients : /\ req[c].pc \in {"set_role", "remove"}
                                    /\ req[c].subject = i /\ req[c].actor /= i
                                    /\ req[c].asAdmin /\ req[c].org = user[i].org
<1>1. Inv /\ [Next]_vars => [A]_vars
  BY WhoChanges DEF vars
<1>2. QED
  BY <1>1, RequestsAreGrounded, PTL DEF Spec, ChangesByAnotherAdmin

\* The last admin of an organisation goes only by somebody who was its admin
\* when admitted and is none any more.
THEOREM LastAdminByRace == Spec => LastAdminNeedsARace
<1> DEFINE A == \A o \in Ids : HasAdmin(o) /\ ~HasAdmin(o)' =>
                 \E c \in Clients : /\ req[c].pc \in {"set_role", "remove"} /\ req'[c] = Idle
                                    /\ req[c].org = o /\ ~AdminOf(req[c].actor, o)
<1>1. ASSUME Inv, Next, NEW o \in Ids, HasAdmin(o), ~HasAdmin(o)'
      PROVE  \E c \in Clients : /\ req[c].pc \in {"set_role", "remove"} /\ req'[c] = Idle
                                /\ req[c].org = o /\ ~AdminOf(req[c].actor, o)
  <2>1. PICK i \in Ids : AdminOf(i, o)
    BY <1>1 DEF HasAdmin
  <2>2. Present(i) /\ user'[i] /= user[i] /\ user[i].org = o
    BY <1>1, <2>1 DEF HasAdmin, AdminOf, Present
  <2>3. PICK c \in Clients : /\ req[c].pc \in {"set_role", "remove"}
                             /\ req[c].actor /= i /\ req[c].actor \in Ids
                             /\ req[c].org = user[i].org /\ req'[c] = Idle
                             /\ \A j \in Ids : j /= i => user'[j] = user[j]
    BY <1>1, <2>2, WhoChanges
  <2>4. ~AdminOf(req[c].actor, o)
    BY <1>1, <2>3 DEF HasAdmin, AdminOf, Present
  <2>5. QED
    BY <2>2, <2>3, <2>4
<1>2. Inv /\ [Next]_vars => [A]_vars
  <2>1. ASSUME Inv, UNCHANGED vars PROVE [A]_vars
    BY <2>1
  <2>2. QED
    BY <1>1, <2>1
<1>3. QED
  BY <1>2, RequestsAreGrounded, PTL DEF Spec, LastAdminNeedsARace

\* A removed account stays removed.
THEOREM RemovalIsFinal == Spec => RemovedStayRemoved
<1> DEFINE A == \A i \in minted : ~Present(i) => ~Present(i)'
<1>1. ASSUME Inv, Next, NEW i \in minted, ~Present(i) PROVE ~Present(i)'
  <2>1. i \in Ids
    BY <1>1 DEF Inv, TypeOK
  <2>2. CASE UNCHANGED user
    BY <1>1, <2>2 DEF Present
  <2>3. ASSUME NEW c \in Clients, NEW j \in Ids, CreateAccount(c, j) \/ InsertInvited(c, j)
        PROVE  ~Present(i)'
    BY <1>1, <2>1, <2>3 DEF CreateAccount, InsertInvited, Present, Inv, TypeOK
  <2>4. ASSUME NEW c \in Clients, CommitRole(c) \/ CommitRemove(c) PROVE ~Present(i)'
    BY <1>1, <2>1, <2>4 DEF CommitRole, CommitRemove, Present, Inv, TypeOK
  <2>5. QED
    BY <1>1, <2>2, <2>3, <2>4
       DEF Next, Auth, Manage, Login, StartRegister, OidcCallback, IssueToken, Authorize,
           FindInvited, LoadForRole, LoadForRemove, Admitted, RequestFails
<1>2. Inv /\ [Next]_vars => [A]_vars
  BY <1>1 DEF vars
<1>3. QED
  BY <1>2, RequestsAreGrounded, PTL DEF Spec, RemovedStayRemoved
=============================================================================
