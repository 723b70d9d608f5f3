---------------------------- MODULE UserAccounts ----------------------------
(***************************************************************************)
(* User accounts: the users table (migration part_002), the repository of *)
(* repository/user.go, the user handlers of handler/user.go (the gRPC     *)
(* UserRPCHandler of grpc/order.go has the same control flow and answers  *)
(* with the matching codes), InitDefaultUser, and the two Basic-auth      *)
(* gates: fiber's basicauth middleware with CheckPassword as Authorizer   *)
(* (router, part_008) and the gRPC BasicAuthInterceptor (grpc/server.go). *)
(*                                                                         *)
(* Strings are sequences over a small alphabet, because the two gates     *)
(* split "username:password" differently.  A stored password hash is      *)
(* modelled by the password it verifies.  Answers are abstract outcomes:  *)
(* "ok", "invalid" (400, InvalidArgument), "notfound" (404, NotFound),    *)
(* "exists" (409, AlreadyExists), "internal" (500, Internal) and          *)
(* "unauthenticated" (401, Unauthenticated).  Requests run concurrently;  *)
(* a handler's steps are split at its repository calls, and a repository  *)
(* transaction is one step.                                                *)
(***************************************************************************)
EXTENDS Naturals, Sequences, SequencesExt, FiniteSets

CONSTANTS
    MaxId,      \* bound on the values users_id_seq hands out
    Names,      \* usernames a request may carry, the empty string included
    Passwords,  \* passwords a request may carry, the empty string included
    Roles,      \* roles a request may carry, "" included
    Admin,      \* the string "admin" of InitDefaultUser
    Clients,    \* concurrent requests
    NoUser,     \* no row with this id
    NoCreds     \* the header does not parse

Empty == <<>>
Colon == ":"
Ids == 1..MaxId

ASSUME /\ MaxId \in Nat \ {0}
       /\ Empty \in Names /\ Empty \in Passwords /\ "" \in Roles
       /\ Admin \in Names /\ Admin \in Passwords

Row == [name: Names \ {Empty}, pw: Passwords \ {Empty}, role: Roles \ {""}]
Outcomes == {"none", "ok", "invalid", "notfound", "exists", "internal",
             "unauthenticated"}

VARIABLES
    users,   \* users[id]: the row with primary key id, or NoUser
    nextId,  \* the next value of the SERIAL sequence users_id_seq
    upc,     \* upc[c]: where request c is
    req,     \* req[c]: the id, name, password and role request c carries
    read,    \* read[c]: the row UpdateUser built from GetByID
    result,  \* result[c]: the answer to c's last request
    lastPw   \* lastPw[id]: the password most recently set for id

vars == <<users, nextId, upc, req, read, result, lastPw>>

PCs == {"idle", "in", "create_insert", "update_write", "password_write"}
Request == [id: Ids \cup {0}, name: Names, pw: Passwords, role: Roles]
NoRequest == [id |-> 0, name |-> Empty, pw |-> Empty, role |-> ""]

TypeOK ==
    /\ users \in [Ids -> Row \cup {NoUser}]
    /\ nextId \in 1..MaxId + 1
    /\ upc \in [Clients -> PCs]
    /\ req \in [Clients -> Request]
    /\ read \in [Clients -> Row \cup {NoUser}]
    /\ result \in [Clients -> Outcomes]
    /\ lastPw \in [Ids -> Passwords]

\* InitDefaultUser at start-up: an empty table gets admin/admin (role
\* admin); when List or Create fails the table stays empty and the error
\* is only logged.
Init ==
    /\ \/ /\ users = [id \in Ids |-> IF id = 1
                        THEN [name |-> Admin, pw |-> Admin, role |-> "admin"]
                        ELSE NoUser]
          /\ nextId = 2
       \/ users = [id \in Ids |-> NoUser] /\ nextId = 1
    /\ upc = [c \in Clients |-> "idle"]
    /\ req = [c \in Clients |-> NoRequest]
    /\ read = [c \in Clients |-> NoUser]
    /\ result = [c \in Clients |-> "none"]
    /\ lastPw = [id \in Ids |-> IF users[id] = NoUser THEN Empty
                                ELSE users[id].pw]

-----------------------------------------------------------------------------
(* The table and the repository.                                           *)

Present(id) == users[id] # NoUser

\* The UNIQUE constraint on users.username: a row other than id has name n.
NameTaken(n, id) == \E j \in Ids \ {id} : Present(j) /\ users[j].name = n

\* hashPasswordSHA256 stores salt:sha256(salt || password); checkPassword
\* recomputes it with the stored salt.  Barring a SHA-256 collision the
\* stored hash verifies exactly the password it was made from.
Verifies(stored, p) == stored = p

\* CheckPassword: SELECT password_hash WHERE username = $1; no row is false.
CheckPassword(u, p) ==
    \E id \in Ids : Present(id) /\ users[id].name = u /\ Verifies(users[id].pw, p)

\* GetByID: the row, or ErrUserNotFound.
GetByID(id) == IF id \in Ids THEN users[id] ELSE NoUser

-----------------------------------------------------------------------------
(* The Basic-auth gates.  The client sends "Basic " and the base64 of     *)
(* username ":" password; both gates decode it back to that string.       *)

Credentials(u, p) == u \o <<Colon>> \o p

IsColon(x) == x = Colon

\* The parts of s before and after its i-th character.
SplitAt(s, i) == <<SubSeq(s, 1, i - 1), SubSeq(s, i + 1, Len(s))>>

\* parseBasicAuth: strings.Split(cs, ":") must give exactly two parts.
GrpcParse(s) ==
    IF Len(SelectSeq(s, IsColon)) = 1 THEN SplitAt(s, SelectInSeq(s, IsColon))
                                      ELSE NoCreds

\* fiber's basicauth: strings.Index(creds, ":"), then the username before
\* and the password after the first colon.
HttpParse(s) ==
    IF SelectInSeq(s, IsColon) = 0 THEN NoCreds
                                   ELSE SplitAt(s, SelectInSeq(s, IsColon))

\* The gate's verdict on a header carrying u and p.
Authorized(parse(_), u, p) ==
    LET creds == parse(Credentials(u, p)) IN
    creds # NoCreds /\ CheckPassword(creds[1], creds[2])

\* The /api/v1 group: basicauth with CheckPassword as Authorizer, and a 401
\* from Unauthorized.  /users/register is outside the group.
HttpAuthorized(u, p) == Authorized(HttpParse, u, p)

\* UnaryInterceptor and StreamInterceptor: Unauthenticated unless the
\* header parses and CheckPassword holds; CreateUser skips the check.
GrpcAuthorized(u, p) == Authorized(GrpcParse, u, p)

Gate(surface, u, p) ==
    IF surface = "http" THEN HttpAuthorized(u, p) ELSE GrpcAuthorized(u, p)

\* A request to a guarded route or method passes its gate or is answered
\* unauthenticated.
Login(c, surface, u, p) ==
    /\ upc[c] = "idle"
    /\ \/ Gate(surface, u, p) /\ upc' = [upc EXCEPT ![c] = "in"]
                              /\ UNCHANGED result
       \/ ~Gate(surface, u, p) /\ result' = [result EXCEPT ![c] = "unauthenticated"]
                               /\ UNCHANGED upc
    /\ UNCHANGED <<users, nextId, req, read, lastPw>>

-----------------------------------------------------------------------------
(* The handlers.                                                           *)

Answer(c, o) ==
    /\ result' = [result EXCEPT ![c] = o]
    /\ upc' = [upc EXCEPT ![c] = "idle"]

\* validateCreateUserRequest: username and password must be non-empty.
ValidCreate(n, p) == n # Empty /\ p # Empty

\* parseUserIDFromParams: a positive integer; the gRPC handlers reject an
\* id <= 0 alike.
ValidId(id) == id > 0

\* validatePasswordRequest: the new password must be non-empty.
ValidPassword(p) == p # Empty

\* users_id_seq values the pending inserts will take; bounded by MaxId.
Pending == Cardinality({d \in Clients : upc[d] = "create_insert"})

\* Fault variant: the handler passing the request's role on unchanged.
DefaultRoleMissing(r) == r

\* An empty role becomes "user"; the INSERT names the column, so the
\* column default never applies.
DefaultRole(r) == IF r = "" THEN "user" ELSE r

\* CreateUser (public): validation, the default role, then the repository's
\* transaction up to its SELECT EXISTS(... FOR UPDATE).  A missing row
\* locks nothing, so two registrations of one name both get past it.
CreateUser(c, n, p, r) ==
    /\ upc[c] = "idle"
    /\ \/ ~ValidCreate(n, p) /\ Answer(c, "invalid")
                             /\ UNCHANGED req
       \/ /\ ValidCreate(n, p) /\ NameTaken(n, 0)
          /\ Answer(c, "exists") /\ UNCHANGED req
       \/ /\ ValidCreate(n, p) /\ ~NameTaken(n, 0)
          /\ nextId + Pending < MaxId + 1
          /\ req' = [req EXCEPT ![c] = [id |-> 0, name |-> n, pw |-> p,
                                        role |-> DefaultRole(r)]]
          /\ upc' = [upc EXCEPT ![c] = "create_insert"]
          /\ UNCHANGED result
    /\ UNCHANGED <<users, nextId, read, lastPw>>

\* Create's INSERT and commit.  The id comes from users_id_seq, which is
\* consumed even when the insert fails.  A concurrent insert of the same
\* name makes the unique index reject this one; that error is not
\* ErrUserAlreadyExists, so the handler answers 500.
CreateInsert(c) ==
    LET id == nextId
        r  == req[c] IN
    /\ upc[c] = "create_insert"
    /\ nextId' = nextId + 1
    /\ \/ NameTaken(r.name, id) /\ Answer(c, "internal")
                                /\ UNCHANGED <<users, lastPw>>
       \/ /\ ~NameTaken(r.name, id)
          /\ users' = [users EXCEPT ![id] = [name |-> r.name, pw |-> r.pw,
                                             role |-> r.role]]
          /\ lastPw' = [lastPw EXCEPT ![id] = r.pw]
          /\ Answer(c, "ok")
    /\ UNCHANGED <<req, read>>

\* UpdateUser: GetByID, then the fields the request gives (a non-empty
\* username or role) over the row read; the repository call follows.
UpdateUser(c, id, n, r) ==
    /\ upc[c] = "in"
    /\ \/ ~ValidId(id) /\ Answer(c, "invalid") /\ UNCHANGED <<req, read>>
       \/ ValidId(id) /\ GetByID(id) = NoUser /\ Answer(c, "notfound")
                      /\ UNCHANGED <<req, read>>
       \/ /\ ValidId(id) /\ GetByID(id) # NoUser
          /\ read' = [read EXCEPT ![c] =
                        [users[id] EXCEPT !.name = IF n = Empty THEN @ ELSE n,
                                          !.role = IF r = "" THEN @ ELSE r]]
          /\ req' = [req EXCEPT ![c] = [NoRequest EXCEPT !.id = id]]
          /\ upc' = [upc EXCEPT ![c] = "update_write"]
          /\ UNCHANGED result
    /\ UNCHANGED <<users, nextId, lastPw>>

\* Fault variant: the UPDATE also writing the password hash of the row read.
UpdatedRowWhole(c, old) == read[c]

\* UPDATE users SET username = $2, role = $3: the stored password hash is
\* left alone.
UpdatedRow(c, old) == [old EXCEPT !.name = read[c].name, !.role = read[c].role]

\* Update: one transaction, SELECT ... FOR UPDATE then UPDATE.  A row
\* deleted since GetByID gives ErrUserNotFound, a name now used by another
\* row violates the unique index; the handler answers 500 to any error.
UpdateWrite(c) ==
    LET id == req[c].id IN
    /\ upc[c] = "update_write"
    /\ \/ ~Present(id) /\ Answer(c, "internal") /\ UNCHANGED users
       \/ Present(id) /\ NameTaken(read[c].name, id) /\ Answer(c, "internal")
                      /\ UNCHANGED users
       \/ /\ Present(id) /\ ~NameTaken(read[c].name, id)
          /\ users' = [users EXCEPT ![id] = UpdatedRow(c, @)]
          /\ Answer(c, "ok")
    /\ read' = [read EXCEPT ![c] = NoUser]
    /\ UNCHANGED <<nextId, req, lastPw>>

\* UpdatePassword: validation and GetByID; the repository call follows.
UpdatePassword(c, id, p) ==
    /\ upc[c] = "in"
    /\ \/ ~(ValidId(id) /\ ValidPassword(p)) /\ Answer(c, "invalid")
                                             /\ UNCHANGED req
       \/ ValidId(id) /\ ValidPassword(p) /\ GetByID(id) = NoUser
          /\ Answer(c, "notfound") /\ UNCHANGED req
       \/ /\ ValidId(id) /\ ValidPassword(p) /\ GetByID(id) # NoUser
          /\ req' = [req EXCEPT ![c] = [NoRequest EXCEPT !.id = id, !.pw = p]]
          /\ upc' = [upc EXCEPT ![c] = "password_write"]
          /\ UNCHANGED result
    /\ UNCHANGED <<users, nextId, read, lastPw>>

\* The repository's UpdatePassword: SELECT ... FOR UPDATE, a fresh salted
\* hash, UPDATE password_hash.  A row deleted meanwhile gives a 500.
PasswordWrite(c) ==
    LET id == req[c].id IN
    /\ upc[c] = "password_write"
    /\ \/ ~Present(id) /\ Answer(c, "internal") /\ UNCHANGED <<users, lastPw>>
       \/ /\ Present(id)
          /\ users' = [users EXCEPT ![id].pw = req[c].pw]
          /\ lastPw' = [lastPw EXCEPT ![id] = req[c].pw]
          /\ Answer(c, "ok")
    /\ UNCHANGED <<nextId, req, read>>

\* The repository's Delete: SELECT ... FOR UPDATE, DELETE, commit.
DeleteRow(id) == users' = [users EXCEPT ![id] = NoUser]

\* DeleteUser: the repository's Delete, one transaction.
DeleteUser(c, id) ==
    /\ upc[c] = "in"
    /\ \/ ~ValidId(id) /\ Answer(c, "invalid") /\ UNCHANGED users
       \/ ValidId(id) /\ ~Present(id) /\ Answer(c, "notfound")
                      /\ UNCHANGED users
       \/ /\ ValidId(id) /\ Present(id)
          /\ DeleteRow(id) /\ Answer(c, "ok")
    /\ UNCHANGED <<nextId, req, read, lastPw>>

\* GetUser: GetByID answered as the row, 404 or 400.
GetUser(c, id) ==
    /\ upc[c] = "in"
    /\ Answer(c, CASE ~ValidId(id)           -> "invalid"
                   [] GetByID(id) = NoUser -> "notfound"
                   [] OTHER                -> "ok")
    /\ UNCHANGED <<users, nextId, req, read, lastPw>>

\* ListUsers: the repository's List, answered 200 with the rows.
ListUsers(c) ==
    /\ upc[c] = "in"
    /\ Answer(c, "ok")
    /\ UNCHANGED <<users, nextId, req, read, lastPw>>

Next ==
    \E c \in Clients :
       \/ \E s \in {"http", "grpc"}, u \in Names, p \in Passwords : Login(c, s, u, p)
       \/ \E n \in Names, p \in Passwords, r \in Roles : CreateUser(c, n, p, r)
       \/ CreateInsert(c)
       \/ \E id \in Ids \cup {0}, n \in Names, r \in Roles : UpdateUser(c, id, n, r)
       \/ UpdateWrite(c)
       \/ \E id \in Ids \cup {0}, p \in Passwords : UpdatePassword(c, id, p)
       \/ PasswordWrite(c)
       \/ \E id \in Ids \cup {0} : DeleteUser(c, id) \/ GetUser(c, id)
       \/ ListUsers(c)

Spec == Init /\ [][Next]_vars

-----------------------------------------------------------------------------
(* Properties.                                                             *)

\* A password change is never undone: every account verifies the password
\* most recently set for it by CreateUser or UpdatePassword, even when an
\* UpdateUser that read the row before the change commits after it.
PasswordNotReverted ==
    \A id \in Ids : Present(id) => Verifies(users[id].pw, lastPw[id])

=============================================================================
