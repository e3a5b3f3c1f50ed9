------------------------------- MODULE Accounts -------------------------------
(***************************************************************************)
(* Staff accounts of one organisation and the password policy they are     *)
(* under: registration, login with lockout, locks set by staff, edits,     *)
(* changes and resets of passwords.                                        *)
(*                                                                         *)
(* Every handler that changes an account reads its row, decides on the     *)
(* copy, and writes all columns back by a separate statement.  The policy  *)
(* in force is cached in the process.  Names, tokens, e-mails that are     *)
(* sent and expiry dates are left out; a password stands for its hash.     *)
(***************************************************************************)
EXTENDS Integers, Sequences, FiniteSets

CONSTANTS
    User,         \* identities that accounts can get, never reused
    Owner,        \* the administrator that provisioning has created
    NoUser,
    Email,
    Chosen,       \* passwords that people choose
    Weak,         \* those of them that a strict policy refuses
    Temporary,    \* a password that provisioning or a reset has generated
    Keep,         \* how many passwords are remembered (10 in the code)
    Limit,        \* numbers of failed attempts that a policy may ask for
    GlobalLimit,  \* that of the global policy
    Lockout,      \* how long a lockout lasts
    LastTime,     \* the clock shows 0 .. LastTime
    Request,
    MaxServed,    \* bound: requests served in a behaviour
    MaxGiven      \* bound: columns that one edit gives

ASSUME AccountsAssumption ==
    /\ Owner \in User /\ NoUser \notin User
    /\ Weak \subseteq Chosen /\ Temporary \notin Chosen
    /\ Keep \in Nat \ {0} /\ Lockout \in Nat \ {0}
    /\ LastTime \in Nat /\ MaxServed \in Nat /\ MaxGiven \in Nat
    /\ Limit \subseteq Nat /\ GlobalLimit \in Limit \ {0}

VARIABLES
    users,    \* the users table
    history,  \* the password_history rows of every user, oldest first
    policy,   \* the organisation's row of password_policies
    cache,    \* the process's copy of the policy in force
    now,      \* the clock
    req,      \* the local state of every request in flight
    served,   \* how many requests were accepted (bounded)
    used,     \* the passwords each user was given since creation (history)
    streak,   \* wrong passwords since the count was last reset (history)
    missed,   \* users with a password that failed to be recorded (history)
    calm      \* no two requests have overlapped, none was cut short (history)

tables == <<users, history, policy>>
ghosts == <<used, streak, missed>>
vars == <<tables, cache, now, req, served, ghosts, calm>>

-------------------------------------------------------------------------------
(***************************************************************************)
(* Rows.                                                                   *)
(***************************************************************************)
Unused  == [row |-> "unused"]
Deleted == [row |-> "deleted"]
InTable(row) == row \notin {Unused, Deleted}

Password == Chosen \cup {Temporary}
Role == {"admin", "staff"}

\* member: org_id is set.  branch: branch_id is set.  temp: change_password.
\* until: locked_until, 0 for NULL.
UserRow == [email : Email, member : BOOLEAN, active : BOOLEAN, role : Role,
            branch : BOOLEAN, password : Password, temp : BOOLEAN,
            locked : BOOLEAN, until : 0 .. LastTime + Lockout, failed : Nat]

NewRow(email, member, role, branch, password, temp) ==
    [email |-> email, member |-> member, active |-> TRUE, role |-> role,
     branch |-> branch, password |-> password, temp |-> temp,
     locked |-> FALSE, until |-> 0, failed |-> 0]

\* strict stands for the required length and kinds of characters.
PolicyRow == [limit : Limit, strict : BOOLEAN]
NoPolicy == [row |-> "none"]
Global == [limit |-> GlobalLimit, strict |-> TRUE]

HasUser(u) == InTable(users[u])
Account == {u \in User : HasUser(u)}
NewUsers == {u \in User : users[u] = Unused}  \* identities that are left

\* The row of the organisation, or else the global one.
GetByOrg == IF policy = NoPolicy THEN Global ELSE policy

-------------------------------------------------------------------------------
(***************************************************************************)
(* Requests.  pc is the next statement, row the copy of the account with   *)
(* the changes made so far, gives what is still to be checked in them.     *)
(***************************************************************************)
Idle == [pc |-> "idle", op |-> "none", user |-> NoUser, row |-> Unused,
         gives |-> {}, policy |-> Global]

MayStart(p) == req[p] = Idle /\ served < MaxServed

Starts(p, local) ==
    /\ MayStart(p)
    /\ served' = served + 1
    /\ calm' = (calm /\ \A q \in Request : req[q] = Idle)
    /\ req' = [req EXCEPT ![p] = local]

Continues(p, pc) == req[p].pc = pc /\ UNCHANGED <<served, calm, now>>
Advance(p, pc) == req' = [req EXCEPT ![p].pc = pc]
Return(p) == req' = [req EXCEPT ![p] = Idle]

\* Request p has read account u and goes on to statement pc with a changed copy.
Reads(p, op, u, row, pc) ==
    /\ Starts(p, [Idle EXCEPT !.pc = pc, !.op = op, !.user = u, !.row = row,
                    !.gives = {c \in {"email", "password"} : row[c] # users[u][c]}])
    /\ UNCHANGED <<tables, now, ghosts>>

ReadsOnly(p, op, u, row, pc) == Reads(p, op, u, row, pc) /\ UNCHANGED cache

-------------------------------------------------------------------------------
(***************************************************************************)
(* The policy.                                                             *)
(***************************************************************************)
\* A member is under the cached policy; the first to ask fills the cache.
GetPolicy(member) ==
    IF ~member THEN Global ELSE IF cache = NoPolicy THEN GetByOrg ELSE cache

Consults(member) == cache' = IF member THEN GetPolicy(TRUE) ELSE cache

\* Mistake: the account is locked one attempt late.
ShouldLockAccountLate(failed, member) == failed > GetPolicy(member).limit
ShouldLockAccount(failed, member) == failed >= GetPolicy(member).limit

CalculateLockoutTime == now + Lockout

CheckAccountLockout(row) == row.locked \/ row.until > now

validateComplexity(password, rule) == rule.strict => password \notin Weak

\* The newest Keep passwords.
Newest(s) == IF Len(s) <= Keep THEN s ELSE SubSeq(s, Len(s) - Keep + 1, Len(s))
GetRecentByUserID(u) == LET s == Newest(history[u]) IN {s[i] : i \in DOMAIN s}

\* Mistake: only the password in force is refused.
ValidateOnlyComplexity(u, password, member) ==
    validateComplexity(password, GetPolicy(member))
\* That the password is not the one in force is checked on the copy.
ValidateNewPassword(u, password, member) ==
    /\ validateComplexity(password, GetPolicy(member))
    /\ u \in User => password \notin GetRecentByUserID(u)

DeleteOldHistory(s) == Newest(s)

validatePolicyRanges(row) == row.limit \in 1 .. 100

\* Read of the endpoint GetPasswordPolicy: a miss of the cache reads the table ...
GetPasswordPolicy(p) ==
    /\ cache = NoPolicy
    /\ Starts(p, [Idle EXCEPT !.pc = "cache", !.op = "read", !.policy = GetByOrg])
    /\ UNCHANGED <<tables, cache, now, ghosts>>

\* UpsertPolicy: a request may give every column, so whatever row it has read
\* it may write any row that the ranges allow ...
UpdatePasswordPolicy(p) ==
    \E row \in {r \in PolicyRow : validatePolicyRanges(r)} :
        /\ Starts(p, [Idle EXCEPT !.pc = "upsert", !.op = "policy", !.policy = row])
        /\ UNCHANGED <<tables, cache, now, ghosts>>

UpsertForOrg(p) ==
    /\ Continues(p, "upsert")
    /\ policy' = req[p].policy
    /\ Advance(p, "cache")
    /\ UNCHANGED <<users, history, cache, ghosts>>

\* Mistake: the cache is left as it is after a change.
LeaveCache(p) ==
    /\ Continues(p, "cache")
    /\ cache' = IF req[p].op = "read" THEN req[p].policy ELSE cache
    /\ Return(p)
    /\ UNCHANGED <<tables, ghosts>>
\* ... and both put into the cache what they hold.
SetCache(p) ==
    /\ Continues(p, "cache")
    /\ cache' = req[p].policy
    /\ Return(p)
    /\ UNCHANGED <<tables, ghosts>>

-------------------------------------------------------------------------------
(***************************************************************************)
(* Registration.                                                           *)
(***************************************************************************)
\* org_id = NULL never equals anything.
EmailExists(email, member) ==
    member /\ \E u \in Account : users[u].member /\ users[u].email = email

\* member is FALSE for the public endpoint, which knows no organisation.
Register(p) ==
    \E email \in Email, member \in BOOLEAN, role \in Role, branch \in BOOLEAN,
       password \in Chosen :
        /\ ~EmailExists(email, member)
        /\ ValidateNewPassword(NoUser, password, member)
        /\ branch => member /\ role # "admin"
        /\ NewUsers # {}
        /\ Starts(p, [Idle EXCEPT !.pc = "insert", !.op = "register",
                         !.row = NewRow(email, member, role, branch, password, FALSE)])
        /\ Consults(member)
        /\ UNCHANGED <<tables, now, ghosts>>

\* UNIQUE is on (email, org_id).
Create(p) ==
    /\ Continues(p, "insert")
    /\ IF EmailExists(req[p].row.email, req[p].row.member) \/ NewUsers = {} THEN
          Return(p) /\ UNCHANGED <<users, used>>
       ELSE \E u \in NewUsers :
          /\ users' = [users EXCEPT ![u] = req[p].row]
          /\ used' = [used EXCEPT ![u] = <<req[p].row.password>>]
          /\ req' = [req EXCEPT ![p].pc = "record", ![p].user = u]
    /\ UNCHANGED <<history, policy, cache, streak, missed>>

-------------------------------------------------------------------------------
(***************************************************************************)
(* Login.                                                                  *)
(***************************************************************************)
\* A request that names no organisation finds an account only by an e-mail
\* that no other account has.
Found(u) ==
    users[u].member \/ \A v \in Account : users[v].email = users[u].email => v = u

LoginWithOrg(p) ==
    \E u \in Account, right \in BOOLEAN :
        LET row == users[u]
        IN  /\ Found(u)
            /\ row.active
            /\ ~CheckAccountLockout(row)
            /\ ReadsOnly(p, IF right THEN "login" ELSE "wrong", u,
                         IF right THEN [row EXCEPT !.failed = 0, !.until = 0]
                                  ELSE [row EXCEPT !.failed = @ + 1],
                         IF right THEN "write" ELSE "count")

CountAttempt(p) ==
    LET row == req[p].row IN
    /\ Continues(p, "count")
    /\ Consults(row.member)
    /\ req' = [req EXCEPT ![p].pc = "write",
                          ![p].row.until = IF ShouldLockAccount(row.failed, row.member)
                                           THEN CalculateLockoutTime ELSE row.until]
    /\ UNCHANGED <<tables, ghosts>>

-------------------------------------------------------------------------------
(***************************************************************************)
(* Edits.                                                                  *)
(***************************************************************************)
\* A role that is given as admin clears the branch, unless one is given too:
\* that is refused to who was an administrator before the edit.
BranchAfter(row, given, role) ==
    IF "branch" \in given THEN TRUE
    ELSE row.branch /\ ("role" \in given => role # "admin")

Edited(row, given, email, role, active, password) ==
    [row EXCEPT !.email = email, !.role = role, !.active = active,
                !.password = password, !.branch = BranchAfter(row, given, role)]

\* What an edit that gives these columns can make of a row.
EditedRows(row, given) ==
    LET new(column, values) == IF column \in given THEN values ELSE {row[column]}
    IN  {Edited(row, given, email, role, active, password) :
            email \in new("email", Email), role \in new("role", Role),
            active \in new("active", BOOLEAN),
            password \in new("password", Chosen \ {row.password})}

Given == {columns \in SUBSET {"email", "role", "branch", "active", "password"} :
             Cardinality(columns) <= MaxGiven}

\* Mistake: an edit also unlocks the account.
UpdateUserFullUnlocks(p) ==
    \E u \in Account, given \in Given : \E row \in EditedRows(users[u], given) :
        /\ "branch" \in given => users[u].role # "admin"
        /\ ReadsOnly(p, "edit", u, [row EXCEPT !.locked = FALSE], "check")
UpdateUserFull(p) ==
    \E u \in Account, given \in Given : \E row \in EditedRows(users[u], given) :
        /\ "branch" \in given => users[u].role # "admin"
        /\ ReadsOnly(p, "edit", u, row, "check")

ChangeUserRole(p) ==
    \E u \in Account, role \in Role :
        ReadsOnly(p, "role", u, [users[u] EXCEPT !.role = role], "write")

DeactivateUser(p) ==
    \E u \in Account :
        ReadsOnly(p, "deactivate", u, [users[u] EXCEPT !.active = FALSE], "write")

\* Mistake: a lockout that is running is left beside the lock.
LockUserOnly(p) ==
    \E u \in Account : ReadsOnly(p, "lock", u, [users[u] EXCEPT !.locked = TRUE], "write")
LockUser(p) ==
    \E u \in Account :
        ReadsOnly(p, "lock", u, [users[u] EXCEPT !.locked = TRUE, !.until = 0], "write")

UnlockUser(p) ==
    \E u \in Account :
        ReadsOnly(p, "unlock", u,
                  [users[u] EXCEPT !.locked = FALSE, !.until = 0, !.failed = 0], "write")

DeleteUser(p) == \E u \in Account : ReadsOnly(p, "delete", u, users[u], "delete")

DeleteRow(p) ==
    LET u == req[p].user IN
    /\ Continues(p, "delete")
    /\ IF HasUser(u) /\ users[u].member
         THEN /\ users' = [users EXCEPT ![u] = Deleted]
              /\ history' = [history EXCEPT ![u] = <<>>]
         ELSE UNCHANGED <<users, history>>
    /\ Return(p)
    /\ UNCHANGED <<policy, cache, ghosts>>

-------------------------------------------------------------------------------
(***************************************************************************)
(* Passwords.                                                              *)
(***************************************************************************)
\* Whoever knows the password in force chooses another.
ChangePassword(p) ==
    \E u \in Account : \E password \in Chosen \ {users[u].password} :
        ReadsOnly(p, "change", u,
                  [users[u] EXCEPT !.password = password, !.temp = FALSE], "check")

ResetPassword(p) ==
    \E u \in Account :
        /\ Reads(p, "reset", u,
                 [users[u] EXCEPT !.password = Temporary, !.temp = TRUE, !.failed = 0,
                      !.locked = FALSE, !.until = 0], "write")
        /\ Consults(users[u].member)

Gives(p, column) == column \in req[p].gives

Acceptable(p) ==
    LET u == req[p].user  row == req[p].row IN
    /\ Gives(p, "email") => ~EmailExists(row.email, row.member)
    /\ Gives(p, "password") => ValidateNewPassword(u, row.password, row.member)

\* The new e-mail and the new password are checked.
CheckChange(p) ==
    LET row == req[p].row IN
    /\ Continues(p, "check")
    /\ Consults(row.member /\ Gives(p, "password"))
    /\ IF ~Acceptable(p) THEN Return(p)
       ELSE IF ~Gives(p, "password") THEN Advance(p, "write")
       ELSE Advance(p, IF req[p].op = "edit" THEN "record" ELSE "write")
    /\ UNCHANGED <<tables, ghosts>>

\* The history before the account in an edit, after it elsewhere.  No caller
\* asks whether it was written: a failure is dropped, and the handler resumes.
Resumes(p) == IF req[p].op = "edit" THEN Advance(p, "write") ELSE Return(p)

\* Mistake: a row is kept of an account that is gone.
RecordForAnyone(p) ==
    LET u == req[p].user IN
    /\ Continues(p, "record")
    /\ history' = [history EXCEPT ![u] = Append(@, req[p].row.password)]
    /\ Advance(p, "prune")
    /\ UNCHANGED <<users, policy, cache, ghosts>>

\* The insert fails for want of the account, or of the database.
RecordPasswordChange(p) ==
    LET u == req[p].user IN
    /\ Continues(p, "record")
    /\ \/ /\ HasUser(u)
          /\ history' = [history EXCEPT ![u] = Append(@, req[p].row.password)]
          /\ Advance(p, "prune")
          /\ UNCHANGED missed
       \/ /\ missed' = missed \cup {u}
          /\ Resumes(p)
          /\ UNCHANGED history
    /\ UNCHANGED <<users, policy, cache, used, streak>>

\* Whoever records next trims what a failure here leaves.
PruneHistory(p) ==
    /\ Continues(p, "prune")
    /\ \/ history' = [history EXCEPT ![req[p].user] = DeleteOldHistory(@)]
       \/ UNCHANGED history
    /\ Resumes(p)
    /\ UNCHANGED <<users, policy, cache, ghosts>>

-------------------------------------------------------------------------------
(***************************************************************************)
(* The write that ends every change.                                       *)
(***************************************************************************)
\* UPDATE ... WHERE user_id AND org_id: all columns, but only of a member;
\* UNIQUE (email, org_id) may refuse it.
CanWrite(p) ==
    LET u == req[p].user IN
    /\ HasUser(u) /\ users[u].member
    /\ \A v \in Account \ {u} :
          users[v].member => users[v].email # req[p].row.email

\* The wrong passwords in a row, as the write of each request accounts for them.
StreakAfter(p) ==
    LET u == req[p].user IN
    CASE req[p].op = "wrong" -> streak[u] + 1
      [] req[p].op \in {"login", "unlock", "reset"} -> 0
      [] OTHER -> streak[u]

\* A write that matches no row is no error, one that UNIQUE refuses is.
WriteUser(p) ==
    LET u == req[p].user  row == req[p].row
        fails == HasUser(u) /\ row.member /\ ~CanWrite(p)
        gives == Gives(p, "password") \/ req[p].op = "reset"
    IN  /\ Continues(p, "write")
        /\ IF CanWrite(p)
             THEN /\ users' = [users EXCEPT ![u] = row]
                  /\ streak' = [streak EXCEPT ![u] = StreakAfter(p)]
                  /\ used' = IF gives THEN [used EXCEPT ![u] = Append(@, row.password)]
                                      ELSE used
             ELSE UNCHANGED <<users, ghosts>>
        /\ IF ~fails /\ req[p].op \in {"change", "reset"}
             THEN Advance(p, "record") ELSE Return(p)
        /\ UNCHANGED <<history, policy, cache, missed>>

-------------------------------------------------------------------------------
Tick ==
    /\ now < LastTime
    /\ now' = now + 1
    /\ UNCHANGED <<tables, cache, req, served, ghosts, calm>>

\* The process starts again; the global policy is loaded as it was.
Crash ==
    /\ req' = [p \in Request |-> Idle]
    /\ cache' = NoPolicy
    /\ calm' = (calm /\ \A p \in Request : req[p] = Idle)
    /\ UNCHANGED <<tables, now, served, ghosts>>

\* The organisation as provisioning has left it.
Init ==
    /\ \E email \in Email :
          users = [u \in User |-> IF u = Owner
                      THEN NewRow(email, TRUE, "admin", FALSE, Temporary, TRUE)
                      ELSE Unused]
    /\ history = [u \in User |-> <<>>]
    /\ policy = NoPolicy /\ cache = NoPolicy
    /\ now = 0
    /\ req = [p \in Request |-> Idle]
    /\ served = 0
    /\ used = [u \in User |-> <<>>] /\ streak = [u \in User |-> 0] /\ missed = {}
    /\ calm = TRUE

Accept(p) ==
    \/ Register(p) \/ LoginWithOrg(p)
    \/ UpdateUserFull(p) \/ ChangeUserRole(p) \/ DeactivateUser(p)
    \/ LockUser(p) \/ UnlockUser(p) \/ DeleteUser(p)
    \/ ChangePassword(p) \/ ResetPassword(p)
    \/ GetPasswordPolicy(p) \/ UpdatePasswordPolicy(p)

Continue(p) ==
    \/ Create(p) \/ CountAttempt(p) \/ CheckChange(p) \/ DeleteRow(p)
    \/ RecordPasswordChange(p) \/ PruneHistory(p) \/ WriteUser(p)
    \/ UpsertForOrg(p) \/ SetCache(p)

Next ==
    \/ Tick \/ Crash
    \/ \E p \in Request : (MayStart(p) /\ Accept(p)) \/ Continue(p)

Spec == Init /\ [][Next]_vars

-------------------------------------------------------------------------------
(***************************************************************************)
(* Properties.                                                             *)
(***************************************************************************)
Op == {"none", "read", "policy", "register", "login", "wrong", "edit", "role",
       "deactivate", "lock", "unlock", "delete", "change", "reset"}

\* What a request is about to write or record, it does for an account it has read.
Local == [pc : {"idle", "cache", "upsert", "insert", "record", "prune", "count",
                "write", "check", "delete"},
          op : Op, user : User \cup {NoUser}, row : UserRow \cup {Unused},
          gives : SUBSET {"email", "password"}, policy : PolicyRow]

\* Types; whatever is in flight, passwords are remembered only of accounts that
\* are there.  (How many is not bounded: rows that could not be pruned stay
\* until the next password, and the check reads the newest Keep of them.)
TypeOK ==
    /\ users \in [User -> UserRow \cup {Unused, Deleted}]
    /\ \A u \in User : history[u] \in Seq(Password) /\ (history[u] # <<>> => HasUser(u))
    /\ DOMAIN history = User
    /\ policy \in PolicyRow \cup {NoPolicy} /\ cache \in PolicyRow \cup {NoPolicy}
    /\ now \in 0 .. LastTime /\ served \in Nat /\ calm \in BOOLEAN
    /\ req \in [Request -> Local]
    /\ \A p \in Request :
          /\ req[p].pc \in {"insert", "record", "prune", "count", "write", "check"} =>
                req[p].row \in UserRow
          /\ req[p].pc \in {"record", "prune", "count", "write", "check", "delete"} =>
                req[p].user \in User
    /\ streak \in [User -> Nat] /\ missed \subseteq User
    /\ \A u \in User : used[u] \in Seq(Password)

\* Concurrent writes lose each other's changes, but as every one of them writes
\* the whole row they never mix two: in every interleaving an account with a
\* generated password must change it, one locked by staff has no lockout
\* running beside the lock, and a lockout comes with the attempts it is for.
NeverTorn ==
    \A u \in Account :
        /\ users[u].password = Temporary => users[u].temp
        /\ users[u].locked => users[u].until = 0
        /\ users[u].until # 0 => users[u].failed > 0

\* As long as requests do not overlap, every wrong password since the last
\* success, unlock or reset is counted, and an account that has reached
\* every limit a policy may set has been locked out.
LockoutEngages ==
    calm => \A u \in Account : users[u].member =>
        /\ users[u].failed = streak[u]
        /\ (streak[u] > 0 /\ \A n \in Limit : streak[u] >= n) =>
              users[u].locked \/ users[u].until # 0

\* As long as requests do not overlap and none is cut short, a password that a
\* user is given is not one of the Keep before it, unless an insert into the
\* history failed: unpruned rows make no difference.
RecentNotReused ==
    calm => \A u \in User \ missed : \A i, j \in DOMAIN used[u] :
        i < j /\ j <= i + Keep /\ used[u][i] = used[u][j] => used[u][i] = Temporary

\* As long as requests do not overlap, what is cached between them is the
\* policy of the table.
PolicyInForce ==
    calm /\ (\A p \in Request : req[p] = Idle) => cache \in {NoPolicy, GetByOrg}

Lifts(p) == req[p].op \in {"unlock", "reset"} /\ req[p].pc = "write"
KeepsLocks ==
    \A u \in Account : users[u].locked /\ InTable(users'[u]) =>
        users'[u].locked \/ \E p \in Request : Lifts(p) /\ req'[p] # req[p]

\* As long as requests do not overlap, only unlocking and resetting an account
\* lift a lock that staff have set.
LockHolds == [][calm' => KeepsLocks]_vars
===============================================================================
