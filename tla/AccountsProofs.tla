---------------------------- MODULE AccountsProofs ----------------------------
(***************************************************************************)
(* Theorems about staff accounts, for any number of users, requests,       *)
(* passwords, policies and limits, and a clock of any length.  A handler   *)
(* writes back the copy it has made of an account: NeverTorn holds in      *)
(* every interleaving because a copy is never half of two, the others for  *)
(* as long as no two requests have overlapped (calm), because a copy is    *)
(* then still true when it is written.                                     *)
(***************************************************************************)
EXTENDS Accounts, SequenceTheorems, TLAPS

-------------------------------------------------------------------------------
(***************************************************************************)
(* The passwords that are remembered.                                      *)
(***************************************************************************)
Recent(s) == LET newest == Newest(s) IN {newest[i] : i \in DOMAIN newest}

LEMMA NewestType ==
    ASSUME NEW s \in Seq(Password)
    PROVE  /\ Newest(s) \in Seq(Password)
           /\ Len(Newest(s)) = IF Len(s) <= Keep THEN Len(s) ELSE Keep
           /\ \A i \in 1 .. Len(Newest(s)) :
                 Newest(s)[i] = s[Len(s) - Len(Newest(s)) + i]
<1>1. CASE Len(s) <= Keep
  BY <1>1 DEF Newest
<1>2. CASE ~(Len(s) <= Keep)
  <2>1. \A i \in Len(s) - Keep + 1 .. Len(s) : s[i] \in Password
    BY <1>2, AccountsAssumption, ElementOfSeq
  <2>2. /\ SubSeq(s, Len(s) - Keep + 1, Len(s)) \in Seq(Password)
        /\ Len(SubSeq(s, Len(s) - Keep + 1, Len(s))) = Keep
        /\ \A i \in 1 .. Keep :
              SubSeq(s, Len(s) - Keep + 1, Len(s))[i] = s[Len(s) - Keep + i]
    BY <1>2, <2>1, AccountsAssumption, SubSeqProperties
  <2>3. QED
    BY <1>2, <2>2, AccountsAssumption DEF Newest
<1>3. QED
  BY <1>1, <1>2

LEMMA NewestShort ==
    ASSUME NEW s \in Seq(Password)
    PROVE  Newest(s) \in Seq(Password) /\ (Newest(s) # <<>> => s # <<>>)
<1>1. Newest(s) \in Seq(Password)
  BY NewestType
<1>2. Newest(<<>>) = <<>>
  BY LenProperties, AccountsAssumption DEF Newest
<1>3. QED
  BY <1>1, <1>2

\* Nothing is lost when only what is remembered is recorded further.
LEMMA NewestOfAppend ==
    ASSUME NEW s \in Seq(Password), NEW x \in Password
    PROVE  Newest(Append(Newest(s), x)) = Newest(Append(s, x))
<1> DEFINE a == Append(Newest(s), x)
           b == Append(s, x)
<1>1. /\ Newest(s) \in Seq(Password)
      /\ Len(Newest(s)) = IF Len(s) <= Keep THEN Len(s) ELSE Keep
      /\ \A i \in 1 .. Len(Newest(s)) :
            Newest(s)[i] = s[Len(s) - Len(Newest(s)) + i]
  BY NewestType
<1>2. /\ a \in Seq(Password) /\ Len(a) = Len(Newest(s)) + 1
      /\ \A i \in 1 .. Len(Newest(s)) : a[i] = Newest(s)[i]
      /\ a[Len(Newest(s)) + 1] = x
  BY <1>1, AppendProperties
<1>3. /\ b \in Seq(Password) /\ Len(b) = Len(s) + 1
      /\ \A i \in 1 .. Len(s) : b[i] = s[i]
      /\ b[Len(s) + 1] = x
  BY AppendProperties
<1> HIDE DEF a, b
<1>4. /\ Newest(a) \in Seq(Password)
      /\ Len(Newest(a)) = IF Len(a) <= Keep THEN Len(a) ELSE Keep
      /\ \A i \in 1 .. Len(Newest(a)) : Newest(a)[i] = a[Len(a) - Len(Newest(a)) + i]
  BY <1>2, NewestType
<1>5. /\ Newest(b) \in Seq(Password)
      /\ Len(Newest(b)) = IF Len(b) <= Keep THEN Len(b) ELSE Keep
      /\ \A i \in 1 .. Len(Newest(b)) : Newest(b)[i] = b[Len(b) - Len(Newest(b)) + i]
  BY <1>3, NewestType
<1>6. Len(s) \in Nat /\ Keep \in Nat \ {0}
  BY AccountsAssumption, LenProperties
<1> DEFINE n == Len(s)
           m == Len(Newest(s))
           l == Len(Newest(a))
<1>7. /\ n \in Nat /\ m \in Nat /\ l \in Nat /\ m <= n /\ l <= m + 1
      /\ Len(a) = m + 1 /\ Len(b) = n + 1 /\ l = Len(Newest(b))
  BY <1>1, <1>2, <1>3, <1>4, <1>5, <1>6
<1> HIDE DEF n, m, l
<1>8. ASSUME NEW i \in 1 .. l PROVE Newest(a)[i] = Newest(b)[i]
  <2> DEFINE j == m + 1 - l + i
             k == n + 1 - l + i
  <2>1. Newest(a)[i] = a[j] /\ Newest(b)[i] = b[k]
    <3>1. j = Len(a) - Len(Newest(a)) + i /\ k = Len(b) - Len(Newest(b)) + i
      BY <1>7 DEF l
    <3> HIDE DEF j, k
    <3>2. i \in 1 .. Len(Newest(a)) /\ i \in 1 .. Len(Newest(b))
      BY <1>7 DEF l
    <3>3. QED
      BY <1>4, <1>5, <3>1, <3>2
  <2>2. j \in 1 .. m + 1 /\ k \in 1 .. n + 1 /\ k = n - m + j
    BY <1>7
  <2> HIDE DEF j, k
  <2>3. CASE j = m + 1
    <3>1. k = n + 1
      BY <1>7, <2>2, <2>3
    <3>2. QED
      BY <1>2, <1>3, <2>1, <2>3, <3>1 DEF n, m
  <2>4. CASE j \in 1 .. m
    <3>1. k \in 1 .. n
      BY <1>7, <2>2, <2>4
    <3>2. a[j] = Newest(s)[j] /\ b[k] = s[k]
      BY <1>2, <1>3, <2>4, <3>1 DEF n, m
    <3>3. Newest(s)[j] = s[k]
      BY <1>1, <2>2, <2>4 DEF n, m
    <3>4. QED
      BY <2>1, <3>2, <3>3
  <2>5. QED
    BY <1>7, <2>2, <2>3, <2>4
<1>9. Newest(a) = Newest(b)
  BY <1>4, <1>5, <1>7, <1>8, SeqEqual DEF l
<1>10. QED
  BY <1>9 DEF a, b

\* What is remembered is remembered as it is.
LEMMA NewestOfNewest ==
    ASSUME NEW s \in Seq(Password)
    PROVE  Newest(Newest(s)) = Newest(s) /\ Newest(<<>>) = <<>>
<1>1. Len(Newest(s)) <= Keep
  BY NewestType, LenProperties, AccountsAssumption
<1>2. Len(<<>>) = 0
  BY EmptySeq
<1>3. QED
  BY <1>1, <1>2, AccountsAssumption DEF Newest

\* No password is one of the Keep before it.
NotReused(s) ==
    \A i, j \in DOMAIN s : i < j /\ j <= i + Keep /\ s[i] = s[j] => s[i] = Temporary

LEMMA NotReusedAppend ==
    ASSUME NEW s \in Seq(Password), NEW x \in Password, NotReused(s),
           x \notin Recent(s) \/ x = Temporary
    PROVE  NotReused(Append(s, x))
<1> DEFINE b == Append(s, x)
<1>1. /\ b \in Seq(Password) /\ Len(b) = Len(s) + 1
      /\ \A i \in 1 .. Len(s) : b[i] = s[i]
      /\ b[Len(s) + 1] = x
  BY AppendProperties
<1>2. DOMAIN b = 1 .. Len(s) + 1 /\ DOMAIN s = 1 .. Len(s) /\ Len(s) \in Nat
  BY <1>1, LenProperties
<1> HIDE DEF b
<1>3. SUFFICES ASSUME NEW i \in 1 .. Len(s) + 1, NEW j \in 1 .. Len(s) + 1,
                      i < j, j <= i + Keep, b[i] = b[j]
               PROVE  b[i] = Temporary
  BY <1>2 DEF NotReused, b
<1>4. i \in 1 .. Len(s) /\ b[i] = s[i]
  BY <1>1, <1>2, <1>3
<1>5. CASE j \in 1 .. Len(s)
  BY <1>1, <1>2, <1>3, <1>4, <1>5 DEF NotReused
<1>6. CASE j = Len(s) + 1
  <2>1. b[i] = x
    BY <1>1, <1>3, <1>6
  <2>2. s[i] \in Recent(s)
    <3> DEFINE n == Newest(s)
               d == Len(s) - Len(n)
    <3>1. /\ n \in Seq(Password) /\ Len(n) = IF Len(s) <= Keep THEN Len(s) ELSE Keep
          /\ \A k \in 1 .. Len(n) : n[k] = s[Len(s) - Len(n) + k]
      BY NewestType
    <3>2. DOMAIN n = 1 .. Len(n) /\ Len(n) \in Nat
      BY <3>1, LenProperties
    <3>3. d \in Nat /\ Len(n) = Len(s) - d /\ d < i
      BY <1>2, <1>3, <1>4, <1>6, <3>1, <3>2, AccountsAssumption
    <3>4. \A k \in 1 .. Len(n) : n[k] = s[d + k]
      BY <3>1
    <3> HIDE DEF n, d
    <3>5. i - d \in 1 .. Len(n) /\ d + (i - d) = i
      BY <1>2, <1>4, <3>2, <3>3
    <3>6. n[i - d] = s[i]
      BY <3>4, <3>5
    <3>7. QED
      BY <3>2, <3>5, <3>6 DEF Recent, n
  <2>3. QED
    BY <1>4, <2>1, <2>2
<1>7. QED
  BY <1>2, <1>5, <1>6

-------------------------------------------------------------------------------
(***************************************************************************)
(* Rows, policies and requests.                                            *)
(***************************************************************************)
LEMMA RowsInTable ==
    /\ \A row \in UserRow : InTable(row)
    /\ ~InTable(Unused) /\ ~InTable(Deleted)
<1>1. ASSUME NEW row \in UserRow PROVE InTable(row)
  <2>1. "email" \in DOMAIN row
    BY DEF UserRow
  <2>2. "email" \notin DOMAIN Unused /\ "email" \notin DOMAIN Deleted
    BY DEF Unused, Deleted
  <2>3. QED
    BY <2>1, <2>2 DEF InTable
<1>2. QED
  BY <1>1 DEF InTable

\* The type invariant says of histories that they are functions too.
TypeInv ==
    /\ TypeOK
    /\ history \in [User -> Seq(Password)] /\ used \in [User -> Seq(Password)]

LEMMA RowTypes ==
    ASSUME TypeInv
    PROVE  /\ \A u \in Account : u \in User /\ users[u] \in UserRow
           /\ \A u \in User : HasUser(u) => users[u] \in UserRow
BY DEF TypeInv, TypeOK, Account, HasUser, InTable

LEMMA PolicyTypes ==
    ASSUME TypeInv
    PROVE  /\ Global \in PolicyRow /\ GetByOrg \in PolicyRow /\ NoPolicy \notin PolicyRow
           /\ \A member \in BOOLEAN : GetPolicy(member) \in PolicyRow
           /\ \A member \in BOOLEAN : GetPolicy(member).limit \in Limit
<1>1. Global \in PolicyRow
  BY AccountsAssumption DEF Global, PolicyRow
<1>2. NoPolicy \notin PolicyRow
  <2>1. "limit" \notin DOMAIN NoPolicy
    BY DEF NoPolicy
  <2>2. \A row \in PolicyRow : "limit" \in DOMAIN row
    BY DEF PolicyRow
  <2>3. QED
    BY <2>1, <2>2
<1>3. GetByOrg \in PolicyRow
  BY <1>1 DEF GetByOrg, TypeInv, TypeOK
<1>4. \A member \in BOOLEAN : GetPolicy(member) \in PolicyRow
  BY <1>1, <1>3 DEF GetPolicy, TypeInv, TypeOK
<1>5. QED
  BY <1>1, <1>2, <1>3, <1>4 DEF PolicyRow

\* A request that will write a row holds one, of the account it names.
Sound(r) ==
    /\ r \in Local
    /\ r.pc \in {"insert", "record", "prune", "count", "write", "check"} => r.row \in UserRow
    /\ r.pc \in {"record", "prune", "count", "write", "check", "delete"} => r.user \in User

LEMMA TypeParts ==
    TypeInv <=>
      /\ users \in [User -> UserRow \cup {Unused, Deleted}]
      /\ history \in [User -> Seq(Password)]
      /\ \A u \in User : history[u] # <<>> => InTable(users[u])
      /\ policy \in PolicyRow \cup {NoPolicy} /\ cache \in PolicyRow \cup {NoPolicy}
      /\ now \in 0 .. LastTime /\ served \in Nat /\ calm \in BOOLEAN
      /\ req \in [Request -> Local] /\ \A p \in Request : Sound(req[p])
      /\ streak \in [User -> Nat] /\ used \in [User -> Seq(Password)]
      /\ missed \subseteq User
BY DEF TypeInv, TypeOK, Sound, HasUser

LEMMA TypePartsNext ==
    ASSUME users' \in [User -> UserRow \cup {Unused, Deleted}],
           history' \in [User -> Seq(Password)], missed' \subseteq User,
           \A u \in User : history'[u] # <<>> => InTable(users'[u]),
           policy' \in PolicyRow \cup {NoPolicy}, cache' \in PolicyRow \cup {NoPolicy},
           now' \in 0 .. LastTime, served' \in Nat, calm' \in BOOLEAN,
           req' \in [Request -> Local], \A p \in Request : Sound(req'[p]),
           streak' \in [User -> Nat], used' \in [User -> Seq(Password)]
    PROVE  TypeInv'
BY DEF TypeInv, TypeOK, Sound, HasUser

LEMMA IdleSound == Sound(Idle)
<1>1. Global \in PolicyRow
  BY AccountsAssumption DEF Global, PolicyRow
<1>2. QED
  BY <1>1 DEF Sound, Idle, Local, Op

LEMMA RequestSound ==
    ASSUME TypeInv, NEW p \in Request, NEW local, Sound(local),
           req' = [req EXCEPT ![p] = local]
    PROVE  req' \in [Request -> Local] /\ \A q \in Request : Sound(req'[q])
BY TypeParts DEF Sound

-------------------------------------------------------------------------------
(***************************************************************************)
(* What an accepted request holds.                                         *)
(***************************************************************************)
Registers(r) ==
    /\ r.pc = "insert" /\ r.op = "register"
    /\ \E email \in Email, member \in BOOLEAN, role \in Role, branch \in BOOLEAN,
          password \in Chosen :
          r.row = NewRow(email, member, role, branch, password, FALSE)

Governs(r) ==
    \/ r.pc = "cache" /\ cache = NoPolicy /\ r.policy = GetByOrg
    \/ r.pc = "upsert"

SameLock(row, old) ==
    row.locked = old.locked /\ row.until = old.until /\ row.failed = old.failed

\* What the handlers make of the account they have read.
Attempts(r, old) ==
    /\ ~old.locked
    /\ \/ r.op = "login" /\ r.pc = "write" /\ r.row = [old EXCEPT !.failed = 0, !.until = 0]
       \/ r.op = "wrong" /\ r.pc = "count" /\ r.row = [old EXCEPT !.failed = @ + 1]

Edits(r, old) ==
    /\ SameLock(r.row, old)
    /\ \/ r.op = "edit" /\ r.pc = "check"
          /\ r.row.temp = old.temp /\ r.row.password \in Chosen \cup {old.password}
       \/ r.op = "change" /\ r.pc = "check" /\ r.row.email = old.email
          /\ ~r.row.temp /\ r.row.password \in Chosen \ {old.password}
       \/ /\ r.op \in {"role", "deactivate", "delete"}
          /\ r.pc = IF r.op = "delete" THEN "delete" ELSE "write"
          /\ r.row.email = old.email
          /\ r.row.temp = old.temp /\ r.row.password = old.password

Locks(r, old) ==
    /\ r.pc = "write"
    /\ \/ r.op = "lock" /\ r.row = [old EXCEPT !.locked = TRUE, !.until = 0]
       \/ r.op = "unlock" /\ r.row = [old EXCEPT !.locked = FALSE, !.until = 0, !.failed = 0]
       \/ r.op = "reset" /\ r.row = [old EXCEPT !.password = Temporary, !.temp = TRUE,
                                        !.failed = 0, !.locked = FALSE, !.until = 0]

\* gives names the columns that differ in the copy.
Differs(r, old) ==
    /\ "email" \in r.gives <=> r.row.email # old.email
    /\ "password" \in r.gives <=> r.row.password # old.password

Copies(r, u) ==
    /\ r.user = u /\ r.row \in UserRow /\ r.row.member = users[u].member
    /\ Differs(r, users[u])
    /\ Attempts(r, users[u]) \/ Edits(r, users[u]) \/ Locks(r, users[u])

Accepted(p, r) ==
    /\ r \in Local /\ Starts(p, r)
    /\ UNCHANGED <<tables, now, ghosts>>
    /\ cache' = cache \/ cache' = GetPolicy(TRUE)
    /\ Registers(r) \/ (\E u \in Account : Copies(r, u)) \/ Governs(r)

LEMMA ReadsIs ==
    ASSUME TypeInv, NEW p \in Request, NEW op \in Op, NEW u \in Account, NEW row \in UserRow,
           NEW pc \in {"count", "write", "check", "delete"}, Reads(p, op, u, row, pc)
    PROVE  \E r \in Local :
              /\ Starts(p, r) /\ UNCHANGED <<tables, now, ghosts>>
              /\ r.pc = pc /\ r.op = op /\ r.user = u /\ r.row = row
              /\ Differs(r, users[u])
<1> DEFINE r == [Idle EXCEPT !.pc = pc, !.op = op, !.user = u, !.row = row,
                    !.gives = {c \in {"email", "password"} : row[c] # users[u][c]}]
<1>1. u \in User /\ Idle \in Local
  BY RowTypes, IdleSound DEF Sound
<1>2. r \in Local
  BY <1>1 DEF Local, Idle
<1>3. /\ r.pc = pc /\ r.op = op /\ r.user = u /\ r.row = row
      /\ r.gives = {c \in {"email", "password"} : row[c] # users[u][c]}
  BY DEF Idle
<1>4. Starts(p, r) /\ UNCHANGED <<tables, now, ghosts>>
  BY DEF Reads
<1> HIDE DEF r
<1>5. Differs(r, users[u])
  BY <1>3 DEF Differs
<1>6. QED
  BY <1>2, <1>3, <1>4, <1>5

\* The copy is made by one of the handlers, and the policy may have been asked.
LEMMA CopyAccepted ==
    ASSUME TypeInv, NEW p \in Request, NEW op \in Op, NEW u \in Account, NEW row \in UserRow,
           NEW pc \in {"count", "write", "check", "delete"}, Reads(p, op, u, row, pc),
           cache' = cache \/ cache' = GetPolicy(TRUE), row.member = users[u].member,
           \A r \in Local : r.pc = pc /\ r.op = op /\ r.row = row =>
               Attempts(r, users[u]) \/ Edits(r, users[u]) \/ Locks(r, users[u])
    PROVE  \E r \in Local : Accepted(p, r)
<1>1. PICK r \in Local :
        /\ Starts(p, r) /\ UNCHANGED <<tables, now, ghosts>>
        /\ r.pc = pc /\ r.op = op /\ r.user = u /\ r.row = row
        /\ Differs(r, users[u])
  BY ReadsIs
<1>2. Copies(r, u)
  BY <1>1 DEF Copies
<1>3. QED
  BY <1>1, <1>2 DEF Accepted

LEMMA AcceptIs ==
    ASSUME TypeInv, NEW p \in Request, Accept(p)
    PROVE  \E r \in Local : Accepted(p, r)
<1>0. \A u \in Account : u \in User /\ users[u] \in UserRow
  BY RowTypes
<1>z. 0 \in 0 .. LastTime + Lockout
  BY AccountsAssumption
<1>1. CASE Register(p)
  <2>1. PICK email \in Email, member \in BOOLEAN, role \in Role, branch \in BOOLEAN,
             password \in Chosen :
          /\ Starts(p, [Idle EXCEPT !.pc = "insert", !.op = "register",
                           !.row = NewRow(email, member, role, branch, password, FALSE)])
          /\ Consults(member) /\ UNCHANGED <<tables, now, ghosts>>
    BY <1>1 DEF Register
  <2> DEFINE row == NewRow(email, member, role, branch, password, FALSE)
             r == [Idle EXCEPT !.pc = "insert", !.op = "register", !.row = row]
  <2>2. row \in UserRow
    BY AccountsAssumption DEF NewRow, UserRow, Password
  <2>3. r \in Local /\ r.pc = "insert" /\ r.op = "register" /\ r.row = row
    <3> HIDE DEF row
    <3> QED BY <2>2, IdleSound DEF Sound, Local, Idle, Op
  <2>4. Registers(r)
    BY <2>3 DEF Registers
  <2>5. cache' = cache \/ cache' = GetPolicy(TRUE)
    BY <2>1 DEF Consults
  <2> HIDE DEF r
  <2>6. Starts(p, r)
    BY <2>1 DEF r
  <2>7. QED
    BY <2>1, <2>3, <2>4, <2>5, <2>6 DEF Accepted
<1>2. CASE LoginWithOrg(p)
  <2>1. PICK u \in Account, right \in BOOLEAN :
          /\ ~CheckAccountLockout(users[u])
          /\ ReadsOnly(p, IF right THEN "login" ELSE "wrong", u,
                       IF right THEN [users[u] EXCEPT !.failed = 0, !.until = 0]
                                ELSE [users[u] EXCEPT !.failed = @ + 1],
                       IF right THEN "write" ELSE "count")
    BY <1>2 DEF LoginWithOrg
  <2>2. ~users[u].locked /\ cache' = cache
    BY <2>1 DEF CheckAccountLockout, ReadsOnly
  <2>3. CASE right
    <3> DEFINE row == [users[u] EXCEPT !.failed = 0, !.until = 0]
    <3>1. row \in UserRow /\ row.member = users[u].member
      BY <1>0, <1>z DEF UserRow
    <3>2. Reads(p, "login", u, row, "write")
      BY <2>1, <2>3 DEF ReadsOnly
    <3>3. \A r \in Local : r.pc = "write" /\ r.op = "login" /\ r.row = row =>
             Attempts(r, users[u])
      BY <2>2 DEF Attempts
    <3> HIDE DEF row
    <3>4. QED
      BY <2>2, <3>1, <3>2, <3>3, CopyAccepted DEF Op
  <2>4. CASE ~right
    <3> DEFINE row == [users[u] EXCEPT !.failed = @ + 1]
    <3>1. row \in UserRow /\ row.member = users[u].member
      BY <1>0 DEF UserRow
    <3>2. Reads(p, "wrong", u, row, "count")
      BY <2>1, <2>4 DEF ReadsOnly
    <3>3. \A r \in Local : r.pc = "count" /\ r.op = "wrong" /\ r.row = row =>
             Attempts(r, users[u])
      BY <2>2 DEF Attempts
    <3> HIDE DEF row
    <3>4. QED
      BY <2>2, <3>1, <3>2, <3>3, CopyAccepted DEF Op
  <2>5. QED
    BY <2>3, <2>4
<1>3. CASE UpdateUserFull(p)
  <2>1. PICK u \in Account, given \in Given :
          \E row \in EditedRows(users[u], given) : ReadsOnly(p, "edit", u, row, "check")
    BY <1>3 DEF UpdateUserFull
  <2>2. PICK row \in EditedRows(users[u], given) : ReadsOnly(p, "edit", u, row, "check")
    BY <2>1
  <2>3. PICK email \in Email, role \in Role, active \in BOOLEAN,
             password \in Chosen \cup {users[u].password}, branch \in BOOLEAN :
          row = [users[u] EXCEPT !.email = email, !.role = role, !.active = active,
                    !.password = password, !.branch = branch]
    <3>1. PICK email \in (IF "email" \in given THEN Email ELSE {users[u]["email"]}),
               role \in (IF "role" \in given THEN Role ELSE {users[u]["role"]}),
               active \in (IF "active" \in given THEN BOOLEAN ELSE {users[u]["active"]}),
               password \in (IF "password" \in given THEN Chosen \ {users[u].password}
                                                     ELSE {users[u]["password"]}) :
            row = Edited(users[u], given, email, role, active, password)
      BY <2>2 DEF EditedRows
    <3>2. /\ email \in Email /\ role \in Role /\ active \in BOOLEAN
          /\ password \in Chosen \cup {users[u].password}
      BY <1>0, <3>1 DEF UserRow
    <3>3. BranchAfter(users[u], given, role) \in BOOLEAN
      BY <1>0 DEF UserRow, BranchAfter
    <3>4. QED
      BY <3>1, <3>2, <3>3 DEF Edited
  <2>4. /\ row \in UserRow /\ row.member = users[u].member /\ SameLock(row, users[u])
        /\ row.temp = users[u].temp /\ row.password \in Chosen \cup {users[u].password}
    BY <1>0, <2>3 DEF UserRow, SameLock, Password
  <2>5. \A r \in Local : r.pc = "check" /\ r.op = "edit" /\ r.row = row =>
           Edits(r, users[u])
    BY <2>4 DEF Edits
  <2>6. Reads(p, "edit", u, row, "check") /\ cache' = cache
    BY <2>2 DEF ReadsOnly
  <2>7. QED
    BY <2>4, <2>5, <2>6, CopyAccepted DEF Op
<1>4. CASE ChangeUserRole(p)
  <2>1. PICK u \in Account, role \in Role :
          ReadsOnly(p, "role", u, [users[u] EXCEPT !.role = role], "write")
    BY <1>4 DEF ChangeUserRole
  <2> DEFINE row == [users[u] EXCEPT !.role = role]
  <2>2. /\ row \in UserRow /\ row.member = users[u].member
        /\ SameLock(row, users[u]) /\ row.email = users[u].email
        /\ row.temp = users[u].temp /\ row.password = users[u].password
    BY <1>0 DEF UserRow, SameLock
  <2>3. Reads(p, "role", u, row, "write") /\ cache' = cache
    BY <2>1 DEF ReadsOnly
  <2> HIDE DEF row
  <2>4. \A r \in Local : r.pc = "write" /\ r.op = "role" /\ r.row = row => Edits(r, users[u])
    BY <2>2 DEF Edits
  <2>5. QED
    BY <2>2, <2>3, <2>4, CopyAccepted DEF Op
<1>5. CASE DeactivateUser(p)
  <2>1. PICK u \in Account :
          ReadsOnly(p, "deactivate", u, [users[u] EXCEPT !.active = FALSE], "write")
    BY <1>5 DEF DeactivateUser
  <2> DEFINE row == [users[u] EXCEPT !.active = FALSE]
  <2>2. /\ row \in UserRow /\ row.member = users[u].member
        /\ SameLock(row, users[u]) /\ row.email = users[u].email
        /\ row.temp = users[u].temp /\ row.password = users[u].password
    BY <1>0 DEF UserRow, SameLock
  <2>3. Reads(p, "deactivate", u, row, "write") /\ cache' = cache
    BY <2>1 DEF ReadsOnly
  <2> HIDE DEF row
  <2>4. \A r \in Local : r.pc = "write" /\ r.op = "deactivate" /\ r.row = row =>
           Edits(r, users[u])
    BY <2>2 DEF Edits
  <2>5. QED
    BY <2>2, <2>3, <2>4, CopyAccepted DEF Op
<1>6. CASE LockUser(p)
  <2>1. PICK u \in Account :
          ReadsOnly(p, "lock", u, [users[u] EXCEPT !.locked = TRUE, !.until = 0], "write")
    BY <1>6 DEF LockUser
  <2> DEFINE row == [users[u] EXCEPT !.locked = TRUE, !.until = 0]
  <2>2. row \in UserRow /\ row.member = users[u].member
    BY <1>0, <1>z DEF UserRow
  <2>3. Reads(p, "lock", u, row, "write") /\ cache' = cache
    BY <2>1 DEF ReadsOnly
  <2>4. \A r \in Local : r.pc = "write" /\ r.op = "lock" /\ r.row = row => Locks(r, users[u])
    BY DEF Locks
  <2> HIDE DEF row
  <2>5. QED
    BY <2>2, <2>3, <2>4, CopyAccepted DEF Op
<1>7. CASE UnlockUser(p)
  <2>1. PICK u \in Account :
          ReadsOnly(p, "unlock", u,
                    [users[u] EXCEPT !.locked = FALSE, !.until = 0, !.failed = 0], "write")
    BY <1>7 DEF UnlockUser
  <2> DEFINE row == [users[u] EXCEPT !.locked = FALSE, !.until = 0, !.failed = 0]
  <2>2. row \in UserRow /\ row.member = users[u].member
    BY <1>0, <1>z DEF UserRow
  <2>3. Reads(p, "unlock", u, row, "write") /\ cache' = cache
    BY <2>1 DEF ReadsOnly
  <2>4. \A r \in Local : r.pc = "write" /\ r.op = "unlock" /\ r.row = row => Locks(r, users[u])
    BY DEF Locks
  <2> HIDE DEF row
  <2>5. QED
    BY <2>2, <2>3, <2>4, CopyAccepted DEF Op
<1>8. CASE DeleteUser(p)
  <2>1. PICK u \in Account : ReadsOnly(p, "delete", u, users[u], "delete")
    BY <1>8 DEF DeleteUser
  <2>2. \A r \in Local : r.pc = "delete" /\ r.op = "delete" /\ r.row = users[u] =>
           Edits(r, users[u])
    BY DEF Edits, SameLock
  <2>3. Reads(p, "delete", u, users[u], "delete") /\ cache' = cache
    BY <2>1 DEF ReadsOnly
  <2>4. QED
    BY <1>0, <2>2, <2>3, CopyAccepted DEF Op
<1>9. CASE ChangePassword(p)
  <2>1. PICK u \in Account : \E password \in Chosen \ {users[u].password} :
          ReadsOnly(p, "change", u,
                    [users[u] EXCEPT !.password = password, !.temp = FALSE], "check")
    BY <1>9 DEF ChangePassword
  <2>2. PICK password \in Chosen \ {users[u].password} :
          ReadsOnly(p, "change", u,
                    [users[u] EXCEPT !.password = password, !.temp = FALSE], "check")
    BY <2>1
  <2> DEFINE row == [users[u] EXCEPT !.password = password, !.temp = FALSE]
  <2>3. /\ row \in UserRow /\ row.member = users[u].member /\ SameLock(row, users[u])
        /\ row.email = users[u].email /\ ~row.temp /\ row.password = password
    BY <1>0 DEF UserRow, SameLock, Password
  <2>4. Reads(p, "change", u, row, "check") /\ cache' = cache
    BY <2>2 DEF ReadsOnly
  <2> HIDE DEF row
  <2>5. \A r \in Local : r.pc = "check" /\ r.op = "change" /\ r.row = row =>
           Edits(r, users[u])
    BY <2>3 DEF Edits
  <2>6. QED
    BY <2>3, <2>4, <2>5, CopyAccepted DEF Op
<1>10. CASE ResetPassword(p)
  <2>1. PICK u \in Account :
          /\ Reads(p, "reset", u,
                   [users[u] EXCEPT !.password = Temporary, !.temp = TRUE, !.failed = 0,
                        !.locked = FALSE, !.until = 0], "write")
          /\ Consults(users[u].member)
    BY <1>10 DEF ResetPassword
  <2> DEFINE row == [users[u] EXCEPT !.password = Temporary, !.temp = TRUE, !.failed = 0,
                        !.locked = FALSE, !.until = 0]
  <2>2. row \in UserRow /\ row.member = users[u].member
    BY <1>0, <1>z DEF UserRow, Password
  <2>3. Reads(p, "reset", u, row, "write") /\ (cache' = cache \/ cache' = GetPolicy(TRUE))
    BY <2>1 DEF Consults
  <2>4. \A r \in Local : r.pc = "write" /\ r.op = "reset" /\ r.row = row => Locks(r, users[u])
    BY DEF Locks
  <2> HIDE DEF row
  <2>5. "reset" \in Op /\ "write" \in {"count", "write", "check", "delete"}
    BY DEF Op
  <2>6. CASE cache' = cache
    BY <2>2, <2>3, <2>4, <2>5, <2>6, CopyAccepted
  <2>7. CASE cache' = GetPolicy(TRUE)
    BY <2>2, <2>3, <2>4, <2>5, <2>7, CopyAccepted
  <2>8. QED
    BY <2>3, <2>6, <2>7
<1>11. CASE GetPasswordPolicy(p)
  <2> DEFINE r == [Idle EXCEPT !.pc = "cache", !.op = "read", !.policy = GetByOrg]
  <2>1. r \in Local /\ r.pc = "cache" /\ r.policy = GetByOrg
    BY IdleSound, PolicyTypes DEF Sound, Local, Idle, Op
  <2>2. /\ cache = NoPolicy /\ Starts(p, r) /\ cache' = cache
        /\ UNCHANGED <<tables, now, ghosts>>
    BY <1>11 DEF GetPasswordPolicy
  <2> HIDE DEF r
  <2>3. QED
    BY <2>1, <2>2 DEF Accepted, Governs
<1>12. CASE UpdatePasswordPolicy(p)
  <2>1. PICK row \in PolicyRow :
          /\ Starts(p, [Idle EXCEPT !.pc = "upsert", !.op = "policy", !.policy = row])
          /\ UNCHANGED <<tables, cache, now, ghosts>>
    BY <1>12 DEF UpdatePasswordPolicy
  <2> DEFINE r == [Idle EXCEPT !.pc = "upsert", !.op = "policy", !.policy = row]
  <2>2. r \in Local /\ r.pc = "upsert"
    BY IdleSound DEF Sound, Local, Idle, Op
  <2>3. Starts(p, r) /\ cache' = cache /\ UNCHANGED <<tables, now, ghosts>>
    BY <2>1
  <2> HIDE DEF r
  <2>4. QED
    BY <2>2, <2>3 DEF Accepted, Governs
<1>13. QED
  BY <1>1, <1>2, <1>3, <1>4, <1>5, <1>6, <1>7, <1>8, <1>9, <1>10, <1>11, <1>12 DEF Accept

-------------------------------------------------------------------------------
(***************************************************************************)
(* Types.                                                                  *)
(***************************************************************************)
RequestsSound == req \in [Request -> Local] /\ \A p \in Request : Sound(req[p])

LEMMA NewRowSound ==
    ASSUME NEW email \in Email, NEW member \in BOOLEAN, NEW role \in Role,
           NEW branch \in BOOLEAN, NEW password \in Password, NEW temp \in BOOLEAN
    PROVE  NewRow(email, member, role, branch, password, temp) \in UserRow
<1>1. 0 \in 0 .. LastTime + Lockout
  BY AccountsAssumption
<1>2. QED
  BY <1>1 DEF NewRow, UserRow

LEMMA AcceptedSound ==
    ASSUME TypeInv, NEW p \in Request, NEW r \in Local, Accepted(p, r)
    PROVE  Sound(r)
<1>1. CASE Registers(r)
  BY <1>1, NewRowSound DEF Registers, Sound, Password
<1>2. CASE \E u \in Account : Copies(r, u)
  BY <1>2, RowTypes DEF Copies, Attempts, Edits, Locks, Sound
<1>3. CASE Governs(r)
  BY <1>3 DEF Governs, Sound
<1>4. QED
  BY <1>1, <1>2, <1>3 DEF Accepted

LEMMA AdvanceSound ==
    ASSUME TypeInv, NEW p \in Request,
           NEW pc \in {"cache", "record", "prune", "write"}, Advance(p, pc),
           pc # "cache" => req[p].row \in UserRow /\ req[p].user \in User
    PROVE  RequestsSound'
<1> DEFINE local == [req[p] EXCEPT !.pc = pc]
<1>1. req[p] \in Local
  BY TypeParts
<1>2. Sound(local)
  BY <1>1 DEF Sound, Local
<1>3. req' = [req EXCEPT ![p] = local]
  BY DEF Advance
<1> HIDE DEF local
<1>4. QED
  BY <1>2, <1>3, RequestSound DEF RequestsSound

LEMMA ReturnSound ==
    ASSUME TypeInv, NEW p \in Request, Return(p)
    PROVE  RequestsSound'
BY IdleSound, RequestSound DEF Return, RequestsSound

LEMMA AcceptTyped ==
    ASSUME TypeInv, NEW p \in Request, Accept(p)
    PROVE  TypeInv'
<1>1. PICK r \in Local : Accepted(p, r)
  BY AcceptIs
<1>2. /\ req' = [req EXCEPT ![p] = r] /\ served' = served + 1 /\ calm' \in BOOLEAN
      /\ UNCHANGED <<tables, now, ghosts>>
  BY <1>1, TypeParts DEF Accepted, Starts
<1>3. RequestsSound'
  BY <1>1, <1>2, AcceptedSound, RequestSound DEF RequestsSound
<1>4. cache' \in PolicyRow \cup {NoPolicy}
  BY <1>1, PolicyTypes, TypeParts DEF Accepted
<1>5. QED
  BY <1>2, <1>3, <1>4, TypeParts, TypePartsNext DEF RequestsSound, tables, ghosts

LEMMA ConsultsTyped ==
    ASSUME TypeInv, NEW member \in BOOLEAN, Consults(member)
    PROVE  cache' \in PolicyRow \cup {NoPolicy}
BY PolicyTypes, TypeParts DEF Consults

LEMMA ContinueTyped ==
    ASSUME TypeInv, NEW p \in Request, Continue(p)
    PROVE  TypeInv'
<1>0. /\ req[p] \in Local /\ Sound(req[p])
      /\ UNCHANGED <<served, calm, now>>
  BY TypeParts DEF Continue, Create, CountAttempt, CheckChange, DeleteRow,
     RecordPasswordChange, PruneHistory, Resumes, WriteUser, UpsertForOrg, SetCache, Continues
<1>1. CASE Create(p)
  <2>1. req[p].row \in UserRow
    BY <1>0, <1>1 DEF Create, Continues, Sound
  <2>2. CASE Return(p) /\ UNCHANGED <<users, used>>
    BY <1>0, <1>1, <2>2, ReturnSound, TypeParts, TypePartsNext DEF Create, RequestsSound
  <2>3. CASE \E u \in NewUsers :
               /\ users' = [users EXCEPT ![u] = req[p].row]
               /\ used' = [used EXCEPT ![u] = <<req[p].row.password>>]
               /\ req' = [req EXCEPT ![p].pc = "record", ![p].user = u]
    <3>1. PICK u \in NewUsers :
               /\ users' = [users EXCEPT ![u] = req[p].row]
               /\ used' = [used EXCEPT ![u] = <<req[p].row.password>>]
               /\ req' = [req EXCEPT ![p].pc = "record", ![p].user = u]
      BY <2>3
    <3>2. u \in User /\ req[p].row.password \in Password
      BY <2>1 DEF NewUsers, UserRow
    <3>3. /\ users' \in [User -> UserRow \cup {Unused, Deleted}]
          /\ used' \in [User -> Seq(Password)]
      BY <2>1, <3>1, <3>2, TypeParts
    <3> DEFINE local == [req[p] EXCEPT !.pc = "record", !.user = u]
    <3>4. Sound(local)
      BY <1>0, <2>1, <3>2 DEF Sound, Local
    <3>5. req' = [req EXCEPT ![p] = local]
      BY <3>1
    <3> HIDE DEF local
    <3>6. RequestsSound'
      BY <3>4, <3>5, RequestSound DEF RequestsSound
    <3>7. \A v \in User : history[v] # <<>> => InTable(users'[v])
      BY <2>1, <3>1, <3>2, RowsInTable, TypeParts DEF InTable
    <3>8. QED
      BY <1>0, <1>1, <3>3, <3>6, <3>7, TypeParts, TypePartsNext DEF Create, RequestsSound
  <2>4. QED
    BY <1>1, <2>2, <2>3 DEF Create
<1>2. CASE CountAttempt(p)
  <2>1. req[p].row \in UserRow /\ req[p].user \in User
    BY <1>0, <1>2 DEF CountAttempt, Continues, Sound
  <2> DEFINE until == IF ShouldLockAccount(req[p].row.failed, req[p].row.member)
                      THEN CalculateLockoutTime ELSE req[p].row.until
             local == [req[p] EXCEPT !.pc = "write", !.row.until = until]
  <2>2. until \in 0 .. LastTime + Lockout
    BY <2>1, AccountsAssumption, TypeParts DEF CalculateLockoutTime, UserRow
  <2>3. req' = [req EXCEPT ![p] = local]
    BY <1>2 DEF CountAttempt
  <2> HIDE DEF until
  <2>4. Sound(local)
    BY <1>0, <2>1, <2>2 DEF Sound, Local, UserRow
  <2> HIDE DEF local
  <2>5. RequestsSound'
    BY <2>3, <2>4, RequestSound DEF RequestsSound
  <2>6. cache' \in PolicyRow \cup {NoPolicy}
    BY <1>2, <2>1, ConsultsTyped DEF CountAttempt, UserRow
  <2>7. QED
    BY <1>0, <1>2, <2>5, <2>6, TypeParts, TypePartsNext
    DEF CountAttempt, RequestsSound, tables, ghosts
<1>3. CASE CheckChange(p)
  <2>1. req[p].row \in UserRow /\ req[p].user \in User
    BY <1>0, <1>3 DEF CheckChange, Continues, Sound
  <2>2. RequestsSound'
    BY <1>3, <2>1, AdvanceSound, ReturnSound DEF CheckChange
  <2>3. (req[p].row.member /\ Gives(p, "password")) \in BOOLEAN
    BY <2>1 DEF UserRow, Gives
  <2>4. cache' \in PolicyRow \cup {NoPolicy}
    BY <1>3, <2>3, ConsultsTyped DEF CheckChange
  <2>5. QED
    BY <1>0, <1>3, <2>2, <2>4, TypeParts, TypePartsNext
    DEF CheckChange, RequestsSound, tables, ghosts
<1>4. CASE DeleteRow(p)
  <2>1. req[p].user \in User
    BY <1>0, <1>4 DEF DeleteRow, Continues, Sound
  <2>2. RequestsSound'
    BY <1>4, ReturnSound DEF DeleteRow
  <2>3. <<>> \in Seq(Password)
    BY EmptySeq
  <2>4. /\ users \in [User -> UserRow \cup {Unused, Deleted}]
        /\ history \in [User -> Seq(Password)]
        /\ \A u \in User : history[u] # <<>> => InTable(users[u])
    BY TypeParts
  <2>5. /\ users' \in [User -> UserRow \cup {Unused, Deleted}]
        /\ history' \in [User -> Seq(Password)]
        /\ \A u \in User : history'[u] # <<>> => InTable(users'[u])
    <3>1. CASE UNCHANGED <<users, history>>
      BY <2>4, <3>1
    <3>2. CASE /\ users' = [users EXCEPT ![req[p].user] = Deleted]
               /\ history' = [history EXCEPT ![req[p].user] = <<>>]
      BY <2>1, <2>3, <2>4, <3>2
    <3>3. QED
      BY <1>4, <3>1, <3>2 DEF DeleteRow
  <2>6. QED
    BY <1>0, <1>4, <2>2, <2>5, TypeParts, TypePartsNext DEF DeleteRow, RequestsSound, ghosts
<1>5. CASE RecordPasswordChange(p)
  <2>1. req[p].row \in UserRow /\ req[p].user \in User
    BY <1>0, <1>5 DEF RecordPasswordChange, Continues, Sound
  <2>2. RequestsSound'
    BY <1>5, <2>1, AdvanceSound, ReturnSound DEF RecordPasswordChange, Resumes
  <2>3. Append(history[req[p].user], req[p].row.password) \in Seq(Password)
    BY <2>1, TypeParts, AppendProperties DEF UserRow
  <2>4. /\ history' \in [User -> Seq(Password)] /\ missed' \subseteq User
        /\ \A u \in User : history'[u] # <<>> => InTable(users'[u])
    <3>1. /\ history \in [User -> Seq(Password)] /\ missed \subseteq User /\ users' = users
          /\ \A u \in User : history[u] # <<>> => InTable(users[u])
      BY <1>5, TypeParts DEF RecordPasswordChange
    <3>2. CASE /\ HasUser(req[p].user) /\ missed' = missed
               /\ history' = [history EXCEPT ![req[p].user] = Append(@, req[p].row.password)]
      BY <2>1, <2>3, <3>1, <3>2 DEF HasUser
    <3>3. CASE missed' = missed \cup {req[p].user} /\ history' = history
      BY <2>1, <3>1, <3>3
    <3>4. QED
      BY <1>5, <3>2, <3>3 DEF RecordPasswordChange
  <2>5. QED
    BY <1>0, <1>5, <2>2, <2>4, TypeParts, TypePartsNext DEF RecordPasswordChange, RequestsSound
<1>6. CASE WriteUser(p)
  <2>1. /\ req[p].row \in UserRow /\ req[p].user \in User
        /\ req[p].row.password \in Password
    BY <1>0, <1>6 DEF WriteUser, Continues, Sound, UserRow
  <2>2. RequestsSound'
    BY <1>6, <2>1, AdvanceSound, ReturnSound DEF WriteUser
  <2>3. StreakAfter(p) \in Nat
    BY <2>1, TypeParts DEF StreakAfter
  <2>4. Append(used[req[p].user], req[p].row.password) \in Seq(Password)
    BY <2>1, TypeParts, AppendProperties
  <2>5. /\ users' = users \/ users' = [users EXCEPT ![req[p].user] = req[p].row]
        /\ streak' = streak \/ streak' = [streak EXCEPT ![req[p].user] = StreakAfter(p)]
        /\ \/ used' = used
           \/ used' = [used EXCEPT ![req[p].user] =
                          Append(used[req[p].user], req[p].row.password)]
    BY <1>6 DEF WriteUser, ghosts
  <2>6. /\ users' \in [User -> UserRow \cup {Unused, Deleted}]
        /\ streak' \in [User -> Nat] /\ used' \in [User -> Seq(Password)]
    BY <2>1, <2>3, <2>4, <2>5, TypeParts
  <2>7. \A u \in User : history[u] # <<>> => InTable(users'[u])
    BY <2>1, <2>5, RowsInTable, TypeParts
  <2>8. history' = history /\ missed' = missed
    BY <1>6 DEF WriteUser, ghosts
  <2>9. QED
    BY <1>0, <1>6, <2>2, <2>6, <2>7, <2>8, TypeParts, TypePartsNext DEF WriteUser, RequestsSound
<1>7. CASE UpsertForOrg(p)
  <2>1. RequestsSound' /\ policy' \in PolicyRow
    BY <1>0, <1>7, AdvanceSound DEF UpsertForOrg, Local
  <2>2. QED
    BY <1>0, <1>7, <2>1, TypeParts, TypePartsNext DEF UpsertForOrg, RequestsSound, ghosts
<1>8. CASE SetCache(p)
  <2>1. RequestsSound' /\ cache' \in PolicyRow
    BY <1>0, <1>8, ReturnSound DEF SetCache, Local
  <2>2. QED
    BY <1>0, <1>8, <2>1, TypeParts, TypePartsNext DEF SetCache, RequestsSound, tables, ghosts
<1>9. CASE PruneHistory(p)
  <2>1. req[p].user \in User
    BY <1>0, <1>9 DEF PruneHistory, Continues, Sound
  <2>2. RequestsSound'
    <3>1. CASE req[p].op = "edit" /\ Advance(p, "write")
      <4>1. req[p].row \in UserRow
        BY <1>0, <1>9 DEF PruneHistory, Continues, Sound
      <4>2. QED
        BY <2>1, <3>1, <4>1, AdvanceSound
    <3>2. QED
      BY <1>9, <3>1, ReturnSound DEF PruneHistory, Resumes
  <2>3. Newest(history[req[p].user]) \in Seq(Password)
        /\ (Newest(history[req[p].user]) # <<>> => history[req[p].user] # <<>>)
    BY <2>1, NewestShort, TypeParts
  <2>4. /\ history' \in [User -> Seq(Password)]
        /\ \A u \in User : history'[u] # <<>> => InTable(users'[u])
    <3>1. /\ history \in [User -> Seq(Password)] /\ users' = users
          /\ \A u \in User : history[u] # <<>> => InTable(users[u])
      BY <1>9, TypeParts DEF PruneHistory
    <3>2. \/ history' = history
          \/ history' = [history EXCEPT ![req[p].user] = Newest(history[req[p].user])]
      BY <1>9 DEF PruneHistory, DeleteOldHistory
    <3>3. QED
      BY <2>1, <2>3, <3>1, <3>2
  <2>5. QED
    BY <1>0, <1>9, <2>2, <2>4, TypeParts, TypePartsNext DEF PruneHistory, RequestsSound, ghosts
<1>10. QED
  BY <1>1, <1>2, <1>3, <1>4, <1>5, <1>6, <1>7, <1>8, <1>9 DEF Continue

LEMMA InitTyped == Init => TypeInv
<1> SUFFICES ASSUME Init PROVE TypeInv
  OBVIOUS
<1>1. PICK email \in Email :
        users = [u \in User |-> IF u = Owner
                    THEN NewRow(email, TRUE, "admin", FALSE, Temporary, TRUE) ELSE Unused]
  BY DEF Init
<1>2. NewRow(email, TRUE, "admin", FALSE, Temporary, TRUE) \in UserRow
  BY NewRowSound DEF Role, Password
<1>3. users \in [User -> UserRow \cup {Unused, Deleted}]
  BY <1>1, <1>2
<1>4. <<>> \in Seq(Password)
  BY EmptySeq
<1>5. /\ history \in [User -> Seq(Password)] /\ used \in [User -> Seq(Password)]
      /\ \A u \in User : history[u] = <<>>
  BY <1>4 DEF Init
<1>6. req \in [Request -> Local] /\ \A p \in Request : Sound(req[p])
  BY IdleSound DEF Init, Sound
<1>7. now \in 0 .. LastTime
  BY AccountsAssumption DEF Init
<1>8. QED
  BY <1>3, <1>5, <1>6, <1>7, TypeParts DEF Init

LEMMA NextTyped == TypeInv /\ [Next]_vars => TypeInv'
<1> SUFFICES ASSUME TypeInv, [Next]_vars PROVE TypeInv'
  OBVIOUS
<1>1. CASE Tick
  <2>1. now' \in 0 .. LastTime
    BY <1>1, AccountsAssumption, TypeParts DEF Tick
  <2>2. QED
    BY <1>1, <2>1, TypeParts, TypePartsNext DEF Tick, tables, ghosts
<1>2. CASE Crash
  <2>1. RequestsSound' /\ calm' \in BOOLEAN
    BY <1>2, IdleSound, TypeParts DEF Crash, RequestsSound, Sound
  <2>2. QED
    BY <1>2, <2>1, TypeParts, TypePartsNext DEF Crash, RequestsSound, tables, ghosts
<1>3. CASE UNCHANGED vars
  BY <1>3, TypeParts, TypePartsNext DEF vars, tables, ghosts
<1>4. QED
  BY <1>1, <1>2, <1>3, AcceptTyped, ContinueTyped DEF Next

\* Accounts, histories and copies keep their types in every interleaving; no
\* password is remembered of an account that is gone; and no request writes or
\* records for an account that it has not read (user_repository.go, Update;
\* password_policy_service.go, RecordPasswordChange, whose insert needs the
\* account to be there).
THEOREM AccountsTypeCorrect == Spec => []TypeOK
<1>1. TypeInv => TypeOK
  BY DEF TypeInv
<1>2. QED
  BY <1>1, InitTyped, NextTyped, PTL DEF Spec

-------------------------------------------------------------------------------
(***************************************************************************)
(* No account is half of one state and half of another.                    *)
(***************************************************************************)
Whole(row) ==
    /\ row.password = Temporary => row.temp
    /\ row.locked => row.until = 0
    /\ row.until # 0 => row.failed > 0

\* Nor is the copy that a request will write; one that will count an attempt
\* was read from an account that nobody had locked.
WholeCopy(r) ==
    /\ r.pc \in {"insert", "record", "prune", "count", "check", "write"} => Whole(r.row)
    /\ r.pc = "count" => ~r.row.locked /\ r.row.failed > 0

TornInv == NeverTorn /\ \A p \in Request : WholeCopy(req[p])

LEMMA TornParts ==
    ASSUME \A u \in Account' : Whole(users'[u]), \A p \in Request : WholeCopy(req'[p])
    PROVE  TornInv'
BY DEF TornInv, NeverTorn, Whole, WholeCopy

LEMMA AcceptedWhole ==
    ASSUME TypeInv, NeverTorn, NEW p \in Request, NEW r \in Local, Accepted(p, r)
    PROVE  WholeCopy(r)
<1>1. CASE Registers(r)
  BY <1>1, AccountsAssumption DEF Registers, WholeCopy, Whole, NewRow
<1>2. CASE Governs(r)
  BY <1>2 DEF Governs, WholeCopy
<1>3. CASE \E u \in Account : Copies(r, u)
  <2>1. PICK u \in Account : Copies(r, u)
    BY <1>3
  <2>2. users[u] \in UserRow /\ Whole(users[u])
    BY RowTypes DEF NeverTorn, Whole
  <2>3. CASE Attempts(r, users[u])
    <3>1. CASE r.op = "login"
      BY <2>2, <2>3, <3>1 DEF Attempts, WholeCopy, Whole, UserRow
    <3>2. CASE r.op = "wrong"
      <4>1. /\ r.row = [users[u] EXCEPT !.failed = @ + 1] /\ ~users[u].locked
            /\ users[u].failed \in Nat
        BY <2>2, <2>3, <3>2 DEF Attempts, UserRow
      <4>2. /\ r.row.password = users[u].password /\ r.row.temp = users[u].temp
            /\ ~r.row.locked /\ r.row.failed = users[u].failed + 1
        BY <2>2, <4>1 DEF UserRow
      <4>3. QED
        BY <2>2, <4>1, <4>2 DEF WholeCopy, Whole
    <3>3. QED
      BY <2>3, <3>1, <3>2 DEF Attempts
  <2>4. CASE Edits(r, users[u])
    BY <2>2, <2>4, AccountsAssumption DEF Edits, SameLock, WholeCopy, Whole
  <2>5. CASE Locks(r, users[u])
    BY <2>2, <2>5 DEF Locks, WholeCopy, Whole, UserRow
  <2>6. QED
    BY <2>1, <2>3, <2>4, <2>5 DEF Copies
<1>4. QED
  BY <1>1, <1>2, <1>3 DEF Accepted

\* One request takes a step; what it holds then is whole.
LEMMA CopiesWhole ==
    ASSUME TypeInv, TornInv, NEW p \in Request, NEW r, WholeCopy(r),
           req' = [req EXCEPT ![p] = r]
    PROVE  \A q \in Request : WholeCopy(req'[q])
BY TypeParts DEF TornInv

LEMMA AdvanceWhole ==
    ASSUME TypeInv, TornInv, NEW p \in Request, NEW pc \in {"cache", "record", "prune", "write"},
           Advance(p, pc), pc # "cache" => Whole(req[p].row)
    PROVE  \A q \in Request : WholeCopy(req'[q])
<1> DEFINE r == [req[p] EXCEPT !.pc = pc]
<1>1. r.pc = pc /\ r.row = req[p].row
  BY TypeParts DEF Local
<1>2. req' = [req EXCEPT ![p] = r]
  BY DEF Advance
<1> HIDE DEF r
<1>3. WholeCopy(r)
  BY <1>1 DEF WholeCopy
<1>4. QED
  BY <1>2, <1>3, CopiesWhole

LEMMA ReturnWhole ==
    ASSUME TypeInv, TornInv, NEW p \in Request, Return(p)
    PROVE  \A q \in Request : WholeCopy(req'[q])
<1>1. WholeCopy(Idle)
  BY DEF WholeCopy, Idle
<1>2. QED
  BY <1>1, CopiesWhole DEF Return

\* The table changes by writing a whole row, or losing one.
LEMMA AccountsWhole ==
    ASSUME TypeInv, TornInv, NEW u \in User, NEW row,
           users' = users \/ users' = [users EXCEPT ![u] = row],
           Whole(row) \/ ~InTable(row)
    PROVE  \A v \in Account' : Whole(users'[v])
<1>1. SUFFICES ASSUME NEW v \in Account' PROVE Whole(users'[v])
  OBVIOUS
<1>2. v \in User /\ InTable(users'[v])
  BY <1>1 DEF Account, HasUser
<1>3. CASE users'[v] = users[v]
  BY <1>2, <1>3 DEF TornInv, NeverTorn, Whole, Account, HasUser
<1>4. CASE users'[v] # users[v]
  BY <1>2, <1>4, TypeParts
<1>5. QED
  BY <1>3, <1>4

LEMMA ContinueWhole ==
    ASSUME TypeInv, TornInv, NEW p \in Request, Continue(p)
    PROVE  TornInv'
<1>0. /\ req[p] \in Local /\ WholeCopy(req[p]) /\ Sound(req[p])
      /\ \A u \in Account : Whole(users[u])
  BY TypeParts DEF TornInv, NeverTorn, Whole
<1>1. CASE Create(p)
  <2>1. Whole(req[p].row)
    BY <1>0, <1>1 DEF Create, Continues, WholeCopy
  <2>2. CASE Return(p) /\ UNCHANGED <<users, used>>
    BY <1>0, <2>2, ReturnWhole, TornParts DEF Account, HasUser
  <2>3. CASE \E u \in NewUsers :
               /\ users' = [users EXCEPT ![u] = req[p].row]
               /\ used' = [used EXCEPT ![u] = <<req[p].row.password>>]
               /\ req' = [req EXCEPT ![p].pc = "record", ![p].user = u]
    <3>1. PICK u \in NewUsers :
               /\ users' = [users EXCEPT ![u] = req[p].row]
               /\ req' = [req EXCEPT ![p].pc = "record", ![p].user = u]
      BY <2>3
    <3>2. \A v \in Account' : Whole(users'[v])
      BY <2>1, <3>1, AccountsWhole DEF NewUsers
    <3> DEFINE r == [req[p] EXCEPT !.pc = "record", !.user = u]
    <3>3. r.pc = "record" /\ r.row = req[p].row
      BY <1>0 DEF Local
    <3>4. req' = [req EXCEPT ![p] = r]
      BY <3>1
    <3> HIDE DEF r
    <3>5. WholeCopy(r)
      BY <2>1, <3>3 DEF WholeCopy
    <3>6. QED
      BY <3>2, <3>4, <3>5, CopiesWhole, TornParts
  <2>4. QED
    BY <1>1, <2>2, <2>3 DEF Create
<1>2. CASE CountAttempt(p)
  <2>1. /\ req[p].row \in UserRow /\ Whole(req[p].row)
        /\ ~req[p].row.locked /\ req[p].row.failed > 0
    BY <1>0, <1>2 DEF CountAttempt, Continues, WholeCopy, Sound
  <2> DEFINE until == IF ShouldLockAccount(req[p].row.failed, req[p].row.member)
                      THEN CalculateLockoutTime ELSE req[p].row.until
             r == [req[p] EXCEPT !.pc = "write", !.row.until = until]
  <2>2. req' = [req EXCEPT ![p] = r]
    BY <1>2 DEF CountAttempt
  <2> HIDE DEF until
  <2>3. r.pc = "write" /\ r.row = [req[p].row EXCEPT !.until = until]
    BY <1>0 DEF Local
  <2> HIDE DEF r
  <2>4. WholeCopy(r)
    BY <2>1, <2>3 DEF WholeCopy, Whole, UserRow
  <2>5. \A q \in Request : WholeCopy(req'[q])
    BY <2>2, <2>4, CopiesWhole
  <2>6. QED
    BY <1>0, <1>2, <2>5, TornParts DEF CountAttempt, tables, Account, HasUser
<1>3. CASE CheckChange(p)
  <2>1. Whole(req[p].row)
    BY <1>0, <1>3 DEF CheckChange, Continues, WholeCopy
  <2>2. \A q \in Request : WholeCopy(req'[q])
    BY <1>3, <2>1, AdvanceWhole, ReturnWhole DEF CheckChange
  <2>3. QED
    BY <1>0, <1>3, <2>2, TornParts DEF CheckChange, tables, Account, HasUser
<1>4. CASE DeleteRow(p)
  <2>1. req[p].user \in User
    BY <1>0, <1>4 DEF DeleteRow, Continues, Sound
  <2>2. \A v \in Account' : Whole(users'[v])
    BY <1>4, <2>1, RowsInTable, AccountsWhole DEF DeleteRow
  <2>3. QED
    BY <1>4, <2>2, ReturnWhole, TornParts DEF DeleteRow
<1>5. CASE RecordPasswordChange(p)
  <2>1. Whole(req[p].row)
    BY <1>0, <1>5 DEF RecordPasswordChange, Continues, WholeCopy
  <2>2. \A q \in Request : WholeCopy(req'[q])
    BY <1>5, <2>1, AdvanceWhole, ReturnWhole DEF RecordPasswordChange, Resumes
  <2>3. QED
    BY <1>0, <1>5, <2>2, TornParts DEF RecordPasswordChange, Account, HasUser
<1>6. CASE WriteUser(p)
  <2>1. Whole(req[p].row) /\ req[p].user \in User
    BY <1>0, <1>6 DEF WriteUser, Continues, WholeCopy, Sound
  <2>2. \A q \in Request : WholeCopy(req'[q])
    BY <1>6, <2>1, AdvanceWhole, ReturnWhole DEF WriteUser
  <2>3. users' = users \/ users' = [users EXCEPT ![req[p].user] = req[p].row]
    BY <1>6 DEF WriteUser
  <2>4. \A v \in Account' : Whole(users'[v])
    BY <2>1, <2>3, AccountsWhole
  <2>5. QED
    BY <2>2, <2>4, TornParts
<1>7. CASE UpsertForOrg(p)
  <2>1. \A q \in Request : WholeCopy(req'[q])
    BY <1>7, AdvanceWhole DEF UpsertForOrg
  <2>2. QED
    BY <1>0, <1>7, <2>1, TornParts DEF UpsertForOrg, Account, HasUser
<1>8. CASE SetCache(p)
  BY <1>0, <1>8, ReturnWhole, TornParts DEF SetCache, tables, Account, HasUser
<1>9. CASE PruneHistory(p)
  <2>1. Whole(req[p].row)
    BY <1>0, <1>9 DEF PruneHistory, Continues, WholeCopy
  <2>2. \A q \in Request : WholeCopy(req'[q])
    BY <1>9, <2>1, AdvanceWhole, ReturnWhole DEF PruneHistory, Resumes
  <2>3. QED
    BY <1>0, <1>9, <2>2, TornParts DEF PruneHistory, Account, HasUser
<1>10. QED
  BY <1>1, <1>2, <1>3, <1>4, <1>5, <1>6, <1>7, <1>8, <1>9 DEF Continue

\* In every interleaving and after every crash, an account with a generated
\* password must change it, one that staff have locked has no lockout running
\* beside the lock, and a lockout comes with the attempts it is for: handlers
\* write rows that they have read as a whole (user_repository.go, Update).
THEOREM AccountsAreNeverTorn == Spec => []NeverTorn
<1>1. Init => TornInv
  <2> SUFFICES ASSUME Init PROVE TornInv
    OBVIOUS
  <2>1. PICK email \in Email :
          users = [u \in User |-> IF u = Owner
                      THEN NewRow(email, TRUE, "admin", FALSE, Temporary, TRUE) ELSE Unused]
    BY DEF Init
  <2>2. NeverTorn
    BY <2>1, RowsInTable DEF NeverTorn, Account, HasUser, NewRow
  <2>3. \A p \in Request : WholeCopy(req[p])
    BY DEF Init, WholeCopy, Idle
  <2>4. QED
    BY <2>2, <2>3 DEF TornInv
<1>2. TypeInv /\ TornInv /\ [Next]_vars => TornInv'
  <2> SUFFICES ASSUME TypeInv, TornInv, [Next]_vars PROVE TornInv'
    OBVIOUS
  <2>1. \A u \in Account : Whole(users[u])
    BY DEF TornInv, NeverTorn, Whole
  <2>2. CASE Tick \/ UNCHANGED vars
    <3>1. UNCHANGED <<users, req>>
      BY <2>2 DEF Tick, vars, tables
    <3>2. QED
      BY <2>1, <3>1, TornParts DEF TornInv, Account, HasUser
  <2>3. CASE Crash
    <3>1. \A p \in Request : WholeCopy(req'[p])
      BY <2>3 DEF Crash, WholeCopy, Idle
    <3>2. QED
      BY <2>1, <2>3, <3>1, TornParts DEF Crash, tables, Account, HasUser
  <2>4. ASSUME NEW p \in Request, Accept(p) PROVE TornInv'
    <3>1. PICK r \in Local : Accepted(p, r)
      BY <2>4, AcceptIs
    <3>2. WholeCopy(r) /\ req' = [req EXCEPT ![p] = r] /\ UNCHANGED users
      BY <3>1, AcceptedWhole DEF TornInv, Accepted, Starts, tables
    <3>3. QED
      BY <2>1, <3>2, CopiesWhole, TornParts DEF Account, HasUser
  <2>5. QED
    BY <2>2, <2>3, <2>4, ContinueWhole DEF Next
<1>3. TornInv => NeverTorn
  BY DEF TornInv
<1>4. QED
  BY <1>1, <1>2, <1>3, InitTyped, NextTyped, PTL DEF Spec

-------------------------------------------------------------------------------
(***************************************************************************)
(* Calm: as long as no two requests have overlapped, the one in flight     *)
(* still holds what its handler made of the account as it is.              *)
(***************************************************************************)
Alone == \A p, q \in Request : p # q => req[p] = Idle \/ req[q] = Idle

Copying(r) == \/ r.pc \in {"count", "check", "write", "delete"}
              \/ r.pc \in {"record", "prune"} /\ r.op = "edit"

Keeping == {"edit", "change", "role", "deactivate", "delete"}

\* The columns that the handlers write, and those they leave.
Kept(r, old) ==
    /\ r.op \in Keeping \cup {"login", "wrong", "lock", "unlock", "reset"}
    /\ r.pc = "count" => r.op = "wrong"
    /\ r.pc \in {"check", "record"} => r.op \in {"edit", "change"}
    /\ r.op \in {"login", "unlock", "reset"} => r.row.failed = 0
    /\ r.op = "wrong" => r.row.failed = old.failed + 1
    /\ r.op \in Keeping \cup {"lock"} => r.row.failed = old.failed
    /\ r.op \in Keeping => r.row.locked = old.locked /\ r.row.until = old.until
    /\ r.op \in {"login", "wrong"} => ~old.locked
    /\ r.op = "lock" => r.row.locked
    /\ r.op # "edit" => r.row.email = old.email
    /\ r.op \in {"edit", "change", "reset"} \/ r.row.password = old.password
    /\ r.op = "reset" => r.row.password = Temporary
    /\ r.op = "change" => r.row.password # old.password

Copied(r, table) ==
    /\ r.user \in User /\ InTable(table[r.user])
    /\ r.row.member = table[r.user].member
    /\ Differs(r, table[r.user]) /\ Kept(r, table[r.user])

CopyInv == calm =>
    /\ Alone
    /\ \A p \in Request : Copying(req[p]) => Copied(req[p], users)
    /\ \A p \in Request : req[p].pc = "insert" => req[p].op = "register"

\* Request p takes a step, and the others are not there if all is still calm.
Moves(p, r) ==
    /\ req' = [req EXCEPT ![p] = r]
    /\ calm' => calm /\ \A q \in Request \ {p} : req[q] = Idle

LEMMA CopiesKeep ==
    ASSUME TypeInv, NEW u \in Account, NEW r, Copies(r, u)
    PROVE  Copied(r, users)
<1>1. u \in User /\ users[u] \in UserRow /\ InTable(users[u]) /\ r.user = u
  BY RowTypes, RowsInTable DEF Copies
<1>2. CASE Attempts(r, users[u])
  <2>1. Kept(r, users[u])
    BY <1>1, <1>2 DEF Attempts, Kept, Keeping, UserRow
  <2>2. QED
    BY <1>1, <2>1 DEF Copied, Copies
<1>3. CASE Edits(r, users[u])
  <2>1. Kept(r, users[u])
    BY <1>3 DEF Edits, SameLock, Kept, Keeping
  <2>2. QED
    BY <1>1, <2>1 DEF Copied, Copies
<1>4. CASE Locks(r, users[u])
  <2>1. Kept(r, users[u])
    BY <1>1, <1>4 DEF Locks, Kept, Keeping, UserRow
  <2>2. QED
    BY <1>1, <2>1 DEF Copied, Copies
<1>5. QED
  BY <1>2, <1>3, <1>4 DEF Copies

LEMMA AcceptedMoves ==
    ASSUME TypeInv, NEW p \in Request, NEW r \in Local, Accepted(p, r)
    PROVE  /\ Moves(p, r) /\ req[p] = Idle
           /\ Copying(r) => Copied(r, users)
           /\ r.pc = "insert" => Registers(r)
           /\ r.pc \notin {"record", "prune"}
           /\ r.pc = "cache" => cache = NoPolicy /\ r.policy = GetByOrg
<1>1. Moves(p, r) /\ req[p] = Idle
  BY DEF Accepted, Starts, MayStart, Moves
<1>2. CASE Registers(r)
  BY <1>1, <1>2 DEF Registers, Copying
<1>3. CASE \E u \in Account : Copies(r, u)
  BY <1>1, <1>3, CopiesKeep DEF Copies, Attempts, Edits, Locks
<1>4. CASE Governs(r)
  BY <1>1, <1>4 DEF Governs, Copying
<1>5. QED
  BY <1>2, <1>3, <1>4 DEF Accepted

LEMMA LoneMoves ==
    ASSUME TypeInv, CopyInv, NEW p \in Request, req[p].pc # "idle", calm' = calm,
           NEW r, req' = [req EXCEPT ![p] = r]
    PROVE  Moves(p, r)
<1>1. req[p] # Idle
  BY DEF Idle
<1>2. QED
  BY <1>1 DEF CopyInv, Alone, Moves

LEMMA MovesAlone ==
    ASSUME TypeInv, NEW p \in Request, NEW r, Moves(p, r), calm'
    PROVE  /\ calm /\ Alone' /\ req'[p] = r
           /\ \A q \in Request : q # p => req'[q] = Idle /\ req[q] = Idle
BY TypeParts DEF Moves, Alone

LEMMA MovesCopy ==
    ASSUME TypeInv, NEW p \in Request, NEW r, Moves(p, r),
           calm' /\ Copying(r) => Copied(r, users'),
           calm' /\ r.pc = "insert" => r.op = "register"
    PROVE  CopyInv'
<1> SUFFICES ASSUME calm' PROVE CopyInv'
  BY DEF CopyInv
<1>1. /\ Alone' /\ req'[p] = r
      /\ \A q \in Request : q # p => req'[q] = Idle
  BY MovesAlone
<1>2. ~Copying(Idle) /\ Idle.pc # "insert"
  BY DEF Copying, Idle
<1>3. \A q \in Request : Copying(req'[q]) => Copied(req'[q], users')
  BY <1>1, <1>2
<1>4. \A q \in Request : req'[q].pc = "insert" => req'[q].op = "register"
  BY <1>1, <1>2
<1>5. QED
  BY <1>1, <1>3, <1>4 DEF CopyInv, Copying, Copied, Differs, Kept

\* A request that goes on without a write holds what it held.
LEMMA AdvanceCopied ==
    ASSUME TypeInv, CopyInv, calm, NEW p \in Request, Copying(req[p]),
           NEW pc \in {"record", "write"}, NEW r, r = [req[p] EXCEPT !.pc = pc],
           pc = "record" => req[p].op = "edit"
    PROVE  Copied(r, users)
<1>1. /\ r.pc = pc /\ r.op = req[p].op /\ r.user = req[p].user
      /\ r.row = req[p].row /\ r.gives = req[p].gives
  BY TypeParts DEF Local
<1>2. Copied(req[p], users)
  BY DEF CopyInv
<1>3. QED
  BY <1>1, <1>2 DEF Copied, Differs, Kept

LEMMA IdleCopied ==
    ~Copying(Idle) /\ Idle.pc \notin {"insert", "record", "prune", "write", "cache"}
BY DEF Copying, Idle

-------------------------------------------------------------------------------
(***************************************************************************)
(* What a request in flight does next, and what it holds then.             *)
(***************************************************************************)
GoesOn(r, s, pc) ==
    /\ r.pc = pc /\ r.op = s.op /\ r.user = s.user /\ r.row = s.row /\ r.gives = s.gives

Inserts(p, r) ==
    /\ req[p].pc = "insert" /\ req[p].row \in UserRow
    /\ ~EmailExists(req[p].row.email, req[p].row.member)
    /\ \E u \in NewUsers :
          /\ users' = [users EXCEPT ![u] = req[p].row]
          /\ used' = [used EXCEPT ![u] = <<req[p].row.password>>]
          /\ r.pc = "record" /\ r.op = req[p].op /\ r.user = u /\ r.row = req[p].row
    /\ UNCHANGED <<history, policy, cache, streak, missed>>

\* The statements that change no account: a request ends, counts or is checked.
Ends(p, r) == r = Idle

Attempted(p, r) ==
    /\ req[p].pc = "count" /\ req[p].row \in UserRow
    /\ r.pc = "write" /\ r.op = req[p].op /\ r.user = req[p].user /\ r.gives = req[p].gives
    /\ \E until : r.row = [req[p].row EXCEPT !.until = until]
    /\ (\A n \in Limit : r.row.failed >= n) => r.row.until # 0

ChecksOut(p, r) ==
    /\ req[p].pc = "check" /\ Acceptable(p)
    /\ \/ GoesOn(r, req[p], "record") /\ req[p].op = "edit" /\ Gives(p, "password")
       \/ GoesOn(r, req[p], "write") /\ ~(req[p].op = "edit" /\ Gives(p, "password"))

Leaves(p, r) ==
    /\ req[p].pc \notin {"record", "prune", "write"}
    /\ Ends(p, r) \/ Attempted(p, r) \/ ChecksOut(p, r)
    /\ UNCHANGED <<tables, ghosts>>
    /\ cache' = cache \/ cache' = GetPolicy(TRUE) \/ (req[p].pc = "cache" /\ cache' = req[p].policy)

Removes(p, r) ==
    /\ req[p].pc = "delete" /\ Ends(p, r) /\ req[p].user \in User
    /\ users' = [users EXCEPT ![req[p].user] = Deleted]
    /\ history' = [history EXCEPT ![req[p].user] = <<>>]
    /\ UNCHANGED <<policy, cache, ghosts>>

Resumption(p, r) ==
    IF req[p].op = "edit" THEN GoesOn(r, req[p], "write") ELSE Ends(p, r)

Records(p, r) ==
    /\ req[p].pc = "record" /\ req[p].user \in User /\ req[p].row \in UserRow
    /\ HasUser(req[p].user) /\ GoesOn(r, req[p], "prune")
    /\ history' = [history EXCEPT ![req[p].user] = Append(@, req[p].row.password)]
    /\ UNCHANGED <<users, policy, cache, ghosts>>

Forgets(p, r) ==
    /\ req[p].pc = "record" /\ req[p].user \in User /\ req[p].row \in UserRow
    /\ missed' = missed \cup {req[p].user} /\ Resumption(p, r)
    /\ UNCHANGED <<tables, cache, used, streak>>

Prunes(p, r) ==
    /\ req[p].pc = "prune" /\ req[p].user \in User /\ Resumption(p, r)
    /\ \/ history' = history
       \/ history' = [history EXCEPT ![req[p].user] = Newest(history[req[p].user])]
    /\ UNCHANGED <<users, policy, cache, ghosts>>

Writes(p, r) ==
    /\ req[p].pc = "write" /\ req[p].user \in User /\ req[p].row \in UserRow
    /\ CanWrite(p)
    /\ users' = [users EXCEPT ![req[p].user] = req[p].row]
    /\ streak' = [streak EXCEPT ![req[p].user] = StreakAfter(p)]
    /\ used' = IF Gives(p, "password") \/ req[p].op = "reset"
                 THEN [used EXCEPT ![req[p].user] = Append(@, req[p].row.password)]
                 ELSE used
    /\ IF req[p].op \in {"change", "reset"} THEN GoesOn(r, req[p], "record") ELSE Ends(p, r)
    /\ UNCHANGED <<history, policy, cache, missed>>

\* The write that matches no row, or that UNIQUE refuses.
Misses(p, r) ==
    /\ req[p].pc = "write" /\ req[p].user \in User /\ req[p].row \in UserRow
    /\ ~CanWrite(p)
    /\ \/ Ends(p, r)
       \/ /\ req[p].op \in {"change", "reset"} /\ GoesOn(r, req[p], "record")
          /\ ~HasUser(req[p].user) \/ ~req[p].row.member
    /\ UNCHANGED <<tables, ghosts, cache>>

Decides(p, r) ==
    /\ req[p].pc = "upsert" /\ r.pc = "cache" /\ r.policy = req[p].policy
    /\ policy' = req[p].policy
    /\ UNCHANGED <<users, history, cache, ghosts>>

GoesAhead(p, r) ==
    \/ Inserts(p, r) \/ Leaves(p, r) \/ Removes(p, r) \/ Records(p, r)
    \/ Forgets(p, r) \/ Prunes(p, r) \/ Writes(p, r) \/ Misses(p, r) \/ Decides(p, r)

LEMMA AdvanceMoves ==
    ASSUME TypeInv, CopyInv, NEW p \in Request, req[p].pc # "idle", calm' = calm,
           NEW pc, Advance(p, pc)
    PROVE  Moves(p, [req[p] EXCEPT !.pc = pc]) /\ GoesOn([req[p] EXCEPT !.pc = pc], req[p], pc)
           /\ [req[p] EXCEPT !.pc = pc].policy = req[p].policy
<1> DEFINE r == [req[p] EXCEPT !.pc = pc]
<1>1. GoesOn(r, req[p], pc) /\ r.policy = req[p].policy
  BY TypeParts DEF GoesOn, Local
<1>2. req' = [req EXCEPT ![p] = r]
  BY DEF Advance
<1> HIDE DEF r
<1>3. Moves(p, r)
  BY <1>2, LoneMoves
<1>4. QED
  BY <1>1, <1>3 DEF r

LEMMA ContinueIs ==
    ASSUME TypeInv, CopyInv, NEW p \in Request, Continue(p)
    PROVE  \E r : Moves(p, r) /\ GoesAhead(p, r) /\ calm' = calm /\ now' = now
<1>0. /\ Sound(req[p]) /\ req[p].pc # "idle" /\ req[p] \in Local
      /\ calm' = calm /\ now' = now
  BY TypeParts DEF Continue, Create, CountAttempt, CheckChange, DeleteRow,
     RecordPasswordChange, PruneHistory, Resumes, WriteUser, UpsertForOrg, SetCache, Continues
<1>1. Return(p) => Moves(p, Idle)
  BY <1>0, LoneMoves DEF Return
<1>11. Resumes(p) => \E r : Moves(p, r) /\ Resumption(p, r)
  <2>1. CASE req[p].op = "edit" /\ Advance(p, "write")
    <3>1. PICK r : Moves(p, r) /\ GoesOn(r, req[p], "write")
      BY <1>0, <2>1, AdvanceMoves
    <3>2. QED
      BY <2>1, <3>1 DEF Resumption
  <2>2. CASE req[p].op # "edit" /\ Return(p)
    BY <1>1, <2>2 DEF Resumption, Ends
  <2>3. QED
    BY <2>1, <2>2 DEF Resumes
<1>2. CASE Create(p)
  <2>1. req[p].pc = "insert" /\ req[p].row \in UserRow
    BY <1>0, <1>2 DEF Create, Continues, Sound
  <2>2. CASE Return(p) /\ UNCHANGED <<users, used>>
    <3>1. Leaves(p, Idle)
      BY <1>2, <2>1, <2>2 DEF Create, Leaves, Ends, tables, ghosts
    <3>2. QED
      BY <1>0, <1>1, <2>2, <3>1 DEF GoesAhead
  <2>3. CASE /\ ~(EmailExists(req[p].row.email, req[p].row.member) \/ NewUsers = {})
             /\ \E u \in NewUsers :
                  /\ users' = [users EXCEPT ![u] = req[p].row]
                  /\ used' = [used EXCEPT ![u] = <<req[p].row.password>>]
                  /\ req' = [req EXCEPT ![p].pc = "record", ![p].user = u]
    <3>1. PICK u \in NewUsers :
                  /\ users' = [users EXCEPT ![u] = req[p].row]
                  /\ used' = [used EXCEPT ![u] = <<req[p].row.password>>]
                  /\ req' = [req EXCEPT ![p].pc = "record", ![p].user = u]
      BY <2>3
    <3> DEFINE r == [req[p] EXCEPT !.pc = "record", !.user = u]
    <3>2. r.pc = "record" /\ r.op = req[p].op /\ r.user = u /\ r.row = req[p].row
      BY <1>0 DEF Local
    <3>3. req' = [req EXCEPT ![p] = r]
      BY <3>1
    <3> HIDE DEF r
    <3>4. Moves(p, r)
      BY <1>0, <3>3, LoneMoves
    <3>5. Inserts(p, r)
      BY <1>2, <2>1, <2>3, <3>1, <3>2 DEF Inserts, Create
    <3>6. QED
      BY <1>0, <3>4, <3>5 DEF GoesAhead
  <2>4. QED
    BY <1>2, <2>2, <2>3 DEF Create
<1>3. CASE CountAttempt(p)
  <2>1. req[p].pc = "count" /\ req[p].row \in UserRow
    BY <1>0, <1>3 DEF CountAttempt, Continues, Sound
  <2> DEFINE until == IF ShouldLockAccount(req[p].row.failed, req[p].row.member)
                      THEN CalculateLockoutTime ELSE req[p].row.until
             r == [req[p] EXCEPT !.pc = "write", !.row.until = until]
  <2>2. req' = [req EXCEPT ![p] = r]
    BY <1>3 DEF CountAttempt
  <2>3. (\A n \in Limit : req[p].row.failed >= n) => until # 0
    <3>1. GetPolicy(req[p].row.member).limit \in Limit
      BY <2>1, PolicyTypes DEF UserRow
    <3>2. CalculateLockoutTime # 0
      BY TypeParts, AccountsAssumption DEF CalculateLockoutTime
    <3>3. QED
      BY <3>1, <3>2 DEF ShouldLockAccount
  <2> HIDE DEF until
  <2>4. /\ r.pc = "write" /\ r.op = req[p].op /\ r.user = req[p].user
        /\ r.gives = req[p].gives /\ r.row = [req[p].row EXCEPT !.until = until]
    BY <1>0 DEF Local
  <2> HIDE DEF r
  <2>5. r.row.until = until /\ r.row.failed = req[p].row.failed
    BY <2>1, <2>4 DEF UserRow
  <2>6. Attempted(p, r)
    BY <2>1, <2>3, <2>4, <2>5 DEF Attempted
  <2>7. Moves(p, r)
    BY <1>0, <2>2, LoneMoves
  <2>8. cache' = cache \/ cache' = GetPolicy(TRUE)
    BY <1>3 DEF CountAttempt, Consults
  <2>9. QED
    BY <1>0, <1>3, <2>1, <2>6, <2>7, <2>8 DEF GoesAhead, Leaves, CountAttempt
<1>4. CASE CheckChange(p)
  <2>1. req[p].pc = "check" /\ UNCHANGED <<tables, ghosts>>
    BY <1>4 DEF CheckChange, Continues
  <2>2. cache' = cache \/ cache' = GetPolicy(TRUE)
    BY <1>4 DEF CheckChange, Consults
  <2>3. CASE Return(p)
    BY <1>0, <1>1, <2>1, <2>2, <2>3 DEF GoesAhead, Leaves, Ends
  <2>4. CASE Acceptable(p) /\ ~Gives(p, "password") /\ Advance(p, "write")
    <3>1. PICK r : Moves(p, r) /\ GoesOn(r, req[p], "write")
      BY <1>0, <2>4, AdvanceMoves
    <3>2. ChecksOut(p, r)
      BY <2>1, <2>4, <3>1 DEF ChecksOut
    <3>3. QED
      BY <1>0, <2>1, <2>2, <3>1, <3>2 DEF GoesAhead, Leaves
  <2>5. CASE Acceptable(p) /\ Gives(p, "password") /\ req[p].op # "edit" /\ Advance(p, "write")
    <3>1. PICK r : Moves(p, r) /\ GoesOn(r, req[p], "write")
      BY <1>0, <2>5, AdvanceMoves
    <3>2. ChecksOut(p, r)
      BY <2>1, <2>5, <3>1 DEF ChecksOut
    <3>3. QED
      BY <1>0, <2>1, <2>2, <3>1, <3>2 DEF GoesAhead, Leaves
  <2>6. CASE Acceptable(p) /\ Gives(p, "password") /\ req[p].op = "edit" /\ Advance(p, "record")
    <3>1. PICK r : Moves(p, r) /\ GoesOn(r, req[p], "record")
      BY <1>0, <2>6, AdvanceMoves
    <3>2. ChecksOut(p, r)
      BY <2>1, <2>6, <3>1 DEF ChecksOut
    <3>3. QED
      BY <1>0, <2>1, <2>2, <3>1, <3>2 DEF GoesAhead, Leaves
  <2>7. QED
    BY <1>4, <2>3, <2>4, <2>5, <2>6 DEF CheckChange
<1>5. CASE DeleteRow(p)
  <2>1. /\ req[p].pc = "delete" /\ req[p].user \in User /\ Return(p)
        /\ UNCHANGED <<policy, cache, ghosts>>
    BY <1>0, <1>5 DEF DeleteRow, Continues, Sound
  <2>2. CASE UNCHANGED <<users, history>>
    <3>1. Leaves(p, Idle)
      BY <2>1, <2>2 DEF Leaves, Ends, tables
    <3>2. QED
      BY <1>0, <1>1, <2>1, <3>1 DEF GoesAhead
  <2>3. CASE /\ users' = [users EXCEPT ![req[p].user] = Deleted]
             /\ history' = [history EXCEPT ![req[p].user] = <<>>]
    <3>1. Removes(p, Idle)
      BY <2>1, <2>3 DEF Removes, Ends
    <3>2. QED
      BY <1>0, <1>1, <2>1, <3>1 DEF GoesAhead
  <2>4. QED
    BY <1>5, <2>2, <2>3 DEF DeleteRow
<1>6. CASE RecordPasswordChange(p)
  <2>1. /\ req[p].pc = "record" /\ req[p].user \in User /\ req[p].row \in UserRow
        /\ UNCHANGED <<users, policy, cache, used, streak>>
    BY <1>0, <1>6 DEF RecordPasswordChange, Continues, Sound
  <2>2. CASE /\ HasUser(req[p].user) /\ Advance(p, "prune") /\ missed' = missed
             /\ history' = [history EXCEPT ![req[p].user] = Append(@, req[p].row.password)]
    <3>1. PICK r : Moves(p, r) /\ GoesOn(r, req[p], "prune")
      BY <1>0, <2>2, AdvanceMoves
    <3>2. Records(p, r)
      BY <2>1, <2>2, <3>1 DEF Records, ghosts
    <3>3. QED
      BY <1>0, <3>1, <3>2 DEF GoesAhead
  <2>3. CASE missed' = missed \cup {req[p].user} /\ Resumes(p) /\ history' = history
    <3>1. PICK r : Moves(p, r) /\ Resumption(p, r)
      BY <1>0, <1>11, <2>3
    <3>2. Forgets(p, r)
      BY <2>1, <2>3, <3>1 DEF Forgets, tables
    <3>3. QED
      BY <1>0, <3>1, <3>2 DEF GoesAhead
  <2>4. QED
    BY <1>6, <2>2, <2>3 DEF RecordPasswordChange
<1>12. CASE PruneHistory(p)
  <2>1. /\ req[p].pc = "prune" /\ req[p].user \in User /\ Resumes(p)
        /\ UNCHANGED <<users, policy, cache, ghosts>>
    BY <1>0, <1>12 DEF PruneHistory, Continues, Sound
  <2>2. \/ history' = history
        \/ history' = [history EXCEPT ![req[p].user] = Newest(history[req[p].user])]
    BY <1>12 DEF PruneHistory, DeleteOldHistory
  <2>3. PICK r : Moves(p, r) /\ Resumption(p, r)
    BY <1>0, <1>11, <2>1
  <2>4. Prunes(p, r)
    BY <2>1, <2>2, <2>3 DEF Prunes
  <2>5. QED
    BY <1>0, <2>3, <2>4 DEF GoesAhead
<1>7. CASE WriteUser(p)
  <2>1. /\ req[p].pc = "write" /\ req[p].user \in User /\ req[p].row \in UserRow
        /\ UNCHANGED <<history, policy, cache, missed>>
    BY <1>0, <1>7 DEF WriteUser, Continues, Sound
  <2>2. CASE CanWrite(p)
    <3>1. /\ users' = [users EXCEPT ![req[p].user] = req[p].row]
          /\ streak' = [streak EXCEPT ![req[p].user] = StreakAfter(p)]
          /\ used' = IF Gives(p, "password") \/ req[p].op = "reset"
                       THEN [used EXCEPT ![req[p].user] = Append(@, req[p].row.password)]
                       ELSE used
          /\ IF req[p].op \in {"change", "reset"} THEN Advance(p, "record") ELSE Return(p)
      BY <1>7, <2>2 DEF WriteUser
    <3>2. CASE req[p].op \in {"change", "reset"}
      <4>1. PICK r : Moves(p, r) /\ GoesOn(r, req[p], "record")
        BY <1>0, <3>1, <3>2, AdvanceMoves
      <4>2. Writes(p, r)
        BY <2>1, <2>2, <3>1, <3>2, <4>1 DEF Writes
      <4>3. QED
        BY <1>0, <4>1, <4>2 DEF GoesAhead
    <3>3. CASE ~(req[p].op \in {"change", "reset"})
      <4>1. Writes(p, Idle) /\ Moves(p, Idle)
        BY <1>1, <2>1, <2>2, <3>1, <3>3 DEF Writes, Ends
      <4>2. QED
        BY <1>0, <4>1 DEF GoesAhead
    <3>4. QED
      BY <3>2, <3>3
  <2>3. CASE ~CanWrite(p)
    <3>1. UNCHANGED <<tables, ghosts, cache>>
      BY <1>7, <2>1, <2>3 DEF WriteUser, tables
    <3>2. CASE Return(p)
      <4>1. Misses(p, Idle)
        BY <2>1, <2>3, <3>1 DEF Misses, Ends
      <4>2. QED
        BY <1>0, <1>1, <3>2, <4>1 DEF GoesAhead
    <3>3. CASE /\ req[p].op \in {"change", "reset"} /\ Advance(p, "record")
               /\ ~HasUser(req[p].user) \/ ~req[p].row.member
      <4>1. PICK r : Moves(p, r) /\ GoesOn(r, req[p], "record")
        BY <1>0, <3>3, AdvanceMoves
      <4>2. Misses(p, r)
        BY <2>1, <2>3, <3>1, <3>3, <4>1 DEF Misses
      <4>3. QED
        BY <1>0, <4>1, <4>2 DEF GoesAhead
    <3>4. QED
      BY <1>7, <2>3, <3>2, <3>3 DEF WriteUser
  <2>4. QED
    BY <2>2, <2>3
<1>8. CASE UpsertForOrg(p)
  <2>1. PICK r : Moves(p, r) /\ GoesOn(r, req[p], "cache") /\ r.policy = req[p].policy
    BY <1>0, <1>8, AdvanceMoves DEF UpsertForOrg
  <2>2. Decides(p, r)
    BY <1>8, <2>1 DEF UpsertForOrg, Continues, Decides, GoesOn
  <2>3. QED
    BY <1>0, <2>1, <2>2 DEF GoesAhead
<1>9. CASE SetCache(p)
  <2>1. Leaves(p, Idle) /\ Return(p)
    BY <1>9 DEF SetCache, Continues, Leaves, Ends
  <2>2. QED
    BY <1>0, <1>1, <2>1 DEF GoesAhead
<1>10. QED
  BY <1>2, <1>3, <1>4, <1>5, <1>6, <1>7, <1>8, <1>9, <1>12 DEF Continue

-------------------------------------------------------------------------------
(***************************************************************************)
(* In calm the copies hold, and so do the locks and the policy.            *)
(***************************************************************************)
LEMMA GoesAheadCopied ==
    ASSUME TypeInv, CopyInv, NEW p \in Request, NEW r, Moves(p, r), GoesAhead(p, r)
    PROVE  CopyInv'
<1> SUFFICES ASSUME calm' PROVE CopyInv'
  BY DEF CopyInv
<1>0. /\ calm /\ req[p] \in Local
      /\ Copying(req[p]) => Copied(req[p], users)
      /\ req[p].pc = "insert" => req[p].op = "register"
  BY TypeParts, MovesAlone DEF CopyInv
<1>1. CASE Inserts(p, r)
  <2>1. ~Copying(r) /\ r.pc # "insert"
    BY <1>0, <1>1 DEF Inserts, Copying
  <2>2. QED
    BY <2>1, MovesCopy
<1>2. CASE Leaves(p, r)
  <2>0. users' = users
    BY <1>2 DEF Leaves, tables
  <2>1. CASE Ends(p, r)
    BY <2>1, IdleCopied, MovesCopy DEF Ends
  <2>2. CASE Attempted(p, r)
    <3>1. Copied(req[p], users) /\ req[p].op = "wrong" /\ req[p].row \in UserRow
      BY <1>0, <2>2 DEF Attempted, Copying, Copied, Kept
    <3>2. PICK until : r.row = [req[p].row EXCEPT !.until = until]
      BY <2>2 DEF Attempted
    <3>3. /\ r.row.member = req[p].row.member /\ r.row.failed = req[p].row.failed
          /\ r.row.email = req[p].row.email /\ r.row.password = req[p].row.password
      BY <3>1, <3>2 DEF UserRow
    <3>4. /\ r.pc = "write" /\ r.op = req[p].op /\ r.user = req[p].user
          /\ r.gives = req[p].gives
      BY <2>2 DEF Attempted
    <3>5. Copied(r, users)
      BY <3>1, <3>3, <3>4 DEF Copied, Differs, Kept, Keeping
    <3>6. QED
      BY <2>0, <3>4, <3>5, MovesCopy
  <2>3. CASE ChecksOut(p, r)
    <3>1. Copied(req[p], users)
      BY <1>0, <2>3 DEF ChecksOut, Copying
    <3>2. r.pc \in {"write", "record"} /\ GoesOn(r, req[p], r.pc)
          /\ (r.pc = "record" => req[p].op = "edit")
      BY <2>3 DEF ChecksOut, GoesOn
    <3>3. Copied(r, users)
      BY <3>1, <3>2 DEF Copied, Differs, Kept, GoesOn
    <3>4. QED
      BY <2>0, <3>2, <3>3, MovesCopy
  <2>4. QED
    BY <1>2, <2>1, <2>2, <2>3 DEF Leaves
<1>3. CASE Removes(p, r)
  BY <1>3, IdleCopied, MovesCopy DEF Removes, Ends
<1>4. CASE Records(p, r)
  <2>1. users' = users /\ GoesOn(r, req[p], "prune") /\ req[p].pc = "record"
    BY <1>4 DEF Records
  <2>2. Copying(r) => Copied(r, users)
    BY <1>0, <2>1 DEF Copying, Copied, Differs, Kept, GoesOn
  <2>3. QED
    BY <2>1, <2>2, MovesCopy DEF GoesOn
<1>8. CASE Forgets(p, r) \/ Prunes(p, r)
  <2>1. users' = users /\ Resumption(p, r) /\ req[p].pc \in {"record", "prune"}
    BY <1>8 DEF Forgets, Prunes, tables
  <2>2. CASE req[p].op = "edit"
    <3>1. Copied(req[p], users) /\ GoesOn(r, req[p], "write")
      BY <1>0, <2>1, <2>2 DEF Resumption, Copying
    <3>2. Copied(r, users)
      BY <2>2, <3>1 DEF Copied, Differs, Kept, GoesOn
    <3>3. QED
      BY <2>1, <3>1, <3>2, MovesCopy DEF GoesOn
  <2>3. CASE req[p].op # "edit"
    BY <2>1, <2>3, IdleCopied, MovesCopy DEF Resumption, Ends
  <2>4. QED
    BY <2>2, <2>3
<1>5. CASE Writes(p, r) \/ Misses(p, r)
  <2>1. r = Idle \/ (GoesOn(r, req[p], "record") /\ req[p].op \in {"change", "reset"})
    BY <1>5 DEF Writes, Misses, Ends
  <2>2. ~Copying(r) /\ r.pc # "insert"
    BY <2>1, IdleCopied DEF Copying, GoesOn
  <2>3. QED
    BY <2>2, MovesCopy
<1>6. CASE Decides(p, r)
  <2>1. ~Copying(r) /\ r.pc # "insert"
    BY <1>6 DEF Decides, Copying
  <2>2. QED
    BY <2>1, MovesCopy
<1>7. QED
  BY <1>1, <1>2, <1>3, <1>4, <1>5, <1>6, <1>8 DEF GoesAhead

LEMMA InitCopies == Init => CopyInv
BY IdleCopied DEF Init, CopyInv, Alone

\* All is calm after a crash only if it cut nothing short.
LEMMA CrashIsCalm ==
    ASSUME Crash, calm'
    PROVE  calm /\ \A p \in Request : req'[p] = Idle
BY DEF Crash

LEMMA CopyNext == TypeInv /\ CopyInv /\ [Next]_vars => CopyInv'
<1> SUFFICES ASSUME TypeInv, CopyInv, [Next]_vars PROVE CopyInv'
  OBVIOUS
<1>1. CASE Tick \/ UNCHANGED vars
  <2>1. UNCHANGED <<users, req, calm>>
    BY <1>1 DEF Tick, vars, tables
  <2>2. QED
    BY <2>1 DEF CopyInv, Alone, Copying, Copied, Differs, Kept
<1>2. CASE Crash
  BY <1>2, IdleCopied, CrashIsCalm DEF CopyInv, Alone
<1>3. ASSUME NEW p \in Request, Accept(p) PROVE CopyInv'
  <2>1. PICK r \in Local : Accepted(p, r)
    BY <1>3, AcceptIs
  <2>2. users' = users
    BY <2>1 DEF Accepted, tables
  <2>3. /\ Moves(p, r)
        /\ Copying(r) => Copied(r, users')
        /\ r.pc = "insert" => r.op = "register"
    BY <2>1, <2>2, AcceptedMoves DEF Registers
  <2>4. QED
    BY <2>3, MovesCopy
<1>4. ASSUME NEW p \in Request, Continue(p) PROVE CopyInv'
  BY <1>4, ContinueIs, GoesAheadCopied
<1>5. QED
  BY <1>1, <1>2, <1>3, <1>4 DEF Next

LEMMA AlwaysCopied == Spec => []CopyInv
BY InitTyped, NextTyped, InitCopies, CopyNext, PTL DEF Spec

\* What staff have locked, in calm only Unlock and ResetPassword unlock
\* (user_service.go): every other handler that writes the account writes back
\* the lock it has read, or has read that there was none.
THEOREM LocksAlwaysHold == Spec => LockHolds
<1>1. TypeInv /\ CopyInv /\ [Next]_vars => [calm' => KeepsLocks]_vars
  <2> SUFFICES ASSUME TypeInv, CopyInv, Next, calm' PROVE KeepsLocks
    BY DEF vars
  <2>0. ASSUME users' = users PROVE KeepsLocks
    BY <2>0 DEF KeepsLocks
  <2>1. CASE Tick \/ Crash
    BY <2>0, <2>1 DEF Tick, Crash, tables
  <2>2. ASSUME NEW p \in Request, Accept(p) PROVE KeepsLocks
    BY <2>0, <2>2, AcceptIs DEF Accepted, tables
  <2>3. ASSUME NEW p \in Request, Continue(p) PROVE KeepsLocks
    <3>1. PICK r : Moves(p, r) /\ GoesAhead(p, r)
      BY <2>3, ContinueIs
    <3>2. CASE Inserts(p, r)
      <4>1. PICK u \in NewUsers : users' = [users EXCEPT ![u] = req[p].row]
        BY <3>2 DEF Inserts
      <4>2. u \notin Account
        BY RowsInTable DEF NewUsers, Account, HasUser
      <4>3. \A v \in Account : users'[v] = users[v]
        BY <4>1, <4>2, TypeParts DEF Account
      <4>4. QED
        BY <4>3 DEF KeepsLocks
    <3>3. CASE Removes(p, r)
      <4>1. \A v \in Account : users'[v] = users[v] \/ ~InTable(users'[v])
        BY <3>3, RowsInTable, TypeParts DEF Removes, Account
      <4>2. QED
        BY <4>1 DEF KeepsLocks
    <3>4. CASE Writes(p, r)
      <4> DEFINE u == req[p].user
      <4>1. /\ u \in User /\ users' = [users EXCEPT ![u] = req[p].row] /\ req[p].pc = "write"
        BY <3>4 DEF Writes
      <4>2. Kept(req[p], users[u])
        BY <3>1, <4>1, MovesAlone DEF CopyInv, Copying, Copied
      <4>3. req'[p] # req[p]
        BY <3>1, <3>4, <4>1, MovesAlone DEF Writes, Ends, GoesOn, Idle
      <4>4. SUFFICES ASSUME NEW v \in Account, users[v].locked, ~users'[v].locked
                     PROVE  Lifts(p)
        BY <4>3 DEF KeepsLocks
      <4>5. v = u /\ ~req[p].row.locked
        BY <4>1, <4>4, TypeParts DEF Account
      <4>6. req[p].op \in {"unlock", "reset"}
        BY <4>2, <4>4, <4>5 DEF Kept, Keeping
      <4>7. QED
        BY <4>1, <4>6 DEF Lifts
    <3>5. CASE \/ Leaves(p, r) \/ Records(p, r) \/ Forgets(p, r) \/ Prunes(p, r)
               \/ Misses(p, r) \/ Decides(p, r)
      BY <2>0, <3>5 DEF Leaves, Records, Forgets, Prunes, Misses, Decides, tables
    <3>6. QED
      BY <3>1, <3>2, <3>3, <3>4, <3>5 DEF GoesAhead
  <2>4. QED
    BY <2>1, <2>2, <2>3 DEF Next
<1>2. QED
  BY <1>1, InitTyped, NextTyped, AlwaysCopied, PTL DEF Spec, LockHolds

\* What a request is about to put into the cache is the policy of the table;
\* when none is about to, that is what the cache holds.
CacheInv == calm =>
    /\ \A p \in Request : req[p].pc = "cache" => req[p].policy = GetByOrg
    /\ (\A p \in Request : req[p].pc # "cache") => cache \in {NoPolicy, GetByOrg}

LEMMA MovesCached ==
    ASSUME TypeInv, NEW p \in Request, NEW r, Moves(p, r),
           calm' /\ r.pc = "cache" => r.policy = GetByOrg',
           calm' /\ r.pc # "cache" => cache' \in {NoPolicy, GetByOrg'}
    PROVE  CacheInv'
<1> SUFFICES ASSUME calm' PROVE CacheInv'
  BY DEF CacheInv
<1>1. req'[p] = r /\ \A q \in Request : q # p => req'[q] = Idle
  BY MovesAlone
<1>2. QED
  BY <1>1, IdleCopied DEF CacheInv

LEMMA CacheNext == TypeInv /\ CopyInv /\ CacheInv /\ [Next]_vars => CacheInv'
<1> SUFFICES ASSUME TypeInv, CopyInv, CacheInv, [Next]_vars PROVE CacheInv'
  OBVIOUS
<1>0. ASSUME policy' = policy PROVE GetByOrg' = GetByOrg
  BY <1>0 DEF GetByOrg, Global
<1>1. CASE Tick \/ UNCHANGED vars
  <2>1. UNCHANGED <<policy, cache, req, calm>>
    BY <1>1 DEF Tick, vars, tables
  <2>2. QED
    BY <1>0, <2>1 DEF CacheInv
<1>2. CASE Crash
  <2>1. /\ policy' = policy /\ cache' = NoPolicy
        /\ \A p \in Request : req'[p] = Idle
    BY <1>2 DEF Crash, tables
  <2>2. QED
    BY <2>1, IdleCopied DEF CacheInv
<1>3. ASSUME NEW p \in Request, Accept(p) PROVE CacheInv'
  <2>1. PICK r \in Local : Accepted(p, r)
    BY <1>3, AcceptIs
  <2>2. /\ policy' = policy /\ Moves(p, r) /\ req[p] = Idle
        /\ r.pc = "cache" => r.policy = GetByOrg
    BY <2>1, AcceptedMoves DEF Accepted, tables
  <2>3. ASSUME calm' PROVE cache' \in {NoPolicy, GetByOrg}
    <3>1. calm /\ \A q \in Request : req[q] = Idle
      BY <2>2, <2>3, MovesAlone
    <3>2. cache \in {NoPolicy, GetByOrg}
      BY <3>1, IdleCopied DEF CacheInv
    <3>3. QED
      BY <2>1, <3>2 DEF Accepted, GetPolicy
  <2>4. QED
    BY <1>0, <2>2, <2>3, MovesCached
<1>4. ASSUME NEW p \in Request, Continue(p) PROVE CacheInv'
  <2>1. PICK r : Moves(p, r) /\ GoesAhead(p, r)
    BY <1>4, ContinueIs
  <2>2. CASE Decides(p, r)
    <3>1. req[p].policy \in PolicyRow /\ NoPolicy \notin PolicyRow
      BY TypeParts, PolicyTypes DEF Local
    <3>2. GetByOrg' = req[p].policy
      BY <2>2, <3>1 DEF Decides, GetByOrg
    <3>3. QED
      BY <2>1, <2>2, <3>2, MovesCached DEF Decides
  <2>3. CASE ~Decides(p, r)
    <3>1. policy' = policy /\ r.pc # "cache"
      BY <2>1, <2>3, IdleCopied
      DEF GoesAhead, Inserts, Leaves, Removes, Records, Forgets, Prunes, Resumption, Writes,
          Misses, Ends, Attempted, ChecksOut, GoesOn, tables
    <3>2. ASSUME calm' PROVE cache' \in {NoPolicy, GetByOrg}
      <4>1. /\ req[p].pc = "cache" => req[p].policy = GetByOrg
            /\ req[p].pc # "cache" => cache \in {NoPolicy, GetByOrg}
        BY <2>1, <3>2, MovesAlone, IdleCopied DEF CacheInv
      <4>2. \/ cache' = cache /\ req[p].pc # "cache"
            \/ req[p].pc # "cache" /\ cache' = GetPolicy(TRUE)
            \/ req[p].pc = "cache" /\ cache' = req[p].policy
        <5>1. CASE SetCache(p)
          BY <5>1 DEF SetCache, Continues
        <5>2. CASE ~SetCache(p)
          BY <1>4, <5>2 DEF Continue, Create, CountAttempt, CheckChange, DeleteRow,
             RecordPasswordChange, PruneHistory, WriteUser, UpsertForOrg, Continues, Consults
        <5>3. QED
          BY <5>1, <5>2
      <4>3. QED
        BY <4>1, <4>2 DEF GetPolicy
    <3>3. QED
      BY <1>0, <2>1, <3>1, <3>2, MovesCached
  <2>4. QED
    BY <2>2, <2>3
<1>5. QED
  BY <1>1, <1>2, <1>3, <1>4 DEF Next

\* As long as requests do not overlap, the policy that accounts are held to is
\* the organisation's, or the global one when it has none, however often it is
\* changed (password_policy_service.go, UpsertPolicy and GetPolicy).
THEOREM PolicyAlwaysInForce == Spec => []PolicyInForce
<1>1. Init => CacheInv
  BY IdleCopied DEF Init, CacheInv
<1>2. CacheInv => PolicyInForce
  BY IdleCopied DEF CacheInv, PolicyInForce
<1>3. QED
  BY <1>1, <1>2, InitTyped, NextTyped, AlwaysCopied, CacheNext, PTL DEF Spec

-------------------------------------------------------------------------------
(***************************************************************************)
(* Wrong passwords are counted, and lock the account out.                  *)
(***************************************************************************)
Reached(n) == \A limit \in Limit : n >= limit

\* n wrong passwords are on the account, and locked it if they had to.
Counted(row, n) ==
    /\ row.failed = n
    /\ n > 0 /\ Reached(n) => row.locked \/ row.until # 0

\* A request about to write an attempt has decided on the lockout.
Decided(r) ==
    /\ r.pc = "write" /\ r.op = "wrong" /\ Reached(r.row.failed) => r.row.until # 0
    /\ r.pc = "insert" => r.row.failed = 0

CountInv == calm =>
    /\ \A u \in Account : users[u].member => Counted(users[u], streak[u])
    /\ \A u \in NewUsers : streak[u] = 0
    /\ \A p \in Request : Decided(req[p])

LEMMA CountParts ==
    ASSUME TypeInv, NEW p \in Request, NEW r, Moves(p, r), Decided(r),
           calm' => \A u \in User : InTable(users'[u]) /\ users'[u].member
                                        => Counted(users'[u], streak'[u]),
           calm' => \A u \in User : users'[u] = Unused => streak'[u] = 0
    PROVE  CountInv'
<1> SUFFICES ASSUME calm' PROVE CountInv'
  BY DEF CountInv
<1>1. Decided(Idle)
  BY DEF Decided, Idle
<1>2. \A q \in Request : Decided(req'[q])
  BY <1>1, MovesAlone
<1>3. QED
  BY <1>2 DEF CountInv, Counted, Decided, Reached, Account, HasUser, NewUsers

LEMMA GoesAheadCounted ==
    ASSUME TypeInv, CopyInv, CountInv, NEW p \in Request, NEW r, Moves(p, r),
           GoesAhead(p, r)
    PROVE  CountInv'
<1> SUFFICES ASSUME calm' PROVE CountInv'
  BY DEF CountInv
<1>0. /\ calm /\ Decided(req[p])
      /\ Copying(req[p]) => Copied(req[p], users)
      /\ \A u \in User : InTable(users[u]) /\ users[u].member => Counted(users[u], streak[u])
      /\ \A u \in User : users[u] = Unused => streak[u] = 0
  BY MovesAlone DEF CountInv, CopyInv, Account, HasUser, NewUsers
<1>1. CASE Inserts(p, r)
  <2>1. PICK u \in NewUsers : users' = [users EXCEPT ![u] = req[p].row]
    BY <1>1 DEF Inserts
  <2>2. /\ u \in User /\ users[u] = Unused /\ streak' = streak /\ r.pc = "record"
        /\ req[p].row \in UserRow /\ req[p].pc = "insert"
    BY <1>1, <2>1 DEF Inserts, NewUsers
  <2>3. Counted(req[p].row, streak[u])
    BY <1>0, <2>2 DEF Counted, Decided
  <2>4. ASSUME NEW v \in User, InTable(users'[v]), users'[v].member
        PROVE  Counted(users'[v], streak'[v])
    BY <1>0, <2>1, <2>2, <2>3, <2>4, TypeParts
  <2>5. ASSUME NEW v \in User, users'[v] = Unused PROVE streak'[v] = 0
    BY <1>0, <2>1, <2>2, <2>5, TypeParts
  <2>6. Decided(r)
    BY <2>2 DEF Decided
  <2>7. QED
    BY <2>4, <2>5, <2>6, CountParts
<1>2. CASE Removes(p, r)
  <2>1. /\ users' = [users EXCEPT ![req[p].user] = Deleted] /\ streak' = streak
        /\ Decided(r)
    BY <1>2 DEF Removes, Ends, ghosts, Decided, Idle
  <2>2. ASSUME NEW v \in User, users'[v] # users[v] PROVE users'[v] = Deleted
    BY <2>1, <2>2, TypeParts
  <2>3. Deleted # Unused /\ ~InTable(Deleted)
    BY DEF Deleted, Unused, InTable
  <2>4. QED
    BY <1>0, <2>1, <2>2, <2>3, CountParts
<1>3. CASE Writes(p, r)
  <2> DEFINE u == req[p].user
             row == req[p].row
  <2>1. /\ u \in User /\ row \in UserRow /\ InTable(users[u]) /\ users[u].member
        /\ users' = [users EXCEPT ![u] = row] /\ streak' = [streak EXCEPT ![u] = StreakAfter(p)]
        /\ req[p].pc = "write"
    BY <1>3 DEF Writes, CanWrite, HasUser
  <2>2. Kept(req[p], users[u]) /\ Counted(users[u], streak[u])
    BY <1>0, <2>1 DEF Copying, Copied
  <2>3. Counted(row, StreakAfter(p))
    <3>0. streak[u] \in Nat
      BY <2>1, TypeParts
    <3>1. CASE req[p].op = "wrong"
      BY <1>0, <2>1, <2>2, <3>1 DEF StreakAfter, Kept, Keeping, Counted, Decided
    <3>2. CASE req[p].op \in {"login", "unlock", "reset"}
      BY <2>2, <3>2 DEF StreakAfter, Kept, Keeping, Counted
    <3>3. CASE req[p].op \in Keeping \cup {"lock"}
      BY <2>2, <3>3 DEF StreakAfter, Kept, Keeping, Counted
    <3>4. QED
      BY <2>2, <3>1, <3>2, <3>3 DEF Kept
  <2>4. users[u] # Unused /\ row # Unused
    BY <2>1, RowsInTable
  <2>5. Decided(r)
    BY <1>3 DEF Writes, Ends, GoesOn, Decided, Idle
  <2> HIDE DEF u, row
  <2>6. ASSUME NEW v \in User, InTable(users'[v]), users'[v].member
        PROVE  Counted(users'[v], streak'[v])
    BY <1>0, <2>1, <2>3, <2>6, TypeParts
  <2>7. ASSUME NEW v \in User, users'[v] = Unused PROVE streak'[v] = 0
    BY <1>0, <2>1, <2>4, <2>7, TypeParts
  <2>8. QED
    BY <2>5, <2>6, <2>7, CountParts
<1>4. CASE \/ Leaves(p, r) \/ Records(p, r) \/ Forgets(p, r) \/ Prunes(p, r)
           \/ Misses(p, r) \/ Decides(p, r)
  <2>1. UNCHANGED <<users, streak>>
    BY <1>4 DEF Leaves, Records, Forgets, Prunes, Misses, Decides, tables, ghosts
  <2>2. Decided(r)
    <3>1. CASE Attempted(p, r)
      BY <3>1 DEF Attempted, Decided, Reached
    <3>2. CASE ChecksOut(p, r)
      <4>1. req[p].op # "wrong"
        BY <1>0, <3>2 DEF ChecksOut, Copying, Copied, Kept
      <4>2. QED
        BY <3>2, <4>1 DEF ChecksOut, GoesOn, Decided
    <3>3. CASE Ends(p, r)
      BY <3>3 DEF Ends, Decided, Idle
    <3>4. CASE Records(p, r) \/ Forgets(p, r) \/ Prunes(p, r)
      BY <3>3, <3>4 DEF Records, Forgets, Prunes, Resumption, GoesOn, Decided
    <3>5. CASE Misses(p, r) \/ Decides(p, r)
      BY <3>3, <3>5 DEF Misses, Decides, GoesOn, Decided
    <3>6. QED
      BY <1>4, <3>1, <3>2, <3>3, <3>4, <3>5 DEF Leaves
  <2>3. QED
    BY <1>0, <2>1, <2>2, CountParts
<1>5. QED
  BY <1>1, <1>2, <1>3, <1>4 DEF GoesAhead

LEMMA CountNext == TypeInv /\ CopyInv /\ CountInv /\ [Next]_vars => CountInv'
<1> SUFFICES ASSUME TypeInv, CopyInv, CountInv, [Next]_vars PROVE CountInv'
  OBVIOUS
<1>1. CASE Tick \/ UNCHANGED vars
  <2>1. UNCHANGED <<users, streak, req, calm>>
    BY <1>1 DEF Tick, vars, tables, ghosts
  <2>2. QED
    BY <2>1 DEF CountInv, Counted, Decided, Reached, Account, HasUser, NewUsers
<1>2. CASE Crash
  <2>1. /\ UNCHANGED <<users, streak>>
        /\ calm' => calm
        /\ \A p \in Request : req'[p] = Idle
    BY <1>2, CrashIsCalm DEF Crash, tables, ghosts
  <2>2. Decided(Idle)
    BY DEF Decided, Idle
  <2>3. QED
    BY <2>1, <2>2 DEF CountInv, Counted, Decided, Reached, Account, HasUser, NewUsers
<1>3. ASSUME NEW p \in Request, Accept(p) PROVE CountInv'
  <2>1. PICK r \in Local : Accepted(p, r)
    BY <1>3, AcceptIs
  <2>2. UNCHANGED <<users, streak>> /\ Moves(p, r)
    BY <2>1, AcceptedMoves DEF Accepted, tables, ghosts
  <2>3. Decided(r)
    <3>1. CASE Registers(r)
      BY <3>1 DEF Registers, Decided, NewRow
    <3>2. CASE \E u \in Account : Copies(r, u)
      BY <3>2 DEF Copies, Attempts, Edits, Locks, Decided
    <3>3. CASE Governs(r)
      BY <3>3 DEF Governs, Decided
    <3>4. QED
      BY <2>1, <3>1, <3>2, <3>3 DEF Accepted
  <2>4. ASSUME calm'
        PROVE  /\ \A u \in User : InTable(users[u]) /\ users[u].member
                                     => Counted(users[u], streak[u])
               /\ \A u \in User : users[u] = Unused => streak[u] = 0
    BY <2>2, <2>4, MovesAlone DEF CountInv, Account, HasUser, NewUsers
  <2>5. QED
    BY <2>2, <2>3, <2>4, CountParts
<1>4. ASSUME NEW p \in Request, Continue(p) PROVE CountInv'
  BY <1>4, ContinueIs, GoesAheadCounted
<1>5. QED
  BY <1>1, <1>2, <1>3, <1>4 DEF Next

\* As long as requests do not overlap, every wrong password since the last
\* success, unlock or reset is counted, and an account that reached every
\* limit a policy may set is locked out (user_service.go, LoginWithOrg).
THEOREM LockoutAlwaysEngages == Spec => []LockoutEngages
<1>1. Init => CountInv
  <2> SUFFICES ASSUME Init PROVE CountInv
    OBVIOUS
  <2>1. PICK email \in Email :
          users = [u \in User |-> IF u = Owner
                      THEN NewRow(email, TRUE, "admin", FALSE, Temporary, TRUE) ELSE Unused]
    BY DEF Init
  <2>2. \A u \in Account : users[u].failed = 0 /\ streak[u] = 0
    BY <2>1, RowsInTable DEF Account, HasUser, NewRow, Init
  <2>3. \A p \in Request : Decided(req[p])
    BY DEF Init, Decided, Idle
  <2>4. \A u \in NewUsers : streak[u] = 0
    BY DEF Init, NewUsers
  <2>5. \A u \in Account : Counted(users[u], streak[u])
    BY <2>2 DEF Counted
  <2>6. QED
    BY <2>3, <2>4, <2>5 DEF CountInv
<1>2. CountInv => LockoutEngages
  BY DEF CountInv, Counted, Reached, LockoutEngages
<1>3. QED
  BY <1>1, <1>2, InitTyped, NextTyped, AlwaysCopied, CountNext, PTL DEF Spec

-------------------------------------------------------------------------------
(***************************************************************************)
(* What is remembered of the passwords a user was given.                   *)
(***************************************************************************)
MemberIn(rows, u) == InTable(rows[u]) /\ rows[u].member

\* No two members have one e-mail.
UniqueIn(rows) ==
    \A u, v \in User : MemberIn(rows, u) /\ MemberIn(rows, v)
                          /\ rows[u].email = rows[v].email => u = v

\* A member all of whose passwords were recorded.
Followed(rows, lost, u) == MemberIn(rows, u) /\ u \notin lost

\* A request has written a password and has still to record it, or the other
\* way round.
Recording(r, u) ==
    /\ r.user = u
    /\ \/ r.pc = "record" /\ r.op # "edit"
       \/ r.pc \in {"prune", "write"} /\ r.op = "edit" /\ "password" \in r.gives

Checked(r) == \/ r.pc = "write" /\ r.op \in {"edit", "change"}
              \/ r.pc \in {"record", "prune"} /\ r.op = "edit"

\* What was checked is still so, and the newest passwords that are recorded of
\* a member are those that were given last, whether pruned or not.
ChecksHold(r, rows, given, lost) ==
    Checked(r) /\ rows[r.user].member =>
        /\ "email" \in r.gives =>
              \A v \in User : MemberIn(rows, v) => rows[v].email # r.row.email
        /\ "password" \in r.gives /\ r.user \notin lost =>
              r.row.password \notin Recent(given[r.user])

Remembers(r, rows, kept, given, lost) ==
    /\ ChecksHold(r, rows, given, lost)
    /\ r.pc = "record" /\ r.op # "edit" /\ Followed(rows, lost, r.user) =>
          \E s \in Seq(Password) :
              given[r.user] = Append(s, r.row.password) /\ Newest(kept[r.user]) = Newest(s)
    /\ r.pc \in {"record", "prune"} /\ r.op = "edit" => "password" \in r.gives
    /\ Recording(r, r.user) /\ r.op = "edit" /\ Followed(rows, lost, r.user) =>
          Newest(kept[r.user]) = Newest(Append(given[r.user], r.row.password))

HistoryInv == calm =>
    /\ UniqueIn(users)
    /\ \A u \in User \ missed : NotReused(used[u])
    /\ \A u \in User : users[u] = Unused => history[u] = <<>>
    /\ \A u \in User : Followed(users, missed, u) =>
          \/ Newest(history[u]) = Newest(used[u])
          \/ \E p \in Request : Recording(req[p], u)
    /\ \A p \in Request : Remembers(req[p], users, history, used, missed)

LEMMA IdleRemembers ==
    ASSUME NEW rows, NEW kept, NEW given, NEW lost
    PROVE  Remembers(Idle, rows, kept, given, lost) /\ \A u : ~Recording(Idle, u)
BY DEF Remembers, ChecksHold, Checked, Recording, Idle

LEMMA HistoryParts ==
    ASSUME TypeInv, NEW p \in Request, NEW r, Moves(p, r),
           calm' => UniqueIn(users'),
           calm' => \A u \in User \ missed' : NotReused(used'[u]),
           calm' => \A u \in User : users'[u] = Unused => history'[u] = <<>>,
           calm' => \A u \in User : Followed(users', missed', u) =>
                        Newest(history'[u]) = Newest(used'[u]) \/ Recording(r, u),
           calm' => Remembers(r, users', history', used', missed')
    PROVE  HistoryInv'
<1> SUFFICES ASSUME calm' PROVE HistoryInv'
  BY DEF HistoryInv
<1>1. req'[p] = r
  BY MovesAlone
<1>2. ASSUME NEW q \in Request PROVE Remembers(req'[q], users', history', used', missed')
  BY MovesAlone, IdleRemembers
<1>3. QED
  BY <1>1, <1>2 DEF HistoryInv

\* Before p takes its step in calm.
LEMMA HistoryBefore ==
    ASSUME TypeInv, CopyInv, HistoryInv, NEW p \in Request, NEW r, Moves(p, r), calm'
    PROVE  /\ UniqueIn(users) /\ \A u \in User \ missed : NotReused(used[u])
           /\ \A u \in User : users[u] = Unused => history[u] = <<>>
           /\ \A u \in User : Followed(users, missed, u) =>
                 Newest(history[u]) = Newest(used[u]) \/ Recording(req[p], u)
           /\ Remembers(req[p], users, history, used, missed)
           /\ Copying(req[p]) => Copied(req[p], users)
           /\ req[p].pc = "insert" => req[p].op = "register"
BY MovesAlone, IdleRemembers DEF HistoryInv, CopyInv

\* A password that is given is one more.
LEMMA FirstGiven ==
    ASSUME NEW x \in Password
    PROVE  <<x>> = Append(<<>>, x) /\ <<>> \in Seq(Password) /\ NotReused(<<x>>)
<1>1. <<x>> = Append(<<>>, x) /\ <<>> \in Seq(Password)
  BY EmptySeq
<1>2. DOMAIN <<x>> = {1}
  OBVIOUS
<1>3. QED
  BY <1>1, <1>2 DEF NotReused

LEMMA InsertsRemember ==
    ASSUME TypeInv, CopyInv, HistoryInv, NEW p \in Request, NEW r, Moves(p, r), Inserts(p, r)
    PROVE  HistoryInv'
<1> SUFFICES ASSUME calm' PROVE HistoryInv'
  BY DEF HistoryInv
<1>1. /\ UniqueIn(users) /\ \A u \in User \ missed : NotReused(used[u])
      /\ \A u \in User : users[u] = Unused => history[u] = <<>>
      /\ \A u \in User : Followed(users, missed, u) =>
            Newest(history[u]) = Newest(used[u]) \/ Recording(req[p], u)
      /\ req[p].op = "register"
  BY HistoryBefore DEF Inserts
<1> DEFINE row == req[p].row
<1>2. PICK u \in NewUsers :
        /\ users' = [users EXCEPT ![u] = row]
        /\ used' = [used EXCEPT ![u] = <<row.password>>]
        /\ r.pc = "record" /\ r.op = req[p].op /\ r.user = u /\ r.row = row
  BY DEF Inserts
<1>3. /\ req[p].pc = "insert" /\ row \in UserRow /\ row.password \in Password
      /\ ~EmailExists(row.email, row.member) /\ history' = history /\ missed' = missed
      /\ u \in User /\ users[u] = Unused
  BY <1>2 DEF Inserts, NewUsers, UserRow
<1>4. InTable(row) /\ ~InTable(Unused)
  BY <1>3, RowsInTable
<1>5. users \in [User -> UserRow \cup {Unused, Deleted}] /\ used \in [User -> Seq(Password)]
  BY TypeParts
<1> HIDE DEF row
<1>6. ASSUME NEW v \in User, v # u PROVE users'[v] = users[v] /\ used'[v] = used[v]
  BY <1>2, <1>5, <1>6
<1>7. users'[u] = row /\ used'[u] = <<row.password>>
  BY <1>2, <1>3, <1>5
<1>8. UniqueIn(users')
  <2>1. ASSUME NEW v \in User, v # u, MemberIn(users', v), MemberIn(users', u)
        PROVE  users'[v].email # users'[u].email
    <3>1. MemberIn(users, v) /\ row.member
      BY <1>6, <1>7, <2>1 DEF MemberIn
    <3>2. users[v].email # row.email
      BY <1>3, <3>1 DEF EmailExists, MemberIn, Account, HasUser
    <3>3. QED
      BY <1>6, <1>7, <2>1, <3>2
  <2>2. ASSUME NEW v \in User, NEW w \in User, v # u, w # u, MemberIn(users', v),
               MemberIn(users', w), users'[v].email = users'[w].email
        PROVE  v = w
    BY <1>1, <1>6, <2>2 DEF UniqueIn, MemberIn
  <2>3. QED
    BY <2>1, <2>2 DEF UniqueIn
<1>9. \A v \in User \ missed' : NotReused(used'[v])
  BY <1>1, <1>3, <1>6, <1>7, FirstGiven
<1>10. \A v \in User : users'[v] = Unused => history'[v] = <<>>
  BY <1>1, <1>3, <1>4, <1>6, <1>7
<1>11. ASSUME NEW v \in User, Followed(users', missed', v)
       PROVE  Newest(history'[v]) = Newest(used'[v]) \/ Recording(r, v)
  <2>1. CASE v = u
    BY <1>1, <1>2, <2>1 DEF Recording
  <2>2. CASE v # u
    <3>1. ~Recording(req[p], v)
      BY <1>3 DEF Recording
    <3>2. Followed(users, missed, v)
      BY <1>3, <1>6, <1>11, <2>2 DEF Followed, MemberIn
    <3>3. QED
      BY <1>1, <1>3, <1>6, <2>2, <3>1, <3>2
  <2>3. QED
    BY <2>1, <2>2
<1>12. Remembers(r, users', history', used', missed')
  <2>1. used'[u] = Append(<<>>, row.password) /\ Newest(history'[u]) = Newest(<<>>)
    BY <1>1, <1>3, <1>7, FirstGiven
  <2>2. QED
    BY <1>1, <1>2, <1>3, <2>1, FirstGiven
    DEF Remembers, ChecksHold, Checked, Recording
<1>13. QED
  BY <1>8, <1>9, <1>10, <1>11, <1>12, HistoryParts

\* A step that changes neither accounts nor what is kept of passwords, but may
\* be one that failed to keep one.
LEMMA LeavesRemember ==
    ASSUME TypeInv, CopyInv, HistoryInv, NEW p \in Request, NEW r, Moves(p, r),
           UNCHANGED <<users, history, used>>, missed \subseteq missed',
           calm' => \A u \in User :
               Followed(users, missed', u) /\ Recording(req[p], u) => Recording(r, u),
           calm' => Remembers(r, users, history, used, missed')
    PROVE  HistoryInv'
<1> SUFFICES ASSUME calm' PROVE HistoryInv'
  BY DEF HistoryInv
<1>1. /\ UniqueIn(users) /\ \A u \in User \ missed : NotReused(used[u])
      /\ \A u \in User : users[u] = Unused => history[u] = <<>>
      /\ \A u \in User : Followed(users, missed, u) =>
            Newest(history[u]) = Newest(used[u]) \/ Recording(req[p], u)
  BY HistoryBefore
<1>2. ASSUME NEW u \in User, Followed(users, missed', u)
      PROVE  Newest(history[u]) = Newest(used[u]) \/ Recording(r, u)
  BY <1>1, <1>2 DEF Followed
<1>3. QED
  BY <1>1, <1>2, HistoryParts

LEMMA ChecksRemember ==
    ASSUME TypeInv, CopyInv, HistoryInv, NEW p \in Request, NEW r, Moves(p, r), Leaves(p, r),
           calm'
    PROVE  /\ \A u : ~Recording(req[p], u)
           /\ Remembers(r, users, history, used, missed)
<1>1. ASSUME NEW u PROVE ~Recording(req[p], u)
  BY DEF Leaves, Recording
<1>2. /\ \A u \in User : Followed(users, missed, u) => Newest(history[u]) = Newest(used[u])
      /\ Copying(req[p]) => Copied(req[p], users)
  BY <1>1, HistoryBefore
<1>3. CASE Ends(p, r)
  BY <1>1, <1>3, IdleRemembers DEF Ends
<1>4. CASE Attempted(p, r)
  <2>1. r.pc = "write" /\ r.op = "wrong"
    BY <1>2, <1>4 DEF Attempted, Copying, Copied, Kept
  <2>2. QED
    BY <1>1, <2>1 DEF Remembers, ChecksHold, Checked, Recording
<1>5. CASE ChecksOut(p, r)
  <2> DEFINE u == req[p].user
  <2>1. /\ Acceptable(p) /\ GoesOn(r, req[p], r.pc) /\ r.pc \in {"record", "write"}
        /\ r.pc = "record" => r.op = "edit" /\ "password" \in r.gives
        /\ r.pc = "write" => ~(r.op = "edit" /\ "password" \in r.gives)
    BY <1>5 DEF ChecksOut, GoesOn, Gives
  <2>2. /\ Copied(req[p], users) /\ u \in User /\ InTable(users[u])
        /\ req[p].row.member = users[u].member
    BY <1>2, <1>5 DEF ChecksOut, Copying, Copied
  <2>3. ASSUME users[u].member, "email" \in r.gives, NEW v \in User, MemberIn(users, v)
        PROVE  users[v].email # r.row.email
    BY <2>1, <2>2, <2>3 DEF Acceptable, GoesOn, Gives, EmailExists, Account, HasUser, MemberIn
  <2>4. ASSUME users[u].member, "password" \in r.gives, u \notin missed
        PROVE  r.row.password \notin Recent(used[u])
    <3>1. r.row.password \notin Recent(history[u])
      BY <2>1, <2>2, <2>4 DEF Acceptable, GoesOn, Gives, ValidateNewPassword,
         GetRecentByUserID, Recent
    <3>2. Newest(history[u]) = Newest(used[u])
      BY <1>2, <2>2, <2>4 DEF Followed, MemberIn
    <3>3. Recent(history[u]) = Recent(used[u])
      BY <3>2 DEF Recent
    <3>4. QED
      BY <3>1, <3>3
  <2>5. ChecksHold(r, users, used, missed)
    BY <2>1, <2>3, <2>4 DEF ChecksHold, GoesOn
  <2>6. QED
    BY <1>1, <2>1, <2>5 DEF Remembers, Recording
<1>6. QED
  BY <1>1, <1>3, <1>4, <1>5 DEF Leaves

LEMMA RemovesRemember ==
    ASSUME TypeInv, CopyInv, HistoryInv, NEW p \in Request, NEW r, Moves(p, r), Removes(p, r)
    PROVE  HistoryInv'
<1> SUFFICES ASSUME calm' PROVE HistoryInv'
  BY DEF HistoryInv
<1>1. /\ UniqueIn(users) /\ \A u \in User \ missed : NotReused(used[u])
      /\ \A u \in User : users[u] = Unused => history[u] = <<>>
      /\ \A u \in User : Followed(users, missed, u) =>
            Newest(history[u]) = Newest(used[u]) \/ Recording(req[p], u)
  BY HistoryBefore
<1> DEFINE d == req[p].user
<1>2. /\ users' = [users EXCEPT ![d] = Deleted] /\ history' = [history EXCEPT ![d] = <<>>]
      /\ used' = used /\ missed' = missed /\ r = Idle /\ d \in User /\ req[p].pc = "delete"
  BY DEF Removes, Ends, ghosts
<1> HIDE DEF d
<1>3. users \in [User -> UserRow \cup {Unused, Deleted}] /\ history \in [User -> Seq(Password)]
  BY TypeParts
<1>4. ASSUME NEW u \in User, u # d PROVE users'[u] = users[u] /\ history'[u] = history[u]
  BY <1>2, <1>3, <1>4
<1>5. users'[d] = Deleted /\ ~InTable(Deleted) /\ history'[d] = <<>>
  BY <1>2, <1>3, RowsInTable
<1>6. ASSUME NEW u \in User, MemberIn(users', u)
      PROVE  u # d /\ MemberIn(users, u) /\ users'[u] = users[u]
  BY <1>4, <1>5, <1>6 DEF MemberIn
<1>7. UniqueIn(users')
  BY <1>1, <1>6 DEF UniqueIn
<1>8. \A u \in User : users'[u] = Unused => history'[u] = <<>>
  BY <1>1, <1>4, <1>5
<1>9. ASSUME NEW u \in User, Followed(users', missed', u)
      PROVE  Newest(history'[u]) = Newest(used'[u])
  <2>1. ~Recording(req[p], u)
    BY <1>2 DEF Recording
  <2>2. QED
    BY <1>1, <1>2, <1>4, <1>6, <1>9, <2>1 DEF Followed
<1>10. QED
  BY <1>1, <1>2, <1>7, <1>8, <1>9, IdleRemembers, HistoryParts

LEMMA RecordsRemember ==
    ASSUME TypeInv, CopyInv, HistoryInv, NEW p \in Request, NEW r, Moves(p, r), Records(p, r)
    PROVE  HistoryInv'
<1> SUFFICES ASSUME calm' PROVE HistoryInv'
  BY DEF HistoryInv
<1>1. /\ UniqueIn(users) /\ \A u \in User \ missed : NotReused(used[u])
      /\ \A u \in User : users[u] = Unused => history[u] = <<>>
      /\ \A u \in User : Followed(users, missed, u) =>
            Newest(history[u]) = Newest(used[u]) \/ Recording(req[p], u)
      /\ Remembers(req[p], users, history, used, missed)
  BY HistoryBefore
<1> DEFINE d == req[p].user
           pw == req[p].row.password
<1>2. /\ req[p].pc = "record" /\ d \in User /\ req[p].row \in UserRow /\ pw \in Password
      /\ users' = users /\ used' = used /\ missed' = missed /\ InTable(users[d])
      /\ history' = [history EXCEPT ![d] = Append(@, pw)]
      /\ GoesOn(r, req[p], "prune")
  BY DEF Records, ghosts, UserRow, HasUser
<1>3. history \in [User -> Seq(Password)] /\ used \in [User -> Seq(Password)]
  BY TypeParts
<1>4. r.pc = "prune" /\ r.op = req[p].op /\ r.user = d /\ r.row.password = pw
      /\ r.gives = req[p].gives /\ r.row.email = req[p].row.email
  BY <1>2 DEF GoesOn
<1> HIDE DEF d, pw
<1>5. /\ \A u \in User : u # d => history'[u] = history[u]
      /\ history'[d] = Append(history[d], pw)
  BY <1>2, <1>3
<1>6. ASSUME NEW u \in User, users'[u] = Unused PROVE history'[u] = <<>>
  BY <1>1, <1>2, <1>5, <1>6, RowsInTable
<1>7. ASSUME Followed(users, missed, d)
      PROVE  IF req[p].op = "edit" THEN Newest(history'[d]) = Newest(Append(used[d], pw))
                                   ELSE Newest(history'[d]) = Newest(used[d])
  <2>1. CASE req[p].op = "edit"
    <3>1. Newest(history[d]) = Newest(used[d])
      BY <1>1, <1>2, <1>7, <2>1 DEF Recording
    <3>2. QED
      BY <1>2, <1>3, <1>5, <2>1, <3>1, NewestOfAppend
  <2>2. CASE req[p].op # "edit"
    <3>1. PICK s \in Seq(Password) : used[d] = Append(s, pw) /\ Newest(history[d]) = Newest(s)
      BY <1>1, <1>2, <1>7, <2>2 DEF Remembers, d, pw
    <3>2. QED
      BY <1>2, <1>3, <1>5, <2>2, <3>1, NewestOfAppend
  <2>3. QED
    BY <2>1, <2>2
<1>8. "edit" = req[p].op => "password" \in r.gives
  BY <1>1, <1>2, <1>4 DEF Remembers
<1>9. ASSUME NEW u \in User, Followed(users', missed', u)
      PROVE  Newest(history'[u]) = Newest(used'[u]) \/ Recording(r, u)
  <2>1. CASE u # d
    BY <1>1, <1>2, <1>5, <1>9, <2>1 DEF Recording, d
  <2>2. CASE u = d /\ req[p].op = "edit"
    BY <1>4, <1>8, <2>2 DEF Recording
  <2>3. CASE u = d /\ req[p].op # "edit"
    BY <1>2, <1>7, <1>9, <2>3
  <2>4. QED
    BY <2>1, <2>2, <2>3
<1>10. Remembers(r, users', history', used', missed')
  <2>1. CASE req[p].op = "edit"
    <3>1. ChecksHold(r, users, used, missed)
      BY <1>1, <1>2, <1>4, <2>1 DEF Remembers, ChecksHold, Checked, d, pw
    <3>2. Followed(users, missed, d) => Newest(history'[d]) = Newest(Append(used[d], pw))
      BY <1>7, <2>1
    <3>3. QED
      BY <1>2, <1>4, <1>8, <2>1, <3>1, <3>2 DEF Remembers
  <2>2. CASE req[p].op # "edit"
    BY <1>4, <2>2 DEF Remembers, ChecksHold, Checked, Recording
  <2>3. QED
    BY <2>1, <2>2
<1>11. QED
  BY <1>1, <1>2, <1>6, <1>9, <1>10, HistoryParts

\* What could not be recorded is the affair of its user alone.
LEMMA ForgetsRemember ==
    ASSUME TypeInv, CopyInv, HistoryInv, NEW p \in Request, NEW r, Moves(p, r), Forgets(p, r)
    PROVE  HistoryInv'
<1> SUFFICES ASSUME calm' PROVE HistoryInv'
  BY DEF HistoryInv
<1>1. Remembers(req[p], users, history, used, missed)
  BY HistoryBefore
<1>2. /\ req[p].pc = "record" /\ missed' = missed \cup {req[p].user} /\ Resumption(p, r)
      /\ UNCHANGED <<users, history, used>>
  BY DEF Forgets, tables
<1>3. \A u \in User : ~(Followed(users, missed', u) /\ Recording(req[p], u))
  BY <1>2 DEF Followed, Recording
<1>4. Remembers(r, users, history, used, missed')
  <2>1. CASE req[p].op = "edit"
    <3>1. GoesOn(r, req[p], "write") /\ r.user \in missed'
      BY <1>2, <2>1 DEF Resumption, GoesOn
    <3>2. ChecksHold(r, users, used, missed')
      BY <1>1, <1>2, <2>1, <3>1 DEF Remembers, ChecksHold, Checked, GoesOn
    <3>3. QED
      BY <3>1, <3>2 DEF Remembers, Followed, GoesOn
  <2>2. CASE req[p].op # "edit"
    BY <1>2, <2>2, IdleRemembers DEF Resumption, Ends
  <2>3. QED
    BY <2>1, <2>2
<1>5. QED
  BY <1>2, <1>3, <1>4, LeavesRemember

\* Pruning leaves what the check reads.
LEMMA PrunesRemember ==
    ASSUME TypeInv, CopyInv, HistoryInv, NEW p \in Request, NEW r, Moves(p, r), Prunes(p, r)
    PROVE  HistoryInv'
<1> SUFFICES ASSUME calm' PROVE HistoryInv'
  BY DEF HistoryInv
<1>1. /\ UniqueIn(users) /\ \A u \in User \ missed : NotReused(used[u])
      /\ \A u \in User : users[u] = Unused => history[u] = <<>>
      /\ \A u \in User : Followed(users, missed, u) =>
            Newest(history[u]) = Newest(used[u]) \/ Recording(req[p], u)
      /\ Remembers(req[p], users, history, used, missed)
  BY HistoryBefore
<1> DEFINE d == req[p].user
<1>2. /\ req[p].pc = "prune" /\ d \in User /\ Resumption(p, r)
      /\ users' = users /\ used' = used /\ missed' = missed
      /\ history' = history \/ history' = [history EXCEPT ![d] = Newest(history[d])]
  BY DEF Prunes, ghosts
<1>3. history \in [User -> Seq(Password)]
  BY TypeParts
<1>4. Newest(Newest(history[d])) = Newest(history[d]) /\ Newest(<<>>) = <<>>
  BY <1>2, <1>3, NewestOfNewest
<1> HIDE DEF d
<1>5. \A u \in User : /\ Newest(history'[u]) = Newest(history[u])
                      /\ history[u] = <<>> => history'[u] = <<>>
  BY <1>2, <1>3, <1>4
<1>6. \A u \in User : users'[u] = Unused => history'[u] = <<>>
  BY <1>1, <1>2, <1>5
<1>7. ASSUME req[p].op = "edit"
      PROVE  /\ GoesOn(r, req[p], "write") /\ "password" \in r.gives
             /\ \A u : Recording(req[p], u) => Recording(r, u)
             /\ Remembers(r, users, history, used, missed)
  <2>1. GoesOn(r, req[p], "write") /\ "password" \in r.gives
    BY <1>1, <1>2, <1>7 DEF Resumption, Remembers, GoesOn
  <2>2. \A u : Recording(req[p], u) <=> Recording(r, u)
    BY <1>2, <1>7, <2>1 DEF Recording, GoesOn
  <2>3. ChecksHold(r, users, used, missed)
    BY <1>1, <1>2, <1>7, <2>1 DEF Remembers, ChecksHold, Checked, GoesOn
  <2>4. QED
    BY <1>1, <1>7, <2>1, <2>2, <2>3 DEF Remembers, GoesOn
<1>8. ASSUME req[p].op # "edit"
      PROVE  r = Idle /\ \A u : ~Recording(req[p], u)
  BY <1>2, <1>8 DEF Resumption, Ends, Recording
<1>9. ASSUME NEW u \in User, Followed(users', missed', u)
      PROVE  Newest(history'[u]) = Newest(used'[u]) \/ Recording(r, u)
  BY <1>1, <1>2, <1>5, <1>7, <1>8, <1>9
<1>10. Remembers(r, users', history', used', missed')
  <2>1. CASE req[p].op = "edit"
    <3>1. r.pc = "write" /\ r.user = d /\ Remembers(r, users, history, used, missed)
      BY <1>7, <2>1 DEF GoesOn, d
    <3>2. QED
      BY <1>2, <1>5, <3>1 DEF Remembers
  <2>2. CASE req[p].op # "edit"
    BY <1>8, <2>2, IdleRemembers
  <2>3. QED
    BY <2>1, <2>2
<1>11. QED
  BY <1>1, <1>2, <1>6, <1>9, <1>10, HistoryParts

LEMMA WritesRemember ==
    ASSUME TypeInv, CopyInv, HistoryInv, NEW p \in Request, NEW r, Moves(p, r), Writes(p, r)
    PROVE  HistoryInv'
<1> SUFFICES ASSUME calm' PROVE HistoryInv'
  BY DEF HistoryInv
<1> DEFINE d == req[p].user
           row == req[p].row
           gives == Gives(p, "password") \/ req[p].op = "reset"
<1>1. /\ UniqueIn(users) /\ \A u \in User \ missed : NotReused(used[u])
      /\ \A u \in User : users[u] = Unused => history[u] = <<>>
      /\ \A u \in User : Followed(users, missed, u) =>
            Newest(history[u]) = Newest(used[u]) \/ Recording(req[p], u)
      /\ Remembers(req[p], users, history, used, missed)
      /\ Copied(req[p], users)
  BY HistoryBefore DEF Writes, Copying
<1>2. /\ req[p].pc = "write" /\ d \in User /\ row \in UserRow /\ row.password \in Password
      /\ MemberIn(users, d)
      /\ \A v \in User : v # d /\ MemberIn(users, v) => users[v].email # row.email
      /\ users' = [users EXCEPT ![d] = row] /\ history' = history
      /\ used' = IF gives THEN [used EXCEPT ![d] = Append(@, row.password)] ELSE used
      /\ r = Idle \/ (GoesOn(r, req[p], "record") /\ req[p].op \in {"change", "reset"})
      /\ req[p].op \in {"change", "reset"} => GoesOn(r, req[p], "record")
      /\ missed' = missed
  BY DEF Writes, CanWrite, Account, HasUser, MemberIn, UserRow, Ends
<1>3. users \in [User -> UserRow \cup {Unused, Deleted}] /\ used \in [User -> Seq(Password)]
  BY TypeParts
<1>4. /\ Kept(req[p], users[d]) /\ Differs(req[p], users[d])
      /\ row.member /\ InTable(row) /\ row # Unused
  BY <1>1, <1>2, RowsInTable DEF Copied, MemberIn
<1>5. gives => /\ \/ row.password = Temporary \/ row.password \notin Recent(used[d])
                  \/ d \in missed
               /\ req[p].op \in {"edit", "change", "reset"}
  <2>1. CASE req[p].op = "reset"
    BY <1>4, <2>1 DEF Kept
  <2>2. CASE req[p].op # "reset" /\ Gives(p, "password")
    <3>1. row.password # users[d].password /\ "password" \in req[p].gives
      BY <1>4, <2>2 DEF Differs, Gives
    <3>2. req[p].op \in {"edit", "change"}
      BY <1>4, <2>2, <3>1 DEF Kept
    <3>3. Checked(req[p]) /\ users[req[p].user].member
      BY <1>2, <3>2 DEF Checked, MemberIn
    <3>4. row.password \notin Recent(used[d]) \/ d \in missed
      BY <1>1, <3>1, <3>3 DEF Remembers, ChecksHold
    <3>5. QED
      BY <3>2, <3>4
  <2>3. QED
    BY <2>1, <2>2
<1>6. req[p].op = "change" => gives
  BY <1>4 DEF Kept, Differs, Gives
<1>0. Followed(users, missed, d) <=> d \notin missed
  BY <1>2 DEF Followed
<1>7. req[p].op \in {"change", "reset"} /\ d \notin missed =>
          Newest(history[d]) = Newest(used[d])
  BY <1>0, <1>1, <1>2 DEF Recording
<1>8. ~gives /\ d \notin missed => Newest(history[d]) = Newest(used[d])
  BY <1>0, <1>1, <1>2 DEF Recording, Gives
<1>9. gives /\ req[p].op = "edit" /\ d \notin missed =>
          Newest(history[d]) = Newest(Append(used[d], row.password))
  BY <1>0, <1>1, <1>2 DEF Remembers, Recording, Gives
<1>10. /\ req[p].user = d /\ req[p].row = row
       /\ req[p].op = "reset" => gives
  OBVIOUS
<1> HIDE DEF d, row, gives
<1>11. ASSUME NEW v \in User, v # d PROVE users'[v] = users[v] /\ used'[v] = used[v]
  BY <1>2, <1>3, <1>11
<1>12. /\ users'[d] = row
       /\ used'[d] = IF gives THEN Append(used[d], row.password) ELSE used[d]
  BY <1>2, <1>3
<1>13. UniqueIn(users')
  <2>1. ASSUME NEW v \in User, v # d, MemberIn(users', v)
        PROVE  users'[v].email # users'[d].email
    BY <1>2, <1>11, <1>12, <2>1 DEF MemberIn
  <2>2. ASSUME NEW v \in User, NEW w \in User, v # d, w # d, MemberIn(users', v),
               MemberIn(users', w), users'[v].email = users'[w].email
        PROVE  v = w
    BY <1>1, <1>11, <2>2 DEF UniqueIn, MemberIn
  <2>3. QED
    BY <2>1, <2>2 DEF UniqueIn
<1>14. ASSUME NEW v \in User \ missed' PROVE NotReused(used'[v])
  <2>1. used[v] \in Seq(Password) /\ NotReused(used[v]) /\ v \notin missed
    BY <1>1, <1>2, <1>3, <1>14
  <2>2. CASE v = d /\ gives
    BY <1>2, <1>5, <1>12, <2>1, <2>2, NotReusedAppend
  <2>3. CASE v # d \/ ~gives
    BY <1>2, <1>11, <1>12, <2>1, <2>3
  <2>4. QED
    BY <2>2, <2>3
<1>15. ASSUME NEW v \in User, users'[v] = Unused PROVE history'[v] = <<>>
  BY <1>1, <1>2, <1>4, <1>11, <1>12, <1>15
<1>16. ASSUME NEW v \in User, Followed(users', missed', v)
       PROVE  Newest(history'[v]) = Newest(used'[v]) \/ Recording(r, v)
  <2>0. v \notin missed
    BY <1>2, <1>16 DEF Followed
  <2>1. CASE v # d
    <3>1. Followed(users, missed, v) /\ ~Recording(req[p], v)
      BY <1>2, <1>10, <1>11, <1>16, <2>1 DEF Followed, MemberIn, Recording
    <3>2. QED
      BY <1>1, <1>2, <1>11, <2>1, <3>1
  <2>2. CASE v = d /\ req[p].op \in {"change", "reset"}
    BY <1>2, <1>10, <2>2 DEF Recording, GoesOn
  <2>3. CASE v = d /\ ~(req[p].op \in {"change", "reset"})
    <3>1. CASE gives
      BY <1>2, <1>5, <1>9, <1>12, <2>0, <2>3, <3>1
    <3>2. CASE ~gives
      BY <1>2, <1>8, <1>12, <2>0, <2>3, <3>2
    <3>3. QED
      BY <3>1, <3>2
  <2>4. QED
    BY <2>1, <2>2, <2>3
<1>17. Remembers(r, users', history', used', missed')
  <2>1. CASE r = Idle
    BY <2>1, IdleRemembers
  <2>2. CASE GoesOn(r, req[p], "record") /\ req[p].op \in {"change", "reset"}
    <3>1. /\ used'[d] = Append(used[d], row.password) /\ used[d] \in Seq(Password)
          /\ d \notin missed => Newest(history'[d]) = Newest(used[d])
      BY <1>2, <1>3, <1>6, <1>7, <1>10, <1>12, <2>2
    <3>2. /\ r.pc = "record" /\ r.op # "edit" /\ r.user = d /\ r.row = row
      BY <1>10, <2>2 DEF GoesOn
    <3>3. QED
      BY <1>2, <3>1, <3>2 DEF Remembers, ChecksHold, Checked, Recording, Followed
  <2>3. QED
    BY <1>2, <2>1, <2>2
<1>18. QED
  BY <1>13, <1>14, <1>15, <1>16, <1>17, HistoryParts

\* In calm only the account of someone who is no member is not written.
LEMMA MissesRemember ==
    ASSUME TypeInv, CopyInv, HistoryInv, NEW p \in Request, NEW r, Moves(p, r), Misses(p, r)
    PROVE  HistoryInv'
<1> SUFFICES ASSUME calm' PROVE HistoryInv'
  BY DEF HistoryInv
<1> DEFINE d == req[p].user
<1>1. /\ UniqueIn(users) /\ Copied(req[p], users) /\ Remembers(req[p], users, history, used, missed)
      /\ req[p].pc = "write" /\ d \in User /\ ~CanWrite(p)
  BY HistoryBefore DEF Misses, Copying
<1>2. ~MemberIn(users, d)
  <2> SUFFICES ASSUME MemberIn(users, d) PROVE FALSE
    OBVIOUS
  <2>1. PICK v \in User : v # d /\ MemberIn(users, v) /\ users[v].email = req[p].row.email
    BY <1>1 DEF CanWrite, Account, HasUser, MemberIn
  <2>2. CASE "email" \in req[p].gives
    BY <1>1, <2>1, <2>2
    DEF Copied, Kept, Differs, Remembers, ChecksHold, Checked, MemberIn
  <2>3. CASE ~("email" \in req[p].gives)
    BY <1>1, <2>1, <2>3 DEF Copied, Differs, UniqueIn
  <2>4. QED
    BY <2>2, <2>3
<1>3. UNCHANGED <<users, history, used, missed>>
  BY DEF Misses, tables, ghosts
<1>4. Remembers(r, users, history, used, missed)
  <2>1. CASE Ends(p, r)
    BY <2>1, IdleRemembers DEF Ends
  <2>2. CASE req[p].op \in {"change", "reset"} /\ GoesOn(r, req[p], "record")
    BY <1>2, <2>2 DEF GoesOn, Remembers, ChecksHold, Checked, Recording, Followed
  <2>3. QED
    BY <2>1, <2>2 DEF Misses
<1>5. \A u \in User : Followed(users, missed, u) /\ Recording(req[p], u) => Recording(r, u)
  BY <1>2 DEF Recording, Followed
<1>6. QED
  BY <1>3, <1>4, <1>5, LeavesRemember

LEMMA GoesAheadRemembers ==
    ASSUME TypeInv, CopyInv, HistoryInv, NEW p \in Request, NEW r, Moves(p, r),
           GoesAhead(p, r)
    PROVE  HistoryInv'
<1>1. CASE Leaves(p, r)
  <2>1. UNCHANGED <<users, history, used, missed>>
    BY <1>1 DEF Leaves, tables, ghosts
  <2>2. QED
    BY <1>1, <2>1, ChecksRemember, LeavesRemember
<1>2. CASE Decides(p, r)
  <2>1. UNCHANGED <<users, history, used, missed>> /\ \A u : ~Recording(req[p], u)
    BY <1>2 DEF Decides, ghosts, Recording
  <2>2. Remembers(r, users, history, used, missed)
    BY <1>2 DEF Decides, Remembers, ChecksHold, Checked, Recording
  <2>3. QED
    BY <2>1, <2>2, LeavesRemember
<1>3. QED
  BY <1>1, <1>2, InsertsRemember, RemovesRemember, RecordsRemember, ForgetsRemember,
     PrunesRemember, WritesRemember, MissesRemember DEF GoesAhead

LEMMA HistoryNext == TypeInv /\ CopyInv /\ HistoryInv /\ [Next]_vars => HistoryInv'
<1> SUFFICES ASSUME TypeInv, CopyInv, HistoryInv, [Next]_vars PROVE HistoryInv'
  OBVIOUS
<1>1. CASE Tick \/ UNCHANGED vars
  <2>1. UNCHANGED <<users, history, used, missed, req, calm>>
    BY <1>1 DEF Tick, vars, tables, ghosts
  <2>2. QED
    BY <2>1 DEF HistoryInv
<1>2. CASE Crash
  <2>1. /\ UNCHANGED <<users, history, used, missed>>
        /\ calm' => calm /\ req' = req
        /\ \A p \in Request : req'[p] = Idle
    BY <1>2, TypeParts DEF Crash, tables, ghosts
  <2>2. QED
    BY <2>1 DEF HistoryInv
<1>3. ASSUME NEW p \in Request, Accept(p) PROVE HistoryInv'
  <2>1. PICK r \in Local : Accepted(p, r)
    BY <1>3, AcceptIs
  <2>2. UNCHANGED <<users, history, used, missed>> /\ Moves(p, r) /\ req[p] = Idle
    BY <2>1, AcceptedMoves DEF Accepted, tables, ghosts
  <2>3. ~Checked(r) /\ \A u : ~Recording(r, u)
    <3>1. CASE Registers(r) \/ Governs(r)
      BY <3>1 DEF Registers, Governs, Checked, Recording
    <3>2. CASE \E u \in Account : Copies(r, u)
      BY <3>2 DEF Copies, Attempts, Edits, Locks, Checked, Recording
    <3>3. QED
      BY <2>1, <3>1, <3>2 DEF Accepted
  <2>4. r.pc \notin {"record", "prune"}
    BY <2>1, AcceptedMoves
  <2>5. Remembers(r, users, history, used, missed)
    BY <2>3, <2>4 DEF Remembers, ChecksHold
  <2>6. QED
    BY <2>2, <2>5, IdleRemembers, LeavesRemember
<1>4. ASSUME NEW p \in Request, Continue(p) PROVE HistoryInv'
  BY <1>4, ContinueIs, GoesAheadRemembers
<1>5. QED
  BY <1>1, <1>2, <1>3, <1>4 DEF Next

\* As long as requests do not overlap and none is cut short, no user whose
\* passwords were all recorded is given one again that is one of the Keep before
\* it, but for generated ones: the newest rows that password_history holds of a
\* member are those of the newest passwords given, pruned or not
\* (user_service.go, ChangePassword and UpdateUserFull; password_policy_service.go).
THEOREM RecentNeverReused == Spec => []RecentNotReused
<1>1. Init => HistoryInv
  <2> SUFFICES ASSUME Init PROVE HistoryInv
    OBVIOUS
  <2>1. PICK email \in Email :
          users = [u \in User |-> IF u = Owner
                      THEN NewRow(email, TRUE, "admin", FALSE, Temporary, TRUE) ELSE Unused]
    BY DEF Init
  <2>2. \A u \in User : used[u] = <<>> /\ history[u] = <<>>
    BY DEF Init
  <2>3. \A u \in User : MemberIn(users, u) => u = Owner
    BY <2>1, RowsInTable DEF MemberIn
  <2>4. <<>> = Newest(<<>>) /\ NotReused(<<>>)
    BY EmptySeq, LenProperties, AccountsAssumption DEF Newest, NotReused
  <2>5. UniqueIn(users)
    BY <2>3 DEF UniqueIn
  <2>6. \A p \in Request : Remembers(req[p], users, history, used, missed)
    BY IdleRemembers DEF Init
  <2>7. QED
    BY <2>2, <2>4, <2>5, <2>6 DEF HistoryInv
<1>2. HistoryInv => RecentNotReused
  BY DEF HistoryInv, NotReused, RecentNotReused
<1>3. QED
  BY <1>1, <1>2, InitTyped, NextTyped, AlwaysCopied, HistoryNext, PTL DEF Spec
===============================================================================
