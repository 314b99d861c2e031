--------------------------- MODULE AccountsProofs ---------------------------
(***************************************************************************)
(* The admins keep an active one among them, an invite works once and a    *)
(* quota holds, for any number of accounts, requests and invites.          *)
(***************************************************************************)
EXTENDS Accounts, FiniteSetTheorems, TLAPS

Roles    == {"none", "user", "admin"}
Statuses == {"none", "invited", "active", "disabled"}
Rows == [role : Roles, status : Statuses, valid : BOOLEAN, admins : Nat]
Places == {"idle", "issue", "status", "accept", "choose", "add", "login", "fails", "succeeds"}
Jobs == [at : Places, who : Names, n : Nat, ip : Ips \cup {Invite}, seen : Rows, stale : BOOLEAN]

(* What a request works on, by where it is. *)
WorkInv ==
    /\ work \in [Workers -> Jobs]
    /\ \A w \in Workers :
          /\ work[w].at \in {"issue", "status", "accept", "choose", "add", "login"} => work[w].who \in Accounts
          /\ work[w].at \in {"accept", "choose", "login", "fails", "succeeds"} => work[w].ip \in Ips

(* A snapshot nobody has committed past is what the table holds. *)
SnapshotInv ==
    \A w \in Workers : work[w].at = "status" /\ ~work[w].stale =>
        /\ work[w].seen.role = role[work[w].who]
        /\ work[w].seen.status = status[work[w].who]
        /\ work[w].seen.admins = Cardinality(Admins)

(* A valid invite is newer than the password. *)
FreshInv == \A a \in Accounts : password[a] <= issued[a] /\ (valid[a] => password[a] < issued[a])

AccountsInv == TypeOK /\ WorkInv /\ SnapshotInv /\ FreshInv /\ LastAdminKept

-----------------------------------------------------------------------------
LEMMA AdminsFinite == IsFiniteSet(Admins) /\ Cardinality(Admins) \in Nat
  BY AccountsAssumption, FS_Subset, FS_CardinalityType DEF Admins

LEMMA NoRowType == NoRow \in Rows
  BY DEF NoRow, Rows, Roles, Statuses

LEMMA JobType ==
  ASSUME NEW at \in Places, NEW who \in Names
  PROVE  /\ Job(at, who) \in Jobs /\ Job(at, who).at = at /\ Job(at, who).who = who
         /\ Job(at, who).stale = FALSE
  BY NoRowType DEF Job, Jobs

LEMMA IdleType == Idle \in Jobs /\ Idle.at = "idle"
<1>1. "idle" \in Places /\ Invite \in Names
  BY DEF Places, Names
<1> QED
  BY <1>1, JobType, Zenon DEF Idle

LEMMA RowType ==
  ASSUME TypeOK, NEW a \in Accounts
  PROVE  Row(a) \in Rows
  BY AdminsFinite DEF TypeOK, Row, Rows, Roles, Statuses

(* Being left behind changes nothing else of a request. *)
LEMMA StaleType ==
  ASSUME NEW j \in Jobs
  PROVE  /\ Stale(j) \in Jobs /\ Stale(j).at = j.at /\ Stale(j).who = j.who /\ Stale(j).ip = j.ip
         /\ j.at = "status" => Stale(j).stale
  BY DEF Stale, Jobs, Places

(* A committed statement leaves every other transaction behind. *)
LEMMA OthersKeep ==
  ASSUME WorkInv, NEW w \in Workers, NEW j \in Jobs, work' = Others(w, j),
         j.at # "status",
         j.at \in {"issue", "add"} => j.who \in Accounts,
         j.at \in {"idle", "issue", "add"}
  PROVE  WorkInv' /\ SnapshotInv'
<1>1. ASSUME NEW v \in Workers
      PROVE  /\ work'[v] \in Jobs
             /\ work'[v].at \in {"issue", "status", "accept", "choose", "add", "login"} => work'[v].who \in Accounts
             /\ work'[v].at \in {"accept", "choose", "login", "fails", "succeeds"} => work'[v].ip \in Ips
             /\ work'[v].at = "status" => work'[v].stale
  <2>1. CASE v = w
    BY <2>1 DEF Others
  <2>2. CASE v # w
    <3>1. work'[v] = Stale(work[v]) /\ work[v] \in Jobs
      BY <2>2 DEF Others, WorkInv
    <3> QED
      BY <3>1, StaleType DEF WorkInv
  <2> QED
    BY <2>1, <2>2
<1>2. work' \in [Workers -> Jobs]
  BY <1>1 DEF Others
<1> QED
  BY <1>1, <1>2 DEF WorkInv, SnapshotInv

LEMMA CommittedKeeps ==
  ASSUME WorkInv, Committed
  PROVE  WorkInv' /\ SnapshotInv'
<1>1. ASSUME NEW v \in Workers
      PROVE  /\ work'[v] \in Jobs
             /\ work'[v].at \in {"issue", "status", "accept", "choose", "add", "login"} => work'[v].who \in Accounts
             /\ work'[v].at \in {"accept", "choose", "login", "fails", "succeeds"} => work'[v].ip \in Ips
             /\ work'[v].at = "status" => work'[v].stale
  <2>1. work'[v] = Stale(work[v]) /\ work[v] \in Jobs
    BY DEF Committed, WorkInv
  <2> QED
    BY <2>1, StaleType DEF WorkInv
<1>2. work' \in [Workers -> Jobs]
  BY <1>1 DEF Committed
<1> QED
  BY <1>1, <1>2 DEF WorkInv, SnapshotInv

(* A step that only reads. *)
LEMMA GoesKeeps ==
  ASSUME WorkInv, SnapshotInv, NEW w \in Workers, NEW j \in Jobs, Goes(w, j),
         UNCHANGED <<role, status>>,
         j.at \in {"issue", "status", "accept", "choose", "add", "login"} => j.who \in Accounts,
         j.at \in {"accept", "choose", "login", "fails", "succeeds"} => j.ip \in Ips,
         j.at = "status" => /\ j.seen.role = role[j.who] /\ j.seen.status = status[j.who]
                            /\ j.seen.admins = Cardinality(Admins)
  PROVE  WorkInv' /\ SnapshotInv'
<1>1. Admins' = Admins
  BY DEF Admins
<1>2. work' \in [Workers -> Jobs] /\ \A v \in Workers : work'[v] = IF v = w THEN j ELSE work[v]
  BY DEF Goes, WorkInv
<1>3. WorkInv'
  BY <1>2 DEF WorkInv
<1>4. SnapshotInv'
  <2> SUFFICES ASSUME NEW v \in Workers, work'[v].at = "status", ~work'[v].stale
               PROVE  /\ work'[v].seen.role = role[work'[v].who]
                      /\ work'[v].seen.status = status[work'[v].who]
                      /\ work'[v].seen.admins = Cardinality(Admins)
    BY <1>1 DEF SnapshotInv
  <2> QED
    BY <1>2 DEF SnapshotInv
<1> QED
  BY <1>3, <1>4

(* An active admin is only disabled while there is another one. *)
LEMMA AdminStays ==
  ASSUME LastAdminKept, TypeOK, UNCHANGED role, NEW a \in Accounts, NEW s,
         status' = [status EXCEPT ![a] = s],
         a \in Admins => Cardinality(Admins) > 1
  PROVE  LastAdminKept'
<1>1. \E b \in Admins : b # a
  <2>1. CASE a \notin Admins
    BY <2>1 DEF LastAdminKept
  <2>2. CASE a \in Admins
    <3>1. Cardinality({a}) = 1
      BY FS_Singleton
    <3>2. Admins # {a}
      BY <2>2, <3>1
    <3> QED
      BY <2>2, <3>2
  <2> QED
    BY <2>1, <2>2
<1>2. PICK b \in Admins : b # a
  BY <1>1
<1>3. b \in Admins'
  BY <1>2 DEF Admins, TypeOK
<1> QED
  BY <1>3 DEF LastAdminKept

LEMMA SameAdmins ==
  ASSUME LastAdminKept, UNCHANGED <<role, status>>
  PROVE  LastAdminKept'
  BY DEF LastAdminKept, Admins

-----------------------------------------------------------------------------
(* The statements that write, one by one. *)
LEMMA CreateKeeps ==
  ASSUME AccountsInv, NEW w \in Workers, NEW a \in Accounts, NEW l \in 0..MaxOwned, Create(w, a, l)
  PROVE  AccountsInv'
<1> USE DEF AccountsInv
<1>1. TypeOK'
  BY DEF TypeOK, Create
<1>2. Job("issue", a) \in Jobs /\ Job("issue", a).at = "issue" /\ Job("issue", a).who = a
  <2>1. "issue" \in Places /\ a \in Names
    BY DEF Places, Names
  <2> QED
    BY <2>1, JobType
<1>3. work' = Others(w, Job("issue", a))
  BY DEF Create
<1>4. WorkInv' /\ SnapshotInv'
  BY <1>2, <1>3, OthersKeep
<1>5. FreshInv'
  BY DEF FreshInv, Create
<1>6. \A b \in Admins : b \in Admins'
  BY DEF Admins, Create, TypeOK
<1> QED
  BY <1>1, <1>4, <1>5, <1>6 DEF LastAdminKept

LEMMA IssueKeeps ==
  ASSUME AccountsInv, NEW w \in Workers, IssueInvite(w)
  PROVE  AccountsInv'
<1> USE DEF AccountsInv
<1> DEFINE a == work[w].who
<1>a. a \in Accounts
  BY DEF WorkInv, IssueInvite
<1>1. TypeOK'
  <2>1. CASE role[a] = "user"
    <3>1. issued[a] + 1 \in 0..MaxInvites
      BY <1>a, <2>1, LimitsAssumption DEF TypeOK, IssueInvite
    <3> QED
      BY <1>a, <2>1, <3>1 DEF TypeOK, IssueInvite
  <2>2. CASE role[a] # "user"
    BY <2>2 DEF TypeOK, IssueInvite
  <2> QED
    BY <2>1, <2>2
<1>2. WorkInv' /\ SnapshotInv'
  BY IdleType, OthersKeep DEF IssueInvite
<1>3. FreshInv'
  BY <1>a, LimitsAssumption DEF FreshInv, IssueInvite, TypeOK
<1>4. Admins' = Admins
  BY <1>a DEF IssueInvite, Admins, TypeOK
<1> QED
  BY <1>1, <1>2, <1>3, <1>4 DEF LastAdminKept

LEMMA WriteStatusKeeps ==
  ASSUME AccountsInv, NEW w \in Workers, WriteStatus(w)
  PROVE  AccountsInv'
<1> USE DEF AccountsInv
<1> DEFINE a == work[w].who
           s == Following(work[w].seen)
<1>a. a \in Accounts /\ s \in Statuses
  BY DEF WorkInv, WriteStatus, Following, Statuses
<1>b. status' = [status EXCEPT ![a] = s] /\ UNCHANGED <<role, issued, valid, password, limit, owned, failures>>
  BY DEF WriteStatus
<1>1. TypeOK'
  BY <1>a, <1>b DEF TypeOK, Statuses
<1>2. WorkInv' /\ SnapshotInv'
  BY IdleType, OthersKeep DEF WriteStatus
<1>3. FreshInv'
  BY <1>b DEF FreshInv
<1>4. a \in Admins => Cardinality(Admins) > 1
  BY DEF SnapshotInv, WriteStatus, MayFollow, Admins
<1>5. LastAdminKept'
  BY <1>a, <1>b, <1>4, AdminStays
<1> QED
  BY <1>1, <1>2, <1>3, <1>5

LEMMA AcceptKeeps ==
  ASSUME AccountsInv, NEW w \in Workers, AcceptInvite(w)
  PROVE  AccountsInv'
<1> USE DEF AccountsInv
<1> DEFINE a == work[w].who
<1>a. a \in Accounts /\ work[w].n = issued[a] /\ role[a] = "user"
  BY DEF WorkInv, AcceptInvite, StillAccepts, Accepts
<1>1. TypeOK'
  BY <1>a DEF TypeOK, AcceptInvite
<1>2. WorkInv' /\ SnapshotInv'
  BY IdleType, OthersKeep DEF AcceptInvite
<1>3. FreshInv'
  BY <1>a DEF FreshInv, AcceptInvite, TypeOK
<1>4. Admins' = Admins
  BY <1>a DEF AcceptInvite, Admins, TypeOK
<1> QED
  BY <1>1, <1>2, <1>3, <1>4 DEF LastAdminKept

LEMMA RecordKeeps ==
  ASSUME AccountsInv, NEW w \in Workers, Record(w) \/ Forget(w)
  PROVE  AccountsInv'
<1> USE DEF AccountsInv
<1>a. UNCHANGED <<role, status, issued, valid, password, limit, owned>>
  BY DEF Record, Forget, operators
<1>b. failures' \in [Ips \X Names \X Ages -> Nat]
  <2>1. CASE Record(w)
    <3>1. failures \in [Ips \X Names \X Ages -> Nat]
      BY DEF TypeOK
    <3>2. PICK f : f = <<work[w].ip, work[w].who, 0>>
      OBVIOUS
    <3>3. work[w].ip \in Ips /\ work[w].who \in Names /\ 0 \in Ages
      BY <2>1, LimitsAssumption DEF Record, WorkInv, Jobs, Ages
    <3>4. f \in Ips \X Names \X Ages
      BY <3>2, <3>3
    <3>5. failures' = [failures EXCEPT ![f] = @ + 1]
      BY <2>1, <3>2 DEF Record
    <3> QED
      BY <3>1, <3>4, <3>5
  <2>2. CASE Forget(w)
    BY <2>2 DEF Forget, TypeOK
  <2> QED
    BY <2>1, <2>2
<1>1. TypeOK'
  BY <1>a, <1>b DEF TypeOK
<1>2. WorkInv' /\ SnapshotInv'
  BY IdleType, OthersKeep DEF Record, Forget
<1>3. FreshInv' /\ LastAdminKept'
  BY <1>a, SameAdmins DEF FreshInv
<1> QED
  BY <1>1, <1>2, <1>3

LEMMA AddPointKeeps ==
  ASSUME AccountsInv, NEW w \in Workers, AddPoint(w)
  PROVE  AccountsInv'
<1> USE DEF AccountsInv
<1>a. UNCHANGED <<role, status, issued, valid, password, limit, failures>> /\ work[w].who \in Accounts
  BY DEF AddPoint, operators, WorkInv
<1>1. TypeOK'
  BY <1>a, LimitsAssumption DEF TypeOK, AddPoint
<1>2. WorkInv' /\ SnapshotInv'
  BY IdleType, OthersKeep DEF AddPoint
<1>3. FreshInv' /\ LastAdminKept'
  BY <1>a, SameAdmins DEF FreshInv
<1> QED
  BY <1>1, <1>2, <1>3

(* What the CLI, an admin and time change on their own. *)
LEMMA RowKeeps ==
  ASSUME AccountsInv, NEW a \in Accounts,
         \/ CreateOperator(a)
         \/ RemovePoint(a)
         \/ \E l \in 0..MaxOwned : SetLimit(a, l)
  PROVE  AccountsInv'
<1> USE DEF AccountsInv
<1>1. TypeOK'
  <2>1. CASE CreateOperator(a)
    <3>1. limit' \in [Accounts -> 0..MaxOwned]
      BY <2>1, LimitsAssumption DEF TypeOK, CreateOperator
    <3> QED
      BY <2>1, <3>1 DEF TypeOK, CreateOperator
  <2>2. CASE RemovePoint(a)
    BY <2>2, LimitsAssumption DEF TypeOK, RemovePoint, operators
  <2>3. CASE \E l \in 0..MaxOwned : SetLimit(a, l)
    BY <2>3 DEF TypeOK, SetLimit
  <2> QED
    BY <2>1, <2>2, <2>3
<1>2. WorkInv' /\ SnapshotInv'
  BY CommittedKeeps DEF CreateOperator, RemovePoint, SetLimit
<1>3. FreshInv'
  BY DEF FreshInv, CreateOperator, RemovePoint, SetLimit, operators, TypeOK
<1>4. \A b \in Admins : b \in Admins'
  BY DEF Admins, CreateOperator, RemovePoint, SetLimit, operators, TypeOK
<1> QED
  BY <1>1, <1>2, <1>3, <1>4 DEF LastAdminKept

LEMMA TimeKeeps ==
  ASSUME AccountsInv, Tick \/ \E a \in Accounts : Expire(a)
  PROVE  AccountsInv'
<1> USE DEF AccountsInv
<1>a. UNCHANGED <<role, status, issued, password, limit, owned, work>>
  BY DEF Tick, Expire, operators
<1>b. failures' \in [Ips \X Names \X Ages -> Nat]
  <2>1. CASE Tick
    <3>1. failures \in [Ips \X Names \X Ages -> Nat]
      BY DEF TypeOK
    <3>2. ASSUME NEW f \in Ips \X Names \X Ages
          PROVE  (IF f[3] = 0 THEN 0 ELSE failures[<<f[1], f[2], f[3] - 1>>]) \in Nat
      <4>1. f[3] # 0 => f[1] \in Ips /\ f[2] \in Names /\ f[3] - 1 \in Ages
        BY LimitsAssumption DEF Ages
      <4>2. f[3] # 0 => <<f[1], f[2], f[3] - 1>> \in Ips \X Names \X Ages
        BY <4>1
      <4> QED
        BY <3>1, <4>2
    <3>3. DOMAIN failures = Ips \X Names \X Ages
      BY <3>1
    <3> QED
      BY <2>1, <3>2, <3>3 DEF Tick
  <2>2. CASE ~Tick
    BY <2>2 DEF Expire, TypeOK
  <2> QED
    BY <2>1, <2>2
<1>c. valid' \in [Accounts -> BOOLEAN] /\ \A b \in Accounts : valid'[b] => valid[b]
  BY DEF Tick, Expire, TypeOK, operators
<1>1. TypeOK'
  BY <1>a, <1>b, <1>c DEF TypeOK
<1>2. WorkInv' /\ SnapshotInv'
  BY <1>a DEF WorkInv, SnapshotInv, Admins
<1>3. FreshInv' /\ LastAdminKept'
  BY <1>a, <1>c, SameAdmins DEF FreshInv
<1> QED
  BY <1>1, <1>2, <1>3

(* Everything that only reads, and the end of a request. *)
LEMMA ReadKeeps ==
  ASSUME AccountsInv, NEW w \in Workers, UNCHANGED <<operators, owned, failures>>,
         WorkInv', SnapshotInv'
  PROVE  AccountsInv'
<1>1. UNCHANGED <<role, status, issued, valid, password, limit, owned, failures>>
  BY DEF operators
<1> QED
  BY <1>1, SameAdmins DEF AccountsInv, TypeOK, FreshInv

LEMMA JobsOf ==
  ASSUME NEW at \in Places, NEW who \in Names, at # "status",
         NEW w \in Workers, WorkInv, SnapshotInv, UNCHANGED <<role, status>>,
         at \in {"issue", "accept", "add", "login"} => who \in Accounts,
         at \notin {"accept", "choose", "login", "fails", "succeeds"},
         Goes(w, Job(at, who))
  PROVE  WorkInv' /\ SnapshotInv'
<1>1. Job(at, who) \in Jobs /\ Job(at, who).at = at /\ Job(at, who).who = who
  BY JobType
<1> QED
  BY <1>1, GoesKeeps

LEMMA AskKeeps ==
  ASSUME AccountsInv, NEW w \in Workers, NEW a \in Accounts, AskInvite(w, a) \/ AskPoint(w, a)
  PROVE  AccountsInv'
<1>1. UNCHANGED <<operators, owned, failures>> /\ UNCHANGED <<role, status>>
  BY DEF AskInvite, AskPoint, operators
<1>2. "issue" \in Places /\ "add" \in Places /\ a \in Names
  BY DEF Places, Names
<1>3. WorkInv' /\ SnapshotInv'
  <2>1. CASE AskInvite(w, a)
    <3>1. Goes(w, Job("issue", a))
      BY <2>1 DEF AskInvite
    <3> QED
      BY <1>1, <1>2, <3>1, JobsOf DEF AccountsInv
  <2>2. CASE AskPoint(w, a)
    <3>1. Goes(w, Job("add", a))
      BY <2>2 DEF AskPoint
    <3> QED
      BY <1>1, <1>2, <3>1, JobsOf DEF AccountsInv
  <2> QED
    BY <2>1, <2>2
<1> QED
  BY <1>1, <1>3, ReadKeeps

LEMMA AbandonKeeps ==
  ASSUME AccountsInv, NEW w \in Workers, Abandon(w)
  PROVE  AccountsInv'
<1>1. UNCHANGED <<operators, owned, failures>> /\ UNCHANGED <<role, status>>
  BY DEF Abandon, operators
<1>2. WorkInv' /\ SnapshotInv'
  BY <1>1, IdleType, GoesKeeps DEF Abandon, AccountsInv
<1> QED
  BY <1>1, <1>2, ReadKeeps

LEMMA ReadStatusKeeps ==
  ASSUME AccountsInv, NEW w \in Workers, NEW a \in Accounts, ReadStatus(w, a)
  PROVE  AccountsInv'
<1>1. UNCHANGED <<operators, owned, failures>> /\ UNCHANGED <<role, status>>
  BY DEF ReadStatus, operators
<1>2. "status" \in Places /\ a \in Names
  BY DEF Places, Names
<1>3. Row(a) \in Rows
  BY RowType DEF AccountsInv
<1>4. PICK j : j = [Job("status", a) EXCEPT !.seen = Row(a)]
  OBVIOUS
<1>a. PICK k : k = Job("status", a)
  OBVIOUS
<1>b. k \in Jobs /\ k.at = "status" /\ k.who = a /\ j = [k EXCEPT !.seen = Row(a)]
  BY <1>2, <1>4, <1>a, JobType
<1>5. j \in Jobs /\ j.at = "status" /\ j.who = a /\ j.seen = Row(a)
  BY <1>3, <1>b DEF Jobs
<1>6. Goes(w, j)
  BY <1>4 DEF ReadStatus
<1>7. Row(a).role = role[a] /\ Row(a).status = status[a] /\ Row(a).admins = Cardinality(Admins)
  BY DEF Row
<1>8. WorkInv' /\ SnapshotInv'
  BY <1>1, <1>5, <1>6, <1>7, GoesKeeps DEF AccountsInv
<1> QED
  BY <1>1, <1>8, ReadKeeps

LEMMA ReadInviteKeeps ==
  ASSUME AccountsInv, NEW w \in Workers, NEW i \in Ips, NEW a \in Accounts, NEW n \in 1..MaxInvites,
         ReadInvite(w, i, a, n)
  PROVE  AccountsInv'
<1>1. UNCHANGED <<operators, owned, failures>> /\ UNCHANGED <<role, status>>
  BY DEF ReadInvite, operators
<1>2. "accept" \in Places /\ a \in Names /\ n \in Nat
  BY LimitsAssumption DEF Places, Names
<1>3. PICK k : k = [Job("accept", a) EXCEPT !.n = n]
  OBVIOUS
<1>a. PICK l : l = Job("accept", a)
  OBVIOUS
<1>b. l \in Jobs /\ l.at = "accept" /\ l.who = a /\ k = [l EXCEPT !.n = n]
  BY <1>2, <1>3, <1>a, JobType
<1>4. k \in Jobs /\ k.at = "accept" /\ k.who = a
  BY <1>2, <1>b DEF Jobs
<1>5. PICK j : j = [k EXCEPT !.ip = i]
  OBVIOUS
<1>6. j \in Jobs /\ j.at = "accept" /\ j.who = a /\ j.ip = i
  BY <1>4, <1>5 DEF Jobs
<1>7. Goes(w, j)
  BY <1>3, <1>5, Zenon DEF ReadInvite
<1>8. WorkInv' /\ SnapshotInv'
  BY <1>1, <1>6, <1>7, GoesKeeps DEF AccountsInv
<1> QED
  BY <1>1, <1>8, ReadKeeps

LEMMA PassThrottleKeeps ==
  ASSUME AccountsInv, NEW w \in Workers, PassThrottle(w)
  PROVE  AccountsInv'
<1>1. UNCHANGED <<operators, owned, failures>> /\ UNCHANGED <<role, status>>
  BY DEF PassThrottle, operators
<1>2. work[w] \in Jobs /\ work[w].who \in Accounts /\ work[w].ip \in Ips
  BY DEF AccountsInv, WorkInv, PassThrottle
<1>3. PICK j : j = [work[w] EXCEPT !.at = "choose"]
  OBVIOUS
<1>4. j \in Jobs /\ j.at = "choose" /\ j.who = work[w].who /\ j.ip = work[w].ip
  BY <1>2, <1>3 DEF Jobs, Places
<1>5. WorkInv' /\ SnapshotInv'
  BY <1>1, <1>2, <1>3, <1>4, GoesKeeps DEF AccountsInv, PassThrottle
<1> QED
  BY <1>1, <1>5, ReadKeeps

LEMMA AttemptKeeps ==
  ASSUME AccountsInv, NEW w \in Workers, NEW i \in Ips, NEW n \in Names, Attempt(w, i, n)
  PROVE  AccountsInv'
<1>1. UNCHANGED <<operators, owned, failures>> /\ UNCHANGED <<role, status>>
  BY DEF Attempt, operators
<1>2. PICK at : at = IF n = Invite THEN "fails" ELSE "login"
  OBVIOUS
<1>3. at \in Places /\ (at = "fails" \/ (at = "login" /\ n \in Accounts))
  BY <1>2 DEF Places, Names
<1>4. PICK j : j = [Job(at, n) EXCEPT !.ip = i]
  OBVIOUS
<1>a. PICK k : k = Job(at, n)
  OBVIOUS
<1>b. k \in Jobs /\ k.at = at /\ k.who = n /\ j = [k EXCEPT !.ip = i]
  BY <1>3, <1>4, <1>a, JobType
<1>5. j \in Jobs /\ j.at = at /\ j.who = n /\ j.ip = i
  BY <1>b DEF Jobs
<1>6. Goes(w, j)
  BY <1>2, <1>4, Zenon DEF Attempt
<1>7. WorkInv' /\ SnapshotInv'
  BY <1>1, <1>3, <1>5, <1>6, GoesKeeps DEF AccountsInv
<1> QED
  BY <1>1, <1>7, ReadKeeps

LEMMA VerifyKeeps ==
  ASSUME AccountsInv, NEW w \in Workers, Verify(w)
  PROVE  AccountsInv'
<1>1. UNCHANGED <<operators, owned, failures>> /\ UNCHANGED <<role, status>>
  BY DEF Verify, operators
<1>2. PICK end \in {"fails", "succeeds"} : Goes(w, [work[w] EXCEPT !.at = end])
  BY DEF Verify
<1>3. work[w] \in Jobs /\ work[w].ip \in Ips
  BY DEF AccountsInv, WorkInv, Verify
<1>4. PICK j : j = [work[w] EXCEPT !.at = end]
  OBVIOUS
<1>5. j \in Jobs /\ j.at = end /\ j.ip = work[w].ip
  BY <1>2, <1>3, <1>4 DEF Jobs, Places
<1>6. WorkInv' /\ SnapshotInv'
  BY <1>1, <1>2, <1>3, <1>4, <1>5, GoesKeeps DEF AccountsInv
<1> QED
  BY <1>1, <1>6, ReadKeeps

-----------------------------------------------------------------------------
LEMMA InitKeeps == Init => AccountsInv
<1> SUFFICES ASSUME Init PROVE AccountsInv
  OBVIOUS
<1>1. TypeOK
  BY AccountsAssumption, LimitsAssumption DEF Init, TypeOK
<1>2. WorkInv /\ SnapshotInv
  BY IdleType DEF Init, WorkInv, SnapshotInv
<1>3. FreshInv
  BY DEF Init, FreshInv
<1>4. Root \in Admins
  BY AccountsAssumption DEF Init, Admins
<1> QED
  BY <1>1, <1>2, <1>3, <1>4 DEF AccountsInv, LastAdminKept

LEMMA StepKeeps == AccountsInv /\ [Next]_vars => AccountsInv'
<1> SUFFICES ASSUME AccountsInv, [Next]_vars PROVE AccountsInv'
  OBVIOUS
<1>1. ASSUME NEW w \in Workers, Accounting(w) PROVE AccountsInv'
  BY <1>1, CreateKeeps, AskKeeps, ReadStatusKeeps, IssueKeeps, WriteStatusKeeps, AbandonKeeps
     DEF Accounting
<1>2. ASSUME NEW w \in Workers, SigningIn(w) PROVE AccountsInv'
  BY <1>2, ReadInviteKeeps, PassThrottleKeeps, AttemptKeeps, AcceptKeeps, VerifyKeeps, RecordKeeps DEF SigningIn
<1>3. ASSUME NEW w \in Workers, AddPoint(w) PROVE AccountsInv'
  BY <1>3, AddPointKeeps
<1>4. ASSUME NEW w \in Workers, NEW a \in Accounts, AskPoint(w, a) PROVE AccountsInv'
  BY <1>4, AskKeeps
<1>5. ASSUME NEW a \in Accounts, CreateOperator(a) \/ RemovePoint(a) \/ \E l \in 0..MaxOwned : SetLimit(a, l)
      PROVE AccountsInv'
  BY <1>5, RowKeeps
<1>6. CASE Tick \/ \E a \in Accounts : Expire(a)
  BY <1>6, TimeKeeps
<1>7. CASE UNCHANGED vars
  BY <1>7, SameAdmins DEF vars, operators, AccountsInv, TypeOK, WorkInv, SnapshotInv, FreshInv, Admins
<1> QED
  BY <1>1, <1>2, <1>3, <1>4, <1>5, <1>6, <1>7 DEF Next

LEMMA InvAlways == Spec => []AccountsInv
  BY InitKeeps, StepKeeps, PTL DEF Spec

(* Every variable has its type; a promise of the schema (0008_accounts.sql). *)
THEOREM TypesAlways == Spec => []TypeOK
  BY InvAlways, PTL DEF AccountsInv

(* However many requests disable admins at once, one stays (accounts.php:76). *)
THEOREM LastAdminAlwaysKept == Spec => []LastAdminKept
  BY InvAlways, PTL DEF AccountsInv

(* An invite works once, and only the newest (accept_invite.php:40). *)
THEOREM InvitesWorkOnce == Spec => InviteWorksOnce
<1>1. ASSUME AccountsInv, [Next]_vars, NEW a \in Accounts, password'[a] # password[a]
      PROVE  password'[a] = issued[a] /\ password[a] < issued[a] /\ valid[a] /\ status[a] = "invited"
  <2>1. PICK w \in Workers : AcceptInvite(w)
    BY <1>1 DEF Next, vars, operators, Accounting, SigningIn, Create, AskInvite, IssueInvite, SetLimit,
          ReadStatus, WriteStatus, Abandon, CreateOperator, ReadInvite, PassThrottle, Expire, Attempt, Verify, Record,
          Forget, Tick, AskPoint, AddPoint, RemovePoint
  <2>2. work[w].who = a /\ work[w].n = password'[a]
    BY <1>1, <2>1 DEF AcceptInvite, AccountsInv, TypeOK
  <2> QED
    BY <1>1, <2>1, <2>2 DEF AcceptInvite, StillAccepts, Accepts, AccountsInv, FreshInv
<1>2. AccountsInv /\ [Next]_vars =>
        [\A a \in Accounts : password'[a] # password[a] =>
          /\ password'[a] = issued[a] /\ password[a] < issued[a]
          /\ valid[a] /\ status[a] = "invited"]_vars
  BY <1>1
<1> QED
  BY <1>2, InvAlways, PTL DEF Spec, InviteWorksOnce

(* No request takes a user past the limit in force (SECURITY.md:208). *)
THEOREM QuotaAlwaysKept == Spec => QuotaKept
<1>1. ASSUME AccountsInv, [Next]_vars, NEW a \in Accounts, owned'[a] > owned[a], role[a] = "user"
      PROVE  owned'[a] <= limit[a]
  <2>1. (\E w \in Workers : AddPoint(w)) \/ (\E b \in Accounts : RemovePoint(b)) \/ owned' = owned
    BY <1>1 DEF Next, vars, operators, Accounting, SigningIn, Create, AskInvite, IssueInvite, SetLimit,
          ReadStatus, WriteStatus, Abandon, CreateOperator, ReadInvite, PassThrottle, AcceptInvite, Expire, Attempt,
          Verify, Record, Forget, Tick, AskPoint
  <2>2. owned \in [Accounts -> 0..MaxOwned]
    BY <1>1 DEF AccountsInv, TypeOK
  <2>3. owned' # owned
    BY <1>1, <2>2, LimitsAssumption
  <2>4. ASSUME NEW b \in Accounts, RemovePoint(b) PROVE FALSE
    BY <1>1, <2>2, <2>4, LimitsAssumption DEF RemovePoint
  <2>5. PICK w \in Workers : AddPoint(w)
    BY <2>1, <2>3, <2>4
  <2>6. owned' = [owned EXCEPT ![work[w].who] = @ + 1] /\ InQuota(work[w].who)
    BY <2>5 DEF AddPoint
  <2>7. a = work[w].who
    BY <1>1, <2>2, <2>6, LimitsAssumption
  <2>8. owned'[a] = owned[a] + 1 /\ owned[a] < limit[a] /\ owned[a] \in Int /\ limit[a] \in Int
    BY <1>1, <2>2, <2>6, <2>7, LimitsAssumption DEF InQuota, AccountsInv, TypeOK
  <2> QED
    BY <2>8
<1>2. AccountsInv /\ [Next]_vars =>
        [\A a \in Accounts : owned'[a] > owned[a] /\ role[a] = "user" => owned'[a] <= limit[a]]_vars
  BY <1>1
<1> QED
  BY <1>2, InvAlways, PTL DEF Spec, QuotaKept

-----------------------------------------------------------------------------
(* The throttle: what is counted are rows, so a finite set of them. *)

RowsOf(F, i) == UNION {{f} \X (1..F[f]) : f \in {i} \X Names \X Ages}

IsRowOf(F, i, x) ==
  \E n \in Names, g \in Ages : \E k \in 1..F[<<i, n, g>>] : x = <<<<i, n, g>>, k>>

LEMMA RowsOfAre ==
  ASSUME NEW F, NEW i, NEW x
  PROVE  x \in RowsOf(F, i) <=> IsRowOf(F, i, x)
<1> USE DEF IsRowOf
<1>1. x \in RowsOf(F, i) <=> \E f \in {i} \X Names \X Ages : x \in {f} \X (1..F[f])
  BY Zenon DEF RowsOf
<1>2. ASSUME NEW f
      PROVE  f \in {i} \X Names \X Ages <=> \E n \in Names, g \in Ages : f = <<i, n, g>>
  OBVIOUS
<1>3. ASSUME NEW f
      PROVE  x \in {f} \X (1..F[f]) <=> \E k \in 1..F[f] : x = <<f, k>>
  OBVIOUS
<1>4. ASSUME x \in RowsOf(F, i)
      PROVE  \E n \in Names, g \in Ages : \E k \in 1..F[<<i, n, g>>] : x = <<<<i, n, g>>, k>>
  <2>1. PICK f \in {i} \X Names \X Ages : x \in {f} \X (1..F[f])
    BY <1>1, <1>4
  <2>2. PICK n \in Names, g \in Ages : f = <<i, n, g>>
    BY <1>2, <2>1
  <2>3. PICK k \in 1..F[f] : x = <<f, k>>
    BY <1>3, <2>1
  <2> QED
    BY <2>2, <2>3
<1>5. ASSUME NEW n \in Names, NEW g \in Ages, NEW k \in 1..F[<<i, n, g>>], x = <<<<i, n, g>>, k>>
      PROVE  x \in RowsOf(F, i)
  <2>1. PICK f : f = <<i, n, g>>
    OBVIOUS
  <2>2. f \in {i} \X Names \X Ages /\ x \in {f} \X (1..F[f])
    BY <1>2, <1>3, <1>5, <2>1
  <2> QED
    BY <1>1, <2>2
<1> QED
  BY <1>4, <1>5, Zenon

LEMMA RecordedAre ==
  ASSUME NEW i \in Ips, NEW x
  PROVE  /\ x \in Recorded({i}, Names) <=>
            \E n \in Names, g \in Ages : \E k \in 1..failures[<<i, n, g>>] : x = <<<<i, n, g>>, k>>
         /\ x \in Recorded({i}, Names)' <=>
            \E n \in Names, g \in Ages : \E k \in 1..failures'[<<i, n, g>>] : x = <<<<i, n, g>>, k>>
<1>1. Recorded({i}, Names) = RowsOf(failures, i) /\ Recorded({i}, Names)' = RowsOf(failures', i)
  BY DEF Recorded, RowsOf
<1>2. /\ x \in Recorded({i}, Names) <=> IsRowOf(failures, i, x)
      /\ x \in Recorded({i}, Names)' <=> IsRowOf(failures', i, x)
  BY <1>1, RowsOfAre
<1> QED
  BY <1>2, Zenon DEF IsRowOf

LEMMA RowsFinite ==
  ASSUME NEW F \in [Ips \X Names \X Ages -> Nat], NEW i \in Ips
  PROVE  IsFiniteSet(RowsOf(F, i)) /\ Cardinality(RowsOf(F, i)) \in Nat
<1> DEFINE D == {i} \X Names \X Ages
           h == [f \in D |-> {f} \X (1..F[f])]
           R == {{f} \X (1..F[f]) : f \in D}
<1>1. IsFiniteSet({i}) /\ IsFiniteSet(Names) /\ IsFiniteSet(Ages)
  <2>1. IsFiniteSet({Invite}) /\ IsFiniteSet({i})
    BY FS_Singleton
  <2>2. IsFiniteSet(Names)
    BY <2>1, AccountsAssumption, FS_Union DEF Names
  <2>3. IsFiniteSet(Ages)
    BY LimitsAssumption, FS_Interval DEF Ages
  <2> QED
    BY <2>1, <2>2, <2>3
<1>2. IsFiniteSet(D)
  <2>1. IsFiniteSet({i} \X (Names \X Ages)) /\ IsFiniteSet(Names \X Ages)
    BY <1>1, FS_Product
  <2> DEFINE e == [p \in {i} \X (Names \X Ages) |-> <<p[1], p[2][1], p[2][2]>>]
  <2>2. e \in Surjection({i} \X (Names \X Ages), D)
    <3>1. e \in [{i} \X (Names \X Ages) -> D]
      OBVIOUS
    <3>2. ASSUME NEW f \in D PROVE \E p \in {i} \X (Names \X Ages) : e[p] = f
      <4>1. <<f[1], <<f[2], f[3]>>>> \in {i} \X (Names \X Ages)
        OBVIOUS
      <4>2. e[<<f[1], <<f[2], f[3]>>>>] = f
        BY <4>1
      <4> QED
        BY <4>1, <4>2
    <3> HIDE DEF e
    <3> QED
      BY <3>1, <3>2 DEF Surjection
  <2> QED
    BY <2>1, <2>2, FS_Surjection
<1>3. IsFiniteSet(R)
  <2>1. h \in Surjection(D, R)
    BY DEF Surjection
  <2> HIDE DEF h, R, D
  <2> QED
    BY <1>2, <2>1, FS_Surjection
<1>4. \A T \in R : IsFiniteSet(T)
  <2> SUFFICES ASSUME NEW f \in D PROVE IsFiniteSet({f} \X (1..F[f]))
    OBVIOUS
  <2>1. F[f] \in Nat
    OBVIOUS
  <2>2. IsFiniteSet({f})
    BY FS_Singleton
  <2>3. IsFiniteSet(1..F[f])
    BY <2>1, FS_Interval
  <2> QED
    BY <2>2, <2>3, FS_Product
<1>5. IsFiniteSet(RowsOf(F, i))
  <2> HIDE DEF D
  <2>1. IsFiniteSet(UNION R)
    BY <1>3, <1>4, FS_UNION
  <2> QED
    BY <2>1 DEF RowsOf, D
<1> QED
  BY <1>5, FS_CardinalityType

LEMMA RecordedFinite ==
  ASSUME NEW i \in Ips
  PROVE  /\ TypeOK => IsFiniteSet(Recorded({i}, Names)) /\ Counted({i}, Names) \in Nat
         /\ TypeOK' => Counted({i}, Names)' \in Nat
<1>1. Recorded({i}, Names) = RowsOf(failures, i) /\ Recorded({i}, Names)' = RowsOf(failures', i)
  BY DEF Recorded, RowsOf
<1>2. TypeOK => failures \in [Ips \X Names \X Ages -> Nat]
  BY DEF TypeOK
<1>3. TypeOK' => failures' \in [Ips \X Names \X Ages -> Nat]
  BY DEF TypeOK
<1> QED
  BY <1>1, <1>2, <1>3, RowsFinite DEF Counted

(* A recorded failure is one row more; of another address, none. *)
LEMMA RecordCounts ==
  ASSUME TypeOK, WorkInv, NEW w \in Workers, Record(w), NEW i \in Ips
  PROVE  Counted({i}, Names)' = IF i = work[w].ip THEN Counted({i}, Names) + 1 ELSE Counted({i}, Names)
<1> DEFINE p == <<work[w].ip, work[w].who, 0>>
           x == <<p, failures[p] + 1>>
<1>1. work[w].ip \in Ips /\ work[w].who \in Names /\ 0 \in Ages
  BY LimitsAssumption DEF Record, WorkInv, Jobs, Ages
<1>2. p \in Ips \X Names \X Ages /\ failures[p] \in Nat
  BY <1>1 DEF TypeOK
<1>3. failures' = [failures EXCEPT ![p] = @ + 1]
  BY DEF Record
<1>4. \A f \in Ips \X Names \X Ages : failures'[f] = IF f = p THEN failures[f] + 1 ELSE failures[f]
  BY <1>2, <1>3 DEF TypeOK
<1>5. CASE i = work[w].ip
  <2>1. Recorded({i}, Names)' = Recorded({i}, Names) \cup {x}
    <3>1. ASSUME NEW y
          PROVE  y \in Recorded({i}, Names)' <=> y \in Recorded({i}, Names) \/ y = x
      <4>1. y \in Recorded({i}, Names)' <=>
               \E n \in Names, g \in Ages : \E k \in 1..failures'[<<i, n, g>>] : y = <<<<i, n, g>>, k>>
        BY RecordedAre
      <4>2. ASSUME NEW n \in Names, NEW g \in Ages
            PROVE  /\ failures[<<i, n, g>>] \in Nat
                   /\ failures'[<<i, n, g>>] = IF <<i, n, g>> = p THEN failures[<<i, n, g>>] + 1
                                               ELSE failures[<<i, n, g>>]
        BY <1>4 DEF TypeOK
      <4>3. ASSUME NEW n \in Names, NEW g \in Ages, NEW k \in 1..failures'[<<i, n, g>>],
                   y = <<<<i, n, g>>, k>>
            PROVE  y \in Recorded({i}, Names) \/ y = x
        <5>1. k \in 1..failures[<<i, n, g>>] \/ (<<i, n, g>> = p /\ k = failures[p] + 1)
          BY <4>2
        <5> QED
          BY <4>3, <5>1, RecordedAre
      <4>4. ASSUME y \in Recorded({i}, Names) PROVE y \in Recorded({i}, Names)'
        <5>1. PICK n \in Names, g \in Ages : \E k \in 1..failures[<<i, n, g>>] : y = <<<<i, n, g>>, k>>
          BY <4>4, RecordedAre
        <5>2. 1..failures[<<i, n, g>>] \subseteq 1..failures'[<<i, n, g>>]
          BY <4>2
        <5> QED
          BY <4>1, <5>1, <5>2
      <4>5. ASSUME y = x PROVE y \in Recorded({i}, Names)'
        <5>1. failures[p] + 1 \in 1..failures'[p]
          BY <1>2, <1>4
        <5> QED
          BY <1>1, <1>5, <4>1, <4>5, <5>1
      <4> QED
        BY <4>1, <4>3, <4>4, <4>5
    <3> QED
      BY <3>1
  <2>2. x \notin Recorded({i}, Names)
    <3> SUFFICES ASSUME NEW n \in Names, NEW g \in Ages, NEW k \in 1..failures[<<i, n, g>>],
                        x = <<<<i, n, g>>, k>>
                 PROVE  FALSE
      BY RecordedAre
    <3>1. p = <<i, n, g>> /\ k = failures[p] + 1
      OBVIOUS
    <3> QED
      BY <1>2, <3>1
  <2>3. Cardinality(Recorded({i}, Names) \cup {x}) = Cardinality(Recorded({i}, Names)) + 1
    BY <2>2, RecordedFinite, FS_AddElement
  <2> QED
    BY <1>5, <2>1, <2>3 DEF Counted
<1>6. CASE i # work[w].ip
  <2>1. \A n \in Names, g \in Ages : failures'[<<i, n, g>>] = failures[<<i, n, g>>]
    BY <1>4, <1>6
  <2>2. ASSUME NEW y PROVE y \in Recorded({i}, Names)' <=> y \in Recorded({i}, Names)
    <3>1. ASSUME y \in Recorded({i}, Names)' PROVE y \in Recorded({i}, Names)
      <4>1. PICK n \in Names, g \in Ages : \E k \in 1..failures'[<<i, n, g>>] : y = <<<<i, n, g>>, k>>
        BY <3>1, RecordedAre
      <4> QED
        BY <2>1, <4>1, RecordedAre
    <3>2. ASSUME y \in Recorded({i}, Names) PROVE y \in Recorded({i}, Names)'
      <4>1. PICK n \in Names, g \in Ages : \E k \in 1..failures[<<i, n, g>>] : y = <<<<i, n, g>>, k>>
        BY <3>2, RecordedAre
      <4> QED
        BY <2>1, <4>1, RecordedAre
    <3> QED
      BY <3>1, <3>2
  <2>3. Recorded({i}, Names)' = Recorded({i}, Names)
    BY <2>2
  <2> QED
    BY <1>6, <2>3 DEF Counted
<1> QED
  BY <1>5, <1>6

(* A success clears its address and changes no other. *)
LEMMA ForgetCounts ==
  ASSUME TypeOK, NEW w \in Workers, Forget(w), NEW i \in Ips
  PROVE  Counted({i}, Names)' = IF i = work[w].ip THEN 0 ELSE Counted({i}, Names)
<1>1. \A n \in Names, g \in Ages :
         failures'[<<i, n, g>>] = IF i = work[w].ip THEN 0 ELSE failures[<<i, n, g>>]
  BY DEF Forget, TypeOK
<1>2. CASE i = work[w].ip
  <2>1. Recorded({i}, Names)' = {}
    <3> SUFFICES ASSUME NEW x, x \in Recorded({i}, Names)' PROVE FALSE
      OBVIOUS
    <3>1. PICK n \in Names, g \in Ages : \E k \in 1..failures'[<<i, n, g>>] : x = <<<<i, n, g>>, k>>
      BY RecordedAre
    <3> QED
      BY <1>1, <1>2, <3>1
  <2> QED
    BY <1>2, <2>1, FS_EmptySet DEF Counted
<1>3. CASE i # work[w].ip
  <2>1. ASSUME NEW x PROVE x \in Recorded({i}, Names)' <=> x \in Recorded({i}, Names)
    <3>1. ASSUME x \in Recorded({i}, Names)' PROVE x \in Recorded({i}, Names)
      <4>1. PICK n \in Names, g \in Ages : \E k \in 1..failures'[<<i, n, g>>] : x = <<<<i, n, g>>, k>>
        BY <3>1, RecordedAre
      <4> QED
        BY <1>1, <1>3, <4>1, RecordedAre
    <3>2. ASSUME x \in Recorded({i}, Names) PROVE x \in Recorded({i}, Names)'
      <4>1. PICK n \in Names, g \in Ages : \E k \in 1..failures[<<i, n, g>>] : x = <<<<i, n, g>>, k>>
        BY <3>2, RecordedAre
      <4> QED
        BY <1>1, <1>3, <4>1, RecordedAre
    <3> QED
      BY <3>1, <3>2
  <2>2. Recorded({i}, Names)' = Recorded({i}, Names)
    BY <2>1
  <2> QED
    BY <1>3, <2>2 DEF Counted
<1> QED
  BY <1>2, <1>3

(* Growing older, rows only leave: each row of the next moment was another
   one, a tick younger. *)
LEMMA TickCounts ==
  ASSUME TypeOK, Tick, NEW i \in Ips
  PROVE  Counted({i}, Names)' <= Counted({i}, Names) /\ Counted({i}, Names)' \in Nat
<1> DEFINE R == Recorded({i}, Names)
           S == Recorded({i}, Names)'
           h == [x \in S |-> <<<<i, x[1][2], x[1][3] - 1>>, x[2]>>]
<1>1. ASSUME NEW n \in Names, NEW g \in Ages
      PROVE  failures'[<<i, n, g>>] = IF g = 0 THEN 0 ELSE failures[<<i, n, g - 1>>]
  <2>1. <<i, n, g>> \in DOMAIN failures
    BY DEF TypeOK
  <2>2. failures' = [f \in DOMAIN failures |-> IF f[3] = 0 THEN 0 ELSE failures[<<f[1], f[2], f[3] - 1>>]]
    BY DEF Tick
  <2> QED
    BY <2>1, <2>2
<1>2. ASSUME NEW x \in S
      PROVE  \E n \in Names, g \in Ages : \E k \in 1..failures[<<i, n, g - 1>>] :
                x = <<<<i, n, g>>, k>> /\ g # 0
  <2>1. PICK n \in Names, g \in Ages : \E k \in 1..failures'[<<i, n, g>>] : x = <<<<i, n, g>>, k>>
    BY RecordedAre
  <2> QED
    BY <1>1, <2>1
<1>3. h \in [S -> R]
  <2> SUFFICES ASSUME NEW x \in S PROVE <<<<i, x[1][2], x[1][3] - 1>>, x[2]>> \in R
    OBVIOUS
  <2>1. PICK n \in Names, g \in Ages : \E k \in 1..failures[<<i, n, g - 1>>] :
           x = <<<<i, n, g>>, k>> /\ g # 0
    BY <1>2
  <2>2. g - 1 \in Ages
    BY <2>1, LimitsAssumption DEF Ages
  <2>3. PICK m : m = g - 1
    OBVIOUS
  <2>4. PICK k \in 1..failures[<<i, n, m>>] : x = <<<<i, n, g>>, k>>
    BY <2>1, <2>3
  <2>5. <<<<i, n, m>>, k>> \in R
    BY <2>2, <2>3, RecordedAre
  <2> QED
    BY <2>3, <2>4, <2>5
<1>4. ASSUME NEW x \in S, NEW y \in S, h[x] = h[y] PROVE x = y
  <2>1. PICK n \in Names, g \in Ages : \E k \in 1..failures[<<i, n, g - 1>>] : x = <<<<i, n, g>>, k>>
    BY <1>2
  <2>2. PICK m \in Names, f \in Ages : \E l \in 1..failures[<<i, m, f - 1>>] : y = <<<<i, m, f>>, l>>
    BY <1>2
  <2>3. PICK k : x = <<<<i, n, g>>, k>>
    BY <2>1
  <2>4. PICK l : y = <<<<i, m, f>>, l>>
    BY <2>2
  <2>5. <<<<i, n, g - 1>>, k>> = <<<<i, m, f - 1>>, l>>
    BY <1>4, <2>3, <2>4
  <2>6. n = m /\ g - 1 = f - 1 /\ k = l
    BY <2>5
  <2>7. g = f
    BY <2>6, LimitsAssumption DEF Ages
  <2> QED
    BY <2>3, <2>4, <2>6, <2>7
<1>5. h \in Injection(S, R)
  <2> HIDE DEF h, S, R
  <2>1. \A x, y \in S : h[x] = h[y] => x = y
    BY <1>4
  <2> QED
    BY <1>3, <2>1 DEF Injection, IsInjective
<1>6. IsFiniteSet(S) /\ Cardinality(S) <= Cardinality(R)
  <2>1. IsFiniteSet(R)
    BY RecordedFinite
  <2> HIDE DEF h, S, R
  <2> QED
    BY <1>5, <2>1, FS_Injection
<1>7. Cardinality(S) \in Nat
  BY <1>6, FS_CardinalityType
<1> QED
  BY <1>6, <1>7 DEF Counted

Pending(i) == {w \in Workers : work[w].at \in {"login", "fails"} /\ work[w].ip = i}

LEMMA PendingFinite ==
  ASSUME NEW i
  PROVE  /\ IsFiniteSet(Pending(i)) /\ Cardinality(Pending(i)) \in Nat
         /\ Cardinality(Pending(i)) <= Cardinality(Workers) /\ Cardinality(Workers) \in Nat
         /\ \A S \in SUBSET Pending(i) : Cardinality(S) <= Cardinality(Pending(i))
                                       /\ Cardinality(S) \in Nat
  BY AccountsAssumption, FS_Subset, FS_CardinalityType DEF Pending

(* Whoever ends an attempt, or does something else, is not pending. *)
LEMMA NotPending ==
  ASSUME WorkInv, NEW w \in Workers, NEW j, j.at \notin {"login", "fails"},
         work' = Others(w, j) \/ Goes(w, j), NEW i
  PROVE  Pending(i)' \subseteq Pending(i) \ {w}
<1> SUFFICES ASSUME NEW v \in Workers, work'[v].at \in {"login", "fails"}, work'[v].ip = i
             PROVE  v \in Pending(i) \ {w}
  BY DEF Pending
<1>1. v # w
  BY DEF Others, Goes, WorkInv
<1>2. work'[v].at = work[v].at /\ work'[v].ip = work[v].ip
  <2>1. work'[v] = work[v] \/ work'[v] = Stale(work[v])
    BY <1>1 DEF Others, Goes, WorkInv
  <2>2. work[v] \in Jobs
    BY DEF WorkInv
  <2> QED
    BY <2>1, <2>2, StaleType
<1> QED
  BY <1>1, <1>2 DEF Pending

LEMMA CommittedPends ==
  ASSUME WorkInv, Committed, NEW i
  PROVE  Pending(i)' \subseteq Pending(i)
<1> SUFFICES ASSUME NEW v \in Workers, work'[v].at \in {"login", "fails"}, work'[v].ip = i
             PROVE  v \in Pending(i)
  BY DEF Pending
<1>1. work'[v] = Stale(work[v]) /\ work[v] \in Jobs
  BY DEF Committed, WorkInv
<1> QED
  BY <1>1, StaleType DEF Pending

LEMMA JobAt ==
  ASSUME NEW at, NEW who
  PROVE  Job(at, who).at = at
  BY DEF Job

(* Neither more failures nor more attempts under way. *)
Calms(i) == Counted({i}, Names)' <= Counted({i}, Names) /\ Pending(i)' \subseteq Pending(i)

LEMMA SameCount ==
  ASSUME TypeOK, UNCHANGED failures, NEW i \in Ips
  PROVE  Counted({i}, Names)' <= Counted({i}, Names)
<1>1. Counted({i}, Names)' = Counted({i}, Names)
  BY DEF Counted, Recorded
<1> QED
  BY <1>1, RecordedFinite

LEMMA AccountingCalms ==
  ASSUME AccountsInv, NEW w \in Workers, Accounting(w) \/ AddPoint(w), NEW i \in Ips
  PROVE  Calms(i)
<1>1. PICK j : (work' = Others(w, j) \/ Goes(w, j)) /\ j.at \notin {"login", "fails"}
  <2>1. CASE \E a \in Accounts, l \in 0..MaxOwned : Create(w, a, l)
    BY <2>1, JobAt DEF Create
  <2>2. CASE \E a \in Accounts : AskInvite(w, a)
    BY <2>2, JobAt DEF AskInvite
  <2>3. CASE \E a \in Accounts : ReadStatus(w, a)
    <3>1. PICK a \in Accounts : ReadStatus(w, a)
      BY <2>3
    <3>2. [Job("status", a) EXCEPT !.seen = Row(a)].at = "status"
      BY DEF Job
    <3> QED
      BY <3>1, <3>2 DEF ReadStatus
  <2>4. CASE IssueInvite(w) \/ WriteStatus(w) \/ Abandon(w) \/ AddPoint(w)
    BY <2>4, IdleType DEF IssueInvite, WriteStatus, Abandon, AddPoint
  <2> QED
    BY <2>1, <2>2, <2>3, <2>4 DEF Accounting
<1>2. UNCHANGED failures
  BY DEF Accounting, Create, AskInvite, ReadStatus, IssueInvite, WriteStatus, Abandon, AddPoint
<1> QED
  BY <1>1, <1>2, NotPending, SameCount DEF Calms, AccountsInv

LEMMA AskPointCalms ==
  ASSUME AccountsInv, NEW w \in Workers, NEW a \in Accounts, AskPoint(w, a), NEW i \in Ips
  PROVE  Calms(i)
<1>1. Goes(w, Job("add", a)) /\ Job("add", a).at = "add" /\ UNCHANGED failures
  BY JobAt DEF AskPoint
<1> QED
  BY <1>1, NotPending, SameCount DEF Calms, AccountsInv

LEMMA RowCalms ==
  ASSUME AccountsInv, NEW i \in Ips,
         \/ Tick \/ UNCHANGED vars
         \/ \E a \in Accounts : \/ CreateOperator(a) \/ Expire(a) \/ RemovePoint(a)
                               \/ \E l \in 0..MaxOwned : SetLimit(a, l)
  PROVE  Calms(i)
<1>1. CASE Tick
  <2>1. Pending(i)' = Pending(i)
    BY <1>1 DEF Tick, Pending
  <2> QED
    BY <1>1, <2>1, TickCounts DEF Calms, AccountsInv
<1>2. CASE UNCHANGED vars \/ \E a \in Accounts : Expire(a)
  <2>1. UNCHANGED <<failures, work>>
    BY <1>2 DEF vars, Expire
  <2> QED
    BY <2>1, SameCount DEF Calms, AccountsInv, Pending
<1>3. CASE \E a \in Accounts : \/ CreateOperator(a) \/ RemovePoint(a)
                             \/ \E l \in 0..MaxOwned : SetLimit(a, l)
  <2>1. UNCHANGED failures /\ Committed
    BY <1>3 DEF CreateOperator, RemovePoint, SetLimit
  <2> QED
    BY <2>1, SameCount, CommittedPends DEF Calms, AccountsInv
<1> QED
  BY <1>1, <1>2, <1>3

LEMMA SignInCalms ==
  ASSUME AccountsInv, NEW w \in Workers, NEW i \in Ips,
         \/ \E k \in Ips, a \in Accounts, n \in 1..MaxInvites : ReadInvite(w, k, a, n)
         \/ PassThrottle(w) \/ AcceptInvite(w) \/ Verify(w) \/ Forget(w)
  PROVE  Calms(i)
<1> USE DEF AccountsInv
<1>1. CASE \E k \in Ips, a \in Accounts, n \in 1..MaxInvites : ReadInvite(w, k, a, n)
  <2>1. PICK k \in Ips, a \in Accounts, n \in 1..MaxInvites : ReadInvite(w, k, a, n)
    BY <1>1
  <2>2. PICK j : j = [Job("accept", a) EXCEPT !.n = n, !.ip = k]
    OBVIOUS
  <2>3. j.at = "accept"
    BY <2>2 DEF Job
  <2>4. Goes(w, j) /\ UNCHANGED failures
    BY <2>1, <2>2 DEF ReadInvite
  <2> QED
    BY <2>3, <2>4, NotPending, SameCount DEF Calms
<1>2. CASE AcceptInvite(w)
  BY <1>2, IdleType, NotPending, SameCount DEF Calms, AcceptInvite
<1>3. CASE Verify(w)
  <2>1. PICK end : Goes(w, [work[w] EXCEPT !.at = end])
    BY <1>3 DEF Verify
  <2>2. UNCHANGED failures /\ work[w].at = "login" /\ work[w] \in Jobs
    BY <1>3 DEF Verify, WorkInv
  <2>3. \A v \in Workers \ {w} : work'[v] = work[v]
    BY <2>1 DEF Goes, WorkInv
  <2>4. work'[w].ip = work[w].ip
    BY <2>1, <2>2 DEF Goes, WorkInv, Jobs
  <2>5. Pending(i)' \subseteq Pending(i)
    BY <2>2, <2>3, <2>4 DEF Pending
  <2> QED
    BY <2>2, <2>5, SameCount DEF Calms
<1>4. CASE Forget(w)
  <2>1. Pending(i)' \subseteq Pending(i)
    BY <1>4, IdleType, NotPending DEF Forget
  <2>2. Counted({i}, Names)' <= Counted({i}, Names)
    BY <1>4, ForgetCounts, RecordedFinite
  <2> QED
    BY <2>1, <2>2 DEF Calms
<1>5. CASE PassThrottle(w)
  <2>1. PICK j : j = [work[w] EXCEPT !.at = "choose"]
    OBVIOUS
  <2>2. work[w] \in Jobs
    BY DEF WorkInv
  <2>3. j.at = "choose"
    BY <2>1, <2>2 DEF Jobs
  <2>4. Goes(w, j) /\ UNCHANGED failures
    BY <1>5, <2>1 DEF PassThrottle
  <2> QED
    BY <2>3, <2>4, NotPending, SameCount DEF Calms
<1> QED
  BY <1>1, <1>2, <1>3, <1>4, <1>5

(* Failures on record and requests that may still add one: a request joins
   them only while the record is below the limit. *)
ThrottledAt(i) == Counted({i}, Names) + Cardinality(Pending(i)) < MaxPerIp + Cardinality(Workers)

LEMMA CalmThrottled ==
  ASSUME AccountsInv, AccountsInv', NEW i \in Ips, ThrottledAt(i), Calms(i)
  PROVE  ThrottledAt(i)'
<1>1. Counted({i}, Names) \in Nat
  BY RecordedFinite DEF AccountsInv
<1>2. Counted({i}, Names)' \in Nat
  BY RecordedFinite DEF AccountsInv
<1>3. /\ Cardinality(Pending(i)') <= Cardinality(Pending(i))
      /\ Cardinality(Pending(i)') \in Nat /\ Cardinality(Pending(i)) \in Nat
      /\ Cardinality(Workers) \in Nat
  BY PendingFinite DEF Calms
<1> QED
  BY <1>1, <1>2, <1>3, LimitsAssumption DEF ThrottledAt, Calms

(* The two steps that do not calm: an attempt begins only below the limit, and
   its failure trades the attempt for a row. *)
LEMMA AttemptThrottled ==
  ASSUME AccountsInv, AccountsInv', NEW i \in Ips, ThrottledAt(i),
         NEW w \in Workers, NEW k \in Ips, NEW n \in Names, Attempt(w, k, n)
  PROVE  ThrottledAt(i)'
<1>1. PICK j : j = [Job(IF n = Invite THEN "fails" ELSE "login", n) EXCEPT !.ip = k]
  OBVIOUS
<1>2. j.ip = k
  BY <1>1 DEF Job
<1>3. Goes(w, j) /\ ~Blocked(k, n) /\ UNCHANGED failures /\ work[w].at = "idle"
  BY <1>1 DEF Attempt
<1>4. Counted({i}, Names)' = Counted({i}, Names) /\ Counted({i}, Names) \in Nat
  BY <1>3, RecordedFinite DEF Counted, Recorded, AccountsInv
<1>5. /\ Cardinality(Pending(i)') <= Cardinality(Workers)
      /\ Cardinality(Pending(i)') \in Nat /\ Cardinality(Workers) \in Nat
  <2>1. Pending(i)' \subseteq Workers
    BY DEF Pending
  <2> QED
    BY <2>1, AccountsAssumption, FS_Subset, FS_CardinalityType
<1>6. CASE k = i
  <2>1. ~(Counted({i}, Names) >= MaxPerIp)
    BY <1>3, <1>6 DEF Blocked
  <2> QED
    BY <1>4, <1>5, <2>1, LimitsAssumption DEF ThrottledAt
<1>7. CASE k # i
  <2>1. Pending(i)' \subseteq Pending(i)
    BY <1>2, <1>3, <1>7 DEF Goes, Pending, AccountsInv, WorkInv
  <2> QED
    BY <1>4, <2>1, CalmThrottled DEF Calms
<1> QED
  BY <1>6, <1>7

LEMMA RecordThrottled ==
  ASSUME AccountsInv, AccountsInv', NEW i \in Ips, ThrottledAt(i), NEW w \in Workers, Record(w)
  PROVE  ThrottledAt(i)'
<1>1. Pending(i)' \subseteq Pending(i) \ {w} /\ work[w].at = "fails"
  BY IdleType, NotPending DEF Record, AccountsInv
<1>2. CASE i = work[w].ip
  <2>1. w \in Pending(i)
    BY <1>1, <1>2 DEF Pending
  <2>2. /\ Cardinality(Pending(i) \ {w}) = Cardinality(Pending(i)) - 1
        /\ IsFiniteSet(Pending(i) \ {w})
    BY <2>1, PendingFinite, FS_RemoveElement
  <2>3. /\ Cardinality(Pending(i)') <= Cardinality(Pending(i)) - 1
        /\ Cardinality(Pending(i)') \in Nat /\ Cardinality(Pending(i)) \in Nat
    BY <1>1, <2>2, PendingFinite, FS_Subset, FS_CardinalityType
  <2>4. Counted({i}, Names)' = Counted({i}, Names) + 1 /\ Counted({i}, Names) \in Nat
    BY <1>2, RecordCounts, RecordedFinite DEF AccountsInv
  <2> QED
    BY <2>3, <2>4, PendingFinite, LimitsAssumption DEF ThrottledAt
<1>3. CASE i # work[w].ip
  <2>1. Counted({i}, Names)' = Counted({i}, Names) /\ Counted({i}, Names) \in Nat
    BY <1>3, RecordCounts, RecordedFinite DEF AccountsInv
  <2> QED
    BY <1>1, <2>1, CalmThrottled DEF Calms
<1> QED
  BY <1>2, <1>3

LEMMA ThrottleKept ==
  ASSUME AccountsInv, AccountsInv', [Next]_vars, NEW i \in Ips, ThrottledAt(i)
  PROVE  ThrottledAt(i)'
<1>1. ASSUME NEW w \in Workers, Accounting(w) \/ AddPoint(w) PROVE ThrottledAt(i)'
  BY <1>1, AccountingCalms, CalmThrottled
<1>2. ASSUME NEW w \in Workers, NEW a \in Accounts, AskPoint(w, a) PROVE ThrottledAt(i)'
  BY <1>2, AskPointCalms, CalmThrottled
<1>3. ASSUME NEW w \in Workers, SigningIn(w) PROVE ThrottledAt(i)'
  <2>1. CASE \/ \E k \in Ips, a \in Accounts, n \in 1..MaxInvites : ReadInvite(w, k, a, n)
             \/ PassThrottle(w) \/ AcceptInvite(w) \/ Verify(w) \/ Forget(w)
    BY <2>1, SignInCalms, CalmThrottled
  <2>2. CASE \E k \in Ips, n \in Names : Attempt(w, k, n)
    BY <2>2, AttemptThrottled
  <2>3. CASE Record(w)
    BY <2>3, RecordThrottled
  <2> QED
    BY <1>3, <2>1, <2>2, <2>3 DEF SigningIn
<1>4. CASE \/ Tick \/ UNCHANGED vars
           \/ \E a \in Accounts : \/ CreateOperator(a) \/ Expire(a) \/ RemovePoint(a)
                                 \/ \E l \in 0..MaxOwned : SetLimit(a, l)
  BY <1>4, RowCalms, CalmThrottled
<1> QED
  BY <1>1, <1>2, <1>3, <1>4, Zenon DEF Next

LEMMA InitThrottled ==
  ASSUME Init, NEW i \in Ips
  PROVE  ThrottledAt(i)
<1>1. Pending(i) = {}
  BY IdleType DEF Init, Pending
<1>2. Recorded({i}, Names) = {}
  <2> SUFFICES ASSUME NEW x, x \in Recorded({i}, Names) PROVE FALSE
    OBVIOUS
  <2>1. PICK n \in Names, g \in Ages : \E k \in 1..failures[<<i, n, g>>] : x = <<<<i, n, g>>, k>>
    BY RecordedAre
  <2> QED
    BY <2>1 DEF Init
<1>3. Cardinality(Workers) \in Nat
  BY AccountsAssumption, FS_CardinalityType
<1>4. Cardinality(Pending(i)) = 0 /\ Counted({i}, Names) = 0
  BY <1>1, <1>2, FS_EmptySet, Zenon DEF Counted
<1> HIDE DEF Counted, Pending
<1> QED
  BY <1>3, <1>4, LimitsAssumption DEF ThrottledAt

(* However many login attempts run in parallel, an address collects at most
   one failure each beyond the limit (auth.php:113). *)
THEOREM ThrottleAlwaysHolds == Spec => []ThrottleHolds
<1> DEFINE Throttled == \A i \in Ips : ThrottledAt(i)
<1>1. Init => Throttled
  BY InitThrottled
<1>2. AccountsInv /\ AccountsInv' /\ Throttled /\ [Next]_vars => Throttled'
  BY ThrottleKept
<1>3. Throttled => ThrottleHolds
  BY DEF ThrottledAt, ThrottleHolds, Pending
<1> QED
  BY <1>1, <1>2, <1>3, InvAlways, PTL DEF Spec
=============================================================================
