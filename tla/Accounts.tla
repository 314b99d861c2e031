------------------------------ MODULE Accounts ------------------------------
(***************************************************************************)
(* Accounts of the admin site: accounts.php (create, invite, limits,       *)
(* status), accept_invite.php, the login with its throttle                 *)
(* (includes/auth.php), the access points an account may own               *)
(* (stream_view.php and the trigger limit_user_access_points), and         *)
(* cli/create_operator.php.                                                *)
(*                                                                         *)
(* PHP requests run in parallel and may die between two statements.  A     *)
(* statement of its own is atomic.  A deferred SQLite transaction works on *)
(* the snapshot of its first read, and its first write fails once another  *)
(* connection has committed.  A request is a worker; what it has read is   *)
(* in its record.                                                          *)
(*                                                                         *)
(* Invites are numbered per account in the order they are issued.          *)
(* Sessions, CSRF tokens, the audit log, the limits other than that of     *)
(* access points (max_streams has a trigger of the same form) and the      *)
(* form of names and passwords are left out.                               *)
(***************************************************************************)
EXTENDS Integers, FiniteSets

CONSTANTS
    Accounts, Root,        \* Root: the account the installation created
    Workers, Ips,
    Invite,                \* the name under which guessed invites are counted
    MaxPerIp, MaxPerUser,  \* SV_LOGIN_MAX_PER_IP, SV_LOGIN_MAX_PER_USER
    Window,                \* SV_LOGIN_WINDOW
    MaxInvites, MaxOwned   \* bounds on invites and access points

ASSUME AccountsAssumption ==
    /\ Root \in Accounts /\ Invite \notin Accounts /\ Invite \notin Ips
    /\ IsFiniteSet(Accounts) /\ IsFiniteSet(Workers)
ASSUME LimitsAssumption ==
    /\ MaxPerIp \in Nat \ {0} /\ MaxPerUser \in Nat \ {0} /\ Window \in Nat \ {0}
    /\ MaxInvites \in Nat /\ MaxOwned \in Nat

VARIABLES
    role, status,   \* operators
    issued,         \* the newest invite of an account
    valid,          \* its hash is stored and it has not expired
    password,       \* the invite the password was chosen with, or 0
    limit, owned,   \* max_access_points, active access points
    failures,       \* login_attempts by ip, name and age
    work            \* requests

operators == <<role, status, issued, valid, password, limit>>
vars      == <<operators, owned, failures, work>>

Names == Accounts \cup {Invite}
Ages  == 0..(Window - 1)

Admins == {a \in Accounts : role[a] = "admin" /\ status[a] = "active"}

(* Where requests are, and what the transaction of the status action has read. *)
NoRow == [role |-> "none", status |-> "none", valid |-> FALSE, admins |-> 0]
Row(a) == [role |-> role[a], status |-> status[a], valid |-> valid[a], admins |-> Cardinality(Admins)]

Job(at, who) == [at |-> at, who |-> who, n |-> 0, ip |-> Invite, seen |-> NoRow, stale |-> FALSE]
Idle == Job("idle", Invite)

TypeOK ==
    /\ role \in [Accounts -> {"none", "user", "admin"}]
    /\ status \in [Accounts -> {"none", "invited", "active", "disabled"}]
    /\ issued \in [Accounts -> 0..MaxInvites] /\ password \in [Accounts -> 0..MaxInvites]
    /\ valid \in [Accounts -> BOOLEAN]
    /\ limit \in [Accounts -> 0..MaxOwned] /\ owned \in [Accounts -> 0..MaxOwned]
    /\ failures \in [Ips \X Names \X Ages -> Nat]

Init ==
    /\ role = [a \in Accounts |-> IF a = Root THEN "admin" ELSE "none"]
    /\ status = [a \in Accounts |-> IF a = Root THEN "active" ELSE "none"]
    /\ issued = [a \in Accounts |-> 0] /\ valid = [a \in Accounts |-> FALSE]
    /\ password = [a \in Accounts |-> 0]
    /\ limit = [a \in Accounts |-> 0] /\ owned = [a \in Accounts |-> 0]
    /\ failures = [f \in Ips \X Names \X Ages |-> 0]
    /\ work = [w \in Workers |-> Idle]

(* A commit leaves the snapshots of open transactions behind. *)
Stale(j) == [j EXCEPT !.stale = @ \/ j.at = "status"]
Others(w, job) == [v \in Workers |-> IF v = w THEN job ELSE Stale(work[v])]
Committed == work' = [v \in Workers |-> Stale(work[v])]

Goes(w, job) == work' = [work EXCEPT ![w] = job]

-----------------------------------------------------------------------------
(* accounts.php: sv_require_admin looks at the session's account once, at the
   start of the request. *)
AdminRequest(w) == work[w].at = "idle" /\ Admins # {}

(* create: the row first, its invite by a second statement. *)
Create(w, a, l) ==
    /\ AdminRequest(w)
    /\ role[a] = "none"
    /\ role' = [role EXCEPT ![a] = "user"]
    /\ status' = [status EXCEPT ![a] = "invited"]
    /\ limit' = [limit EXCEPT ![a] = l]
    /\ work' = Others(w, Job("issue", a))
    /\ UNCHANGED <<issued, valid, password, owned, failures>>

(* invite: the role is read, then sv_issue_invite updates, whatever the status. *)
AskInvite(w, a) ==
    /\ AdminRequest(w)
    /\ role[a] = "user"
    /\ Goes(w, Job("issue", a))
    /\ UNCHANGED <<operators, owned, failures>>

IssueInvite(w) ==
    LET a == work[w].who IN
    /\ work[w].at = "issue"
    /\ IF role[a] = "user"
       THEN /\ issued[a] < MaxInvites
            /\ status' = [status EXCEPT ![a] = "invited"]
            /\ issued' = [issued EXCEPT ![a] = @ + 1]
            /\ valid' = [valid EXCEPT ![a] = TRUE]
       ELSE UNCHANGED <<status, issued, valid>>
    /\ work' = Others(w, Idle)
    /\ UNCHANGED <<role, password, limit, owned, failures>>

(* limits: an UPDATE under the condition that was just read. *)
SetLimit(a, l) ==
    /\ Admins # {} /\ role[a] = "user"
    /\ limit' = [limit EXCEPT ![a] = l]
    /\ Committed
    /\ UNCHANGED <<role, status, issued, valid, password, owned, failures>>

(* status: the transaction reads the target and counts the active admins ... *)
ReadStatus(w, a) ==
    /\ AdminRequest(w)
    /\ role[a] # "none"
    /\ Goes(w, [Job("status", a) EXCEPT !.seen = Row(a)])
    /\ UNCHANGED <<operators, owned, failures>>

Following(row) ==
    IF row.status = "disabled" THEN IF row.valid THEN "invited" ELSE "active"
    ELSE "disabled"

(* ... and throws, or writes what follows from them. *)
MayFollow(row) == row.status # "disabled" /\ row.role = "admin" => row.admins > 1

(* Variant: without the transaction. *)
WriteStatusAnyway(w) ==
    LET a == work[w].who
        row == work[w].seen
    IN
    /\ work[w].at = "status" /\ MayFollow(row)
    /\ status' = [status EXCEPT ![a] = Following(row)]
    /\ work' = Others(w, Idle)
    /\ UNCHANGED <<role, issued, valid, password, limit, owned, failures>>

WriteStatus(w) ==
    LET a == work[w].who
        row == work[w].seen
    IN
    /\ work[w].at = "status" /\ ~work[w].stale /\ MayFollow(row)
    /\ status' = [status EXCEPT ![a] = Following(row)]
    /\ work' = Others(w, Idle)
    /\ UNCHANGED <<role, issued, valid, password, limit, owned, failures>>

(* A request ends early: an exception, a lock that was not granted, a write on
   a stale snapshot, or the end of its process. *)
Abandon(w) ==
    /\ work[w].at # "idle"
    /\ Goes(w, Idle)
    /\ UNCHANGED <<operators, owned, failures>>

(* cli/create_operator.php: creates an admin, makes one of a user, or sets the
   password of one. *)
CreateOperator(a) ==
    /\ role' = [role EXCEPT ![a] = "admin"]
    /\ status' = [status EXCEPT ![a] = "active"]
    /\ valid' = [valid EXCEPT ![a] = FALSE]
    /\ limit' = IF role[a] = "none" THEN [limit EXCEPT ![a] = MaxOwned] ELSE limit
    /\ Committed
    /\ UNCHANGED <<issued, password, owned, failures>>

Accounting(w) ==
    \/ \E a \in Accounts, l \in 0..MaxOwned : Create(w, a, l)
    \/ \E a \in Accounts : AskInvite(w, a) \/ ReadStatus(w, a)
    \/ IssueInvite(w) \/ WriteStatus(w) \/ Abandon(w)

-----------------------------------------------------------------------------
(* accept_invite.php: the page is posted with an invite that was shown before;
   the SELECT finds its account ... *)
Accepts(a, n) == role[a] = "user" /\ status[a] = "invited" /\ valid[a] /\ issued[a] = n

ReadInvite(w, i, a, n) ==
    /\ work[w].at = "idle"
    /\ n \in 1..issued[a] /\ Accepts(a, n)
    /\ Goes(w, [Job("accept", a) EXCEPT !.n = n, !.ip = i])
    /\ UNCHANGED <<operators, owned, failures>>

(* auth.php: the rows of login_attempts of an address or a name within the
   window; too many of either refuse the next attempt.  Variant: an off-by-one. *)
Recorded(is, ns) == UNION {{f} \X (1..failures[f]) : f \in is \X ns \X Ages}
Counted(is, ns) == Cardinality(Recorded(is, ns))
BlockedLate(i, n) == Counted({i}, Names) > MaxPerIp \/ Counted(Ips, {n}) > MaxPerUser
Blocked(i, n) == Counted({i}, Names) >= MaxPerIp \/ Counted(Ips, {n}) >= MaxPerUser

(* ... then the throttle is asked ... *)
PassThrottle(w) ==
    /\ work[w].at = "accept" /\ ~Blocked(work[w].ip, Invite)
    /\ Goes(w, [work[w] EXCEPT !.at = "choose"])
    /\ UNCHANGED <<operators, owned, failures>>

(* ... and the UPDATE looks again at the hash, the status and the expiry.
   Variant: the SELECT is trusted. *)
TrustSelect(a, n) == role[a] = "user"
StillAccepts(a, n) == Accepts(a, n)

AcceptInvite(w) ==
    LET a == work[w].who
        n == work[w].n
    IN
    /\ work[w].at = "choose" /\ StillAccepts(a, n)
    /\ password' = [password EXCEPT ![a] = n]
    /\ status' = [status EXCEPT ![a] = "active"]
    /\ valid' = [valid EXCEPT ![a] = FALSE]
    /\ work' = Others(w, Idle)
    /\ UNCHANGED <<role, issued, limit, owned, failures>>

(* An invite expires 72 hours after it was issued. *)
Expire(a) ==
    /\ valid[a]
    /\ valid' = [valid EXCEPT ![a] = FALSE]
    /\ UNCHANGED <<role, status, issued, password, limit, owned, failures, work>>

(* login.php and the invite page ask the throttle first. *)
Attempt(w, i, n) ==
    /\ work[w].at = "idle" /\ ~Blocked(i, n)
    /\ Goes(w, [Job(IF n = Invite THEN "fails" ELSE "login", n) EXCEPT !.ip = i])
    /\ UNCHANGED <<operators, owned, failures>>

(* sv_login: 300 ms later only an active account can match. *)
Verify(w) ==
    /\ work[w].at = "login"
    /\ \E end \in {"fails", "succeeds"} :
          /\ end = "succeeds" => status[work[w].who] = "active"
          /\ Goes(w, [work[w] EXCEPT !.at = end])
    /\ UNCHANGED <<operators, owned, failures>>

Record(w) ==
    /\ work[w].at = "fails"
    /\ failures' = [failures EXCEPT ![<<work[w].ip, work[w].who, 0>>] = @ + 1]
    /\ work' = Others(w, Idle)
    /\ UNCHANGED <<operators, owned>>

(* A success forgets the failures of its address, whatever their names. *)
Forget(w) ==
    /\ work[w].at = "succeeds"
    /\ failures' = [f \in DOMAIN failures |-> IF f[1] = work[w].ip THEN 0 ELSE failures[f]]
    /\ work' = Others(w, Idle)
    /\ UNCHANGED <<operators, owned>>

(* Time passes; what leaves the window no longer counts. *)
Tick ==
    /\ failures' = [f \in DOMAIN failures |-> IF f[3] = 0 THEN 0 ELSE failures[<<f[1], f[2], f[3] - 1>>]]
    /\ UNCHANGED <<operators, owned, work>>

SigningIn(w) ==
    \/ \E i \in Ips, a \in Accounts, n \in 1..MaxInvites : ReadInvite(w, i, a, n)
    \/ \E i \in Ips, n \in Names : Attempt(w, i, n)
    \/ PassThrottle(w) \/ AcceptInvite(w) \/ Verify(w) \/ Record(w) \/ Forget(w)

-----------------------------------------------------------------------------
(* stream_view.php, add_access_point: the count is compared with the limit for
   an owner and not for an admin ... *)
AskPoint(w, a) ==
    /\ work[w].at = "idle"
    /\ \/ role[a] = "user" /\ status[a] = "active" /\ owned[a] < limit[a]
       \/ role[a] # "none" /\ Admins # {}
    /\ Goes(w, Job("add", a))
    /\ UNCHANGED <<operators, owned, failures>>

(* ... and the INSERT aborts if the trigger finds the limit reached. *)
InQuota(a) == role[a] = "user" => owned[a] < limit[a]

AddPoint(w) ==
    LET a == work[w].who IN
    /\ work[w].at = "add"
    /\ InQuota(a)
    /\ owned[a] < MaxOwned
    /\ owned' = [owned EXCEPT ![a] = @ + 1]
    /\ work' = Others(w, Idle)
    /\ UNCHANGED <<operators, failures>>

(* revoke_access_point, or the deletion of a stream. *)
RemovePoint(a) ==
    /\ owned[a] > 0
    /\ owned' = [owned EXCEPT ![a] = @ - 1]
    /\ Committed
    /\ UNCHANGED <<operators, failures>>

-----------------------------------------------------------------------------
Next ==
    \/ \E w \in Workers : Accounting(w) \/ SigningIn(w) \/ AddPoint(w)
                              \/ \E a \in Accounts : AskPoint(w, a)
    \/ \E a \in Accounts : CreateOperator(a) \/ Expire(a) \/ RemovePoint(a)
                               \/ \E l \in 0..MaxOwned : SetLimit(a, l)
    \/ Tick

Spec == Init /\ [][Next]_vars

-----------------------------------------------------------------------------
(* However requests interleave, the admins never disable each other to the
   last: somebody can always administer accounts (accounts.php:76). *)
LastAdminKept == Admins # {}

(* A password is set by the newest invite of an account, while it is valid and
   the account waits for it, and by each invite once: two requests with one
   link, a link that was replaced while its page was open, or an account
   disabled meanwhile do not get through (accept_invite.php:40). *)
InviteWorksOnce ==
    [][\A a \in Accounts : password'[a] # password[a] =>
          /\ password'[a] = issued[a] /\ password[a] < issued[a]
          /\ valid[a] /\ status[a] = "invited"]_vars

(* No interleaving of requests takes a user past the limit that is in force at
   that moment (SECURITY.md:208). *)
QuotaKept ==
    [][\A a \in Accounts : owned'[a] > owned[a] /\ role[a] = "user" => owned'[a] <= limit[a]]_vars

(* "At most 5 failures per client IP" (SECURITY.md:172) is what the throttle
   compares with, not what it guarantees: it is asked before an attempt and
   told after it, so parallel requests can add to the failures of an address
   within the window, but at most one each (auth.php:113). *)
ThrottleHolds ==
    \A i \in Ips :
        Counted({i}, Names) + Cardinality({w \in Workers : work[w].at \in {"login", "fails"} /\ work[w].ip = i})
            < MaxPerIp + Cardinality(Workers)
=============================================================================
