---------------------------- MODULE GatewayProofs ----------------------------
(***************************************************************************)
(* The gateway keeps its promise about links, and lets requests through to *)
(* private addresses only where the source was private a moment ago: for   *)
(* any number of requests, streams, access points, tokens and edits.       *)
(***************************************************************************)
EXTENDS Gateway, TLAPS

USE TimeAssumption

(***************************************************************************)
(* Types.                                                                  *)
(***************************************************************************)
Rows ==
    /\ point \in [Points -> {"none", "active", "revoked", "deleted"}]
    /\ token \in [Tokens -> {"none", "valid", "revoked", "expired", "deleted"}]
    /\ stream \in [Streams -> {"active", "disabled", "deleted"}]
    /\ \A a, b \in Points : Exists(a) /\ Exists(b) /\ PathOf[a] = PathOf[b] => a = b
    /\ \A a \in Points : Exists(a) => stream[StreamOf[a]] # "deleted"
    /\ \A t \in Tokens : token[t] \notin {"none", "deleted"} => Exists(PointOf[t])

Work ==
    /\ issued \subseteq Points
    /\ req \in [Requests -> Requested]
    /\ could \in [Requests -> SUBSET {"live", "dead", "unknown"}]

Ages ==
    /\ source \in [Trusted -> Sources] /\ edits \in 0..MaxEdits
    /\ cache \in [Trusted -> [private : BOOLEAN, age : 0..TTL]]
    /\ ago \in [Trusted -> 0..Oldest]

LEMMA TypeParts == TypeOK <=> Rows /\ Work /\ Ages
  BY DEF TypeOK, Rows, Work, Ages

LEMMA IdleType ==
  /\ Idle \in Requested /\ Idle.at = "idle" /\ Idle.key = None /\ Idle.told = "nothing"
  /\ Idle.private = FALSE /\ Idle.dns = FALSE
  BY DEF Idle, Requested

LEMMA ToldType ==
  ASSUME NEW v \in {"live", "dead", "unknown"}
  PROVE  /\ Told(v) \in Requested /\ Told(v).at = "idle" /\ Told(v).key = None
         /\ Told(v).told = v /\ Told(v).private = FALSE /\ Told(v).dns = FALSE
<1> HIDE DEF Idle
<1>1. Told(v) = [Idle EXCEPT !.told = v]
  BY Zenon DEF Told
<1> QED
  BY <1>1, IdleType DEF Requested

LEMMA AskedType ==
  ASSUME NEW k \in Keys
  PROVE  LET x == [Idle EXCEPT !.at = "resolve", !.key = k]
         IN  x \in Requested /\ x.at = "resolve" /\ x.key = k /\ x.told = "nothing" /\ x.dns = FALSE
<1> DEFINE x == [Idle EXCEPT !.at = "resolve"]
           y == [x EXCEPT !.key = k]
<1>1. x \in Requested /\ x.at = "resolve" /\ x.told = "nothing" /\ x.dns = FALSE
  BY IdleType DEF Requested
<1> HIDE DEF x
<1>2. y \in Requested /\ y.at = "resolve" /\ y.key = k /\ y.told = "nothing" /\ y.dns = FALSE
  BY <1>1 DEF Requested
<1>3. [Idle EXCEPT !.at = "resolve", !.key = k] = y
  BY Zenon DEF x, y
<1> QED
  BY <1>2, <1>3

LEMMA ServeType ==
  ASSUME NEW r \in Requested, NEW at \in {"entry", "segment"}
  PROVE  /\ Serve(r, at) \in Requested
         /\ Serve(r, at).at = at /\ Serve(r, at).key = None /\ Serve(r, at).told = "live"
         /\ Serve(r, at).point = r.point /\ Serve(r, at).source = r.source
         /\ Serve(r, at).dns = r.dns /\ Serve(r, at).age = r.age
<1> DEFINE x == [r EXCEPT !.at = at]
           y == [x EXCEPT !.key = None]
           z == [y EXCEPT !.told = "live"]
<1>1. x \in Requested /\ x.at = at
      /\ x.point = r.point /\ x.source = r.source /\ x.dns = r.dns /\ x.age = r.age
  BY DEF Requested
<1> HIDE DEF x
<1>2. y \in Requested /\ y.at = at /\ y.key = None
      /\ y.point = r.point /\ y.source = r.source /\ y.dns = r.dns /\ y.age = r.age
  BY <1>1 DEF Requested
<1> HIDE DEF y
<1>3. z \in Requested /\ z.at = at /\ z.key = None /\ z.told = "live"
      /\ z.point = r.point /\ z.source = r.source /\ z.dns = r.dns /\ z.age = r.age
  BY <1>2 DEF Requested
<1>4. Serve(r, at) = z
  BY Zenon DEF Serve, x, y, z
<1> QED
  BY <1>3, <1>4

LEMMA RowType ==
  ASSUME Rows, Ages, NEW r \in Requested, NEW a \in Points
  PROVE  /\ Row(r, a) \in Requested /\ Row(r, a).key = r.key /\ Row(r, a).told = r.told
         /\ Row(r, a).at = r.at /\ Row(r, a).point = a /\ Row(r, a).dead = Dead(a)
         /\ Row(r, a).dns = r.dns /\ Row(r, a).age = r.age
         /\ StreamOf[a] \in Trusted => Row(r, a).source = source[StreamOf[a]]
         /\ StreamOf[a] \notin Trusted => Row(r, a).source = None
<1> DEFINE g == IF StreamOf[a] \in Trusted THEN source[StreamOf[a]] ELSE None
           x == [r EXCEPT !.point = a]
           y == [x EXCEPT !.dead = Dead(a)]
           z == [y EXCEPT !.source = g]
<1>1. x \in Requested /\ x.point = a
      /\ x.at = r.at /\ x.key = r.key /\ x.told = r.told /\ x.dns = r.dns /\ x.age = r.age
  BY DEF Requested
<1> HIDE DEF x
<1>2. Dead(a) \in BOOLEAN
  BY DEF Dead
<1>3. y \in Requested /\ y.point = a /\ y.dead = Dead(a)
      /\ y.at = r.at /\ y.key = r.key /\ y.told = r.told /\ y.dns = r.dns /\ y.age = r.age
  BY <1>1, <1>2 DEF Requested
<1> HIDE DEF y
<1>4. g \in Sources \cup {None}
  BY DEF Ages
<1> HIDE DEF g
<1>5. z \in Requested /\ z.point = a /\ z.dead = Dead(a) /\ z.source = g
      /\ z.at = r.at /\ z.key = r.key /\ z.told = r.told /\ z.dns = r.dns /\ z.age = r.age
  BY <1>3, <1>4 DEF Requested
<1>6. Row(r, a) = z
  BY Zenon DEF Row, x, y, z, g
<1> QED
  BY <1>5, <1>6 DEF g

Marked(r, p, at) == [r EXCEPT !.dns = FALSE, !.private = p, !.at = at]

LEMMA MarkType ==
  ASSUME NEW r \in Requested, NEW p \in BOOLEAN, NEW at \in {"opened", "resource", "got"}
  PROVE  /\ Marked(r, p, at) \in Requested /\ Marked(r, p, at).at = at
         /\ Marked(r, p, at).key = r.key /\ Marked(r, p, at).told = r.told
         /\ Marked(r, p, at).point = r.point /\ Marked(r, p, at).source = r.source
         /\ Marked(r, p, at).age = r.age /\ Marked(r, p, at).dns = FALSE
<1> DEFINE x == [r EXCEPT !.dns = FALSE]
           y == [x EXCEPT !.private = p]
           z == [y EXCEPT !.at = at]
<1>1. x \in Requested /\ x.key = r.key /\ x.told = r.told /\ x.point = r.point
      /\ x.source = r.source /\ x.age = r.age /\ x.dns = FALSE
  BY DEF Requested
<1> HIDE DEF x
<1>2. y \in Requested /\ y.key = r.key /\ y.told = r.told /\ y.point = r.point
      /\ y.source = r.source /\ y.age = r.age /\ y.dns = FALSE
  BY <1>1 DEF Requested
<1> HIDE DEF y
<1>3. /\ z \in Requested /\ z.at = at /\ z.key = r.key /\ z.told = r.told
      /\ z.point = r.point /\ z.source = r.source /\ z.age = r.age /\ z.dns = FALSE
  BY <1>2 DEF Requested
<1>4. Marked(r, p, at) = z
  BY Zenon DEF Marked, x, y, z
<1> QED
  BY <1>3, <1>4

LEMMA LinkStateType == \A k : LinkState(k) \in {"live", "dead", "unknown"}
  BY DEF LinkState

(* The rows an edit leaves behind. *)
LEMMA RowsChange == Rows /\ Admin => Rows'
<1> SUFFICES ASSUME Rows, Admin PROVE Rows'
  OBVIOUS
<1> USE LinkAssumption DEF Rows, Exists
<1>1. ASSUME NEW a \in Points, NewPoint(a) PROVE Rows'
  BY <1>1 DEF NewPoint
<1>2. ASSUME NEW a \in Points, RevokePoint(a) PROVE Rows'
  BY <1>2 DEF RevokePoint
<1>3. ASSUME NEW t \in Tokens, NewToken(t) PROVE Rows'
  BY <1>3 DEF NewToken
<1>4. ASSUME NEW t \in Tokens, RevokeToken(t) PROVE Rows'
  BY <1>4 DEF RevokeToken
<1>5. ASSUME NEW t \in Tokens, Expire(t) PROVE Rows'
  BY <1>5 DEF Expire
<1>6. ASSUME NEW s \in Streams, ToggleStream(s) PROVE Rows'
  BY <1>6 DEF ToggleStream
<1>7. ASSUME NEW s \in Streams, DeleteStream(s) PROVE Rows'
  BY <1>7 DEF DeleteStream
<1>8. ASSUME NEW s \in Trusted, NEW g \in Sources, EditSource(s, g) PROVE Rows'
  BY <1>8 DEF EditSource
<1> QED
  BY <1>1, <1>2, <1>3, <1>4, <1>5, <1>6, <1>7, <1>8 DEF Admin

LEMMA AdminChanged == Admin => Changed
  BY DEF Admin, NewPoint, RevokePoint, NewToken, RevokeToken, Expire, ToggleStream,
         DeleteStream, EditSource, Edited

LEMMA ChangedType == Work /\ Changed => Work'
<1> SUFFICES ASSUME Work, Changed PROVE Work'
  OBVIOUS
<1>1. \A k : LinkState(k)' \in {"live", "dead", "unknown"}
  BY DEF LinkState
<1> QED
  BY <1>1 DEF Work, Changed

LEMMA AgesChange == Ages /\ Admin => Ages'
<1> SUFFICES ASSUME Ages, Admin PROVE Ages'
  OBVIOUS
<1>0. UNCHANGED cache
  BY AdminChanged DEF Changed
<1>1. edits' \in 0..MaxEdits
  BY DEF Ages, Admin, NewPoint, RevokePoint, NewToken, RevokeToken, Expire, ToggleStream,
         DeleteStream, EditSource, Edited
<1>2. ASSUME NEW s \in Trusted, NEW g \in Sources, EditSource(s, g)
      PROVE  source' \in [Trusted -> Sources] /\ ago' \in [Trusted -> 0..Oldest]
  BY <1>2 DEF Ages, EditSource, Oldest
<1>3. CASE UNCHANGED <<source, ago>>
  BY <1>0, <1>1, <1>3 DEF Ages
<1>4. UNCHANGED <<source, ago>> \/ \E s \in Trusted, g \in Sources : EditSource(s, g)
  BY DEF Admin, NewPoint, RevokePoint, NewToken, RevokeToken, Expire, ToggleStream, DeleteStream
<1> QED
  BY <1>0, <1>1, <1>2, <1>3, <1>4 DEF Ages

LEMMA ProceedType ==
  ASSUME NEW r \in Requested
  PROVE  /\ Proceed(r) \in Requested
         /\ Proceed(r).at \in {"idle", "entry", "segment"} /\ Proceed(r).key = None
         /\ Proceed(r).at # "idle" => /\ Proceed(r).told = "live"
                                     /\ Proceed(r).point = r.point /\ Proceed(r).source = r.source
                                     /\ Proceed(r).dns = r.dns /\ Proceed(r).age = r.age
<1>1. \A at \in {"entry", "segment"} : Proceed(r) = Serve(r, at) =>
        /\ Proceed(r) \in Requested /\ Proceed(r).at = at /\ Proceed(r).key = None
        /\ Proceed(r).told = "live" /\ Proceed(r).point = r.point /\ Proceed(r).source = r.source
        /\ Proceed(r).dns = r.dns /\ Proceed(r).age = r.age
  BY ServeType
<1>2. \A v \in {"dead", "unknown"} : Proceed(r) = Told(v) =>
        Proceed(r) \in Requested /\ Proceed(r).at = "idle" /\ Proceed(r).key = None
  BY ToldType
<1>3. \/ \E v \in {"dead", "unknown"} : Proceed(r) = Told(v)
      \/ \E at \in {"entry", "segment"} : Proceed(r) = Serve(r, at)
  BY Zenon DEF Proceed
<1> QED
  BY <1>1, <1>2, <1>3

LEMMA DecideType ==
  ASSUME Work, NEW q \in Requests, NEW r \in Requested, Decide(q, r)
  PROVE  Work'
  BY DEF Work, Decide

LEMMA StepType ==
  ASSUME Work, NEW q \in Requests, NEW r \in Requested, Step(q, r), issued' \subseteq Points
  PROVE  Work'
  BY DEF Work, Step

(* Requests that work with a row. *)
WithRow == \A q \in Requests : req[q].at \notin {"idle", "resolve"} => req[q].point \in Points

(* The steps of a request that is being served. *)
Moved(q)     == \E at \in {"fetch", "target"} : Step(q, [req[q] EXCEPT !.at = at])
Looks(q)     == Step(q, [req[q] EXCEPT !.dns = TRUE])
Marks(q, p)  == /\ Undecided(q)
                /\ Step(q, Marked(req[q], p, After(req[q].at)))

(* What such a request becomes. *)
LEMMA MarkStep ==
  ASSUME NEW q \in Requests, req[q] \in Requested, NEW p \in BOOLEAN, Marks(q, p)
  PROVE  \E x \in Requested :
            /\ Step(q, x) /\ x.at \in {"opened", "resource", "got"}
            /\ x.key = req[q].key /\ x.told = req[q].told /\ x.point = req[q].point
<1> DEFINE r == req[q]
           at == After(r.at)
           x == [r EXCEPT !.dns = FALSE]
           y == [x EXCEPT !.private = p]
           z == [y EXCEPT !.at = at]
<1>0. at \in {"opened", "resource", "got"}
  BY DEF After
<1>1. Step(q, z)
  BY Zenon DEF Marks, Marked
<1> HIDE DEF r, at
<1>2. r \in Requested
  BY DEF r
<1>3. x \in Requested /\ x.key = r.key /\ x.told = r.told /\ x.point = r.point
  BY <1>2 DEF Requested
<1> HIDE DEF x
<1>4. y \in Requested /\ y.key = r.key /\ y.told = r.told /\ y.point = r.point
  BY <1>3 DEF Requested
<1> HIDE DEF y
<1>5. z \in Requested /\ z.at = at /\ z.key = r.key /\ z.told = r.told /\ z.point = r.point
  BY <1>0, <1>4 DEF Requested
<1> HIDE DEF z
<1> QED
  BY Zenon, <1>0, <1>1, <1>5 DEF r

LEMMA ClassesType == \A g : Classes(g) \subseteq BOOLEAN
  BY DEF Classes

LEMMA ServingSteps ==
  ASSUME NEW q \in Requests, Ages
  PROVE  /\ ServeEntry(q) \/ ServeSegment(q) => Served(q) \/ Moved(q)
         /\ Fetched(q) => Served(q)
         /\ Classify(q) \/ LookupEnds(q) => Served(q) \/ Looks(q) \/ \E p \in BOOLEAN : Marks(q, p)
<1>1. ServeEntry(q) \/ ServeSegment(q) => Served(q) \/ Moved(q)
  BY Zenon DEF ServeEntry, ServeSegment, Moved
<1>2. \A p \in BOOLEAN : Undecided(q) /\ Decided(q, p) => Served(q) \/ Marks(q, p)
  BY Zenon DEF Decided, CheckFetchTarget, Marks, Marked
<1>3. \A s \in Trusted : cache[s].private \in BOOLEAN
  BY DEF Ages
<1>4. Classify(q) => Looks(q) \/ \E p \in BOOLEAN : Undecided(q) /\ Decided(q, p)
  BY Zenon, <1>3 DEF Classify, Looks
<1>6. LookupEnds(q) => \E p \in BOOLEAN : Undecided(q) /\ Decided(q, p)
  BY Zenon, ClassesType DEF LookupEnds
<1> QED
  BY <1>1, <1>2, <1>4, <1>6 DEF Fetched

LEMMA ServingType ==
  ASSUME Rows, Work, Ages, WithRow, NEW q \in Requests, req[q].at \notin {"idle", "resolve"},
         issued' \subseteq Points,
         Served(q) \/ Moved(q) \/ Looks(q) \/ \E p \in BOOLEAN : Marks(q, p)
  PROVE  Work' /\ WithRow'
<1>0. req[q] \in Requested /\ req[q].point \in Points
  BY DEF Work, WithRow
<1>a. ASSUME NEW x \in Requested, x.at = "idle" \/ x.point \in Points, Step(q, x)
      PROVE  Work' /\ WithRow'
  BY <1>a, StepType DEF Step, Work, WithRow
<1>1. CASE Served(q)
  BY <1>1, <1>a, ToldType DEF Served
<1>2. CASE Moved(q)
  <2>1. PICK at \in {"fetch", "target"} : Step(q, [req[q] EXCEPT !.at = at])
    BY <1>2 DEF Moved
  <2>2. /\ [req[q] EXCEPT !.at = at] \in Requested
        /\ [req[q] EXCEPT !.at = at].point = req[q].point
    BY <1>0 DEF Requested
  <2> QED
    BY <2>1, <2>2, <1>0, <1>a
<1>3. CASE Looks(q)
  <2>2. /\ [req[q] EXCEPT !.dns = TRUE] \in Requested
        /\ [req[q] EXCEPT !.dns = TRUE].point = req[q].point
    BY <1>0 DEF Requested
  <2> QED
    BY <1>3, <2>2, <1>0, <1>a DEF Looks
<1>4. ASSUME NEW p \in BOOLEAN, Marks(q, p) PROVE Work' /\ WithRow'
  <2>1. PICK x \in Requested : Step(q, x) /\ x.point = req[q].point
    BY <1>0, <1>4, MarkStep
  <2> QED
    BY <2>1, <1>0, <1>a
<1> QED
  BY <1>1, <1>2, <1>3, <1>4

LEMMA RequestType ==
  ASSUME Rows, Work, Ages, WithRow, NEW q \in Requests, RequestStep(q)
  PROVE  Work' /\ WithRow'
<1> DEFINE r == req[q]
<1>0. r \in Requested
  BY DEF Work
<1>a. ASSUME NEW x \in Requested, x.at = "idle" \/ x.point \in Points \/ x = r, Decide(q, x)
      PROVE  Work' /\ WithRow'
  BY <1>a, DecideType DEF Decide, Work, WithRow
<1>1. ASSUME NEW k \in Keys, Ask(q, k) PROVE Work' /\ WithRow'
  <2>1. PICK x : x = [Idle EXCEPT !.at = "resolve", !.key = k]
    OBVIOUS
  <2>2. x \in Requested /\ x.at = "resolve"
    BY <2>1, AskedType
  <2>3. req' = [req EXCEPT ![q] = x] /\ could' = [could EXCEPT ![q] = {LinkState(k)}] /\ UNCHANGED issued
    BY <1>1, <2>1 DEF Ask
  <2> QED
    BY <2>2, <2>3, LinkStateType DEF Work, WithRow
<1>2. ASSUME Resolve(q) PROVE Work' /\ WithRow'
  <2>1. CASE Decide(q, Told("unknown"))
    BY <2>1, <1>a, ToldType
  <2>2. ASSUME NEW a \in Points, Decide(q, Proceed(Row(r, a))) PROVE Work' /\ WithRow'
    BY <2>2, <1>0, <1>a, RowType, ProceedType
  <2>3. ASSUME NEW a \in Points, Decide(q, [Row(r, a) EXCEPT !.at = "validate"]) PROVE Work' /\ WithRow'
    <3>1. [Row(r, a) EXCEPT !.at = "validate"] \in Requested /\ [Row(r, a) EXCEPT !.at = "validate"].point = a
      BY <1>0, RowType DEF Requested
    <3> QED
      BY <2>3, <3>1, <1>a
  <2> QED
    BY Zenon, <1>2, <2>1, <2>2, <2>3 DEF Resolve
<1>3. ASSUME Validate(q) PROVE Work' /\ WithRow'
  <2>1. r.point \in Points
    BY <1>3 DEF Validate, WithRow
  <2>2. Decide(q, Told("unknown")) \/ Decide(q, Told("dead")) \/ Decide(q, Proceed(r))
    BY Zenon, <1>3 DEF Validate
  <2> QED
    BY <2>1, <2>2, <1>0, <1>a, ToldType, ProceedType
<1>4. CASE ServeEntry(q) \/ ServeSegment(q) \/ Fetched(q)
  <2>1. r.at \notin {"idle", "resolve"}
    BY <1>4 DEF ServeEntry, ServeSegment, Fetched
  <2>2. issued' \subseteq Points
    BY <1>4, <2>1 DEF ServeEntry, ServeSegment, Fetched, Issue, Work, WithRow
  <2> QED
    BY <1>4, <2>1, <2>2, ServingSteps, ServingType
<1>5. CASE Classify(q) \/ LookupEnds(q)
  <2>1. r.at \notin {"idle", "resolve"}
    BY <1>5 DEF Classify, LookupEnds, Undecided
  <2>2. issued' \subseteq Points
    BY <1>5 DEF Classify, LookupEnds, Work
  <2> QED
    BY <1>5, <2>1, <2>2, ServingSteps, ServingType
<1> QED
  BY <1>1, <1>2, <1>3, <1>4, <1>5 DEF RequestStep

Shape == Rows /\ Work /\ Ages /\ WithRow

LEMMA ShapeInit == Init => Shape
<1> SUFFICES ASSUME Init PROVE Shape
  OBVIOUS
<1>1. Rows
  <2>1. PICK A \in SUBSET Points, T \in SUBSET Tokens :
          /\ \A a, b \in A : PathOf[a] = PathOf[b] => a = b
          /\ \A t \in T : PointOf[t] \in A
          /\ point = [a \in Points |-> IF a \in A THEN "active" ELSE "none"]
          /\ token = [t \in Tokens |-> IF t \in T THEN "valid" ELSE "none"]
    BY DEF Init
  <2>2. stream = [s \in Streams |-> "active"]
    BY DEF Init
  <2> QED
    BY <2>1, <2>2, LinkAssumption DEF Rows, Exists
<1>2. Work /\ WithRow
  <2> HIDE DEF Idle
  <2> QED
    BY IdleType DEF Init, Work, WithRow
<1>3. NoEntry \in [private : BOOLEAN, age : 0..TTL]
  BY DEF NoEntry
<1>4. Ages
  BY <1>3 DEF Init, Ages, Oldest
<1> QED
  BY <1>1, <1>2, <1>4 DEF Shape

LEMMA TickShape == Shape /\ Tick => Shape'
<1> SUFFICES ASSUME Shape, Tick PROVE Shape'
  OBVIOUS
<1>1. Rows'
  BY DEF Shape, Rows, Exists, Tick, database
<1>2. ASSUME NEW q \in Requests
      PROVE  req'[q] \in Requested /\ req'[q].at = req[q].at /\ req'[q].point = req[q].point
  <2>1. req[q] \in Requested
    BY DEF Shape, Work
  <2>2. CASE HoldsRow(q)
    <3>1. req'[q] = [req[q] EXCEPT !.age = @ + 1] /\ req[q].age < Patience
      BY <2>2 DEF Tick
    <3> QED
      BY <2>1, <3>1 DEF Requested
  <2>3. CASE ~HoldsRow(q)
    BY <2>1, <2>3 DEF Tick
  <2> QED
    BY <2>2, <2>3
<1>3. Work' /\ WithRow'
  BY <1>2 DEF Shape, Work, WithRow, Tick
<1>4. NoEntry \in [private : BOOLEAN, age : 0..TTL]
  BY DEF NoEntry
<1>5. \A s \in Trusted : cache[s].age + 1 < TTL =>
        [cache[s] EXCEPT !.age = @ + 1] \in [private : BOOLEAN, age : 0..TTL]
  BY DEF Shape, Ages
<1>6. cache' \in [Trusted -> [private : BOOLEAN, age : 0..TTL]]
  BY <1>4, <1>5 DEF Tick
<1>7. ago' \in [Trusted -> 0..Oldest] /\ source' \in [Trusted -> Sources] /\ edits' \in 0..MaxEdits
  BY DEF Shape, Ages, Tick, Oldest, database
<1> QED
  BY <1>1, <1>3, <1>6, <1>7 DEF Shape, Ages

LEMMA RestartShape == Shape /\ Restart => Shape'
<1> SUFFICES ASSUME Shape, Restart PROVE Shape'
  OBVIOUS
<1>1. Rows'
  BY DEF Shape, Rows, Exists, Restart, database
<1>2. Work' /\ WithRow'
  <2> HIDE DEF Idle
  <2> QED
    BY IdleType DEF Restart, Work, WithRow
<1>3. NoEntry \in [private : BOOLEAN, age : 0..TTL]
  BY DEF NoEntry
<1>4. Ages'
  BY <1>3 DEF Shape, Ages, Restart, database
<1> QED
  BY <1>1, <1>2, <1>4 DEF Shape

LEMMA AdminShape == Shape /\ Admin => Shape'
<1> SUFFICES ASSUME Shape, Admin PROVE Shape'
  OBVIOUS
<1>1. UNCHANGED req
  BY AdminChanged DEF Changed
<1>2. WithRow'
  BY <1>1 DEF Shape, WithRow
<1> QED
  BY <1>2, AdminChanged, RowsChange, ChangedType, AgesChange DEF Shape

LEMMA RequestShape ==
  ASSUME Shape, NEW q \in Requests, RequestStep(q)
  PROVE  Shape'
<1>1. UNCHANGED <<database, ago>>
  BY DEF RequestStep, Ask, Decide, Resolve, Validate, ServeEntry, ServeSegment, Classify, LookupEnds,
         Fetched, Decided, CheckFetchTarget, Served, Step
<1>2. Rows'
  BY <1>1 DEF Shape, Rows, Exists, database
<1>3. cache' \in [Trusted -> [private : BOOLEAN, age : 0..TTL]]
  <2>1. CASE UNCHANGED cache
    BY <2>1 DEF Shape, Ages
  <2>2. CASE LookupEnds(q)
    <3>1. PICK p \in BOOLEAN : \E s :
             cache' = [cache EXCEPT ![s] = [private |-> p, age |-> 0]]
      BY Zenon, <2>2, ClassesType DEF LookupEnds
    <3>2. [private |-> p, age |-> 0] \in [private : BOOLEAN, age : 0..TTL]
      OBVIOUS
    <3> QED
      BY <3>1, <3>2 DEF Shape, Ages
  <2>3. UNCHANGED cache \/ LookupEnds(q)
    BY DEF RequestStep, Ask, Decide, Resolve, Validate, ServeEntry, ServeSegment, Classify, Fetched
  <2> QED
    BY <2>1, <2>2, <2>3
<1> QED
  BY <1>1, <1>2, <1>3, RequestType DEF Shape, Ages, database

LEMMA ShapeStays == Shape /\ UNCHANGED vars => Shape'
  BY DEF Shape, Rows, Work, Ages, WithRow, Exists, vars, database

LEMMA ShapeNext == Shape /\ [Next]_vars => Shape'
  BY TickShape, RestartShape, AdminShape, RequestShape, ShapeStays DEF Next

LEMMA ShapeAlways == Spec => []Shape
<1> QED
  BY ShapeInit, ShapeNext, PTL DEF Spec

(* Every variable keeps its type, access points their paths to themselves,
   tokens and access points go with their stream (migrations/0001:45). *)
THEOREM TypesAlways == Spec => []TypeOK
<1>1. Shape => TypeOK
  BY TypeParts DEF Shape
<1> QED
  BY <1>1, ShapeAlways, PTL

(***************************************************************************)
(* Requests are answered by a state of their link.                         *)
(***************************************************************************)
(* The answer its row alone gives to a request. *)
Verdict(r) ==
    IF r.dead THEN "dead" ELSE IF r.key.ref \in {None, r.point} THEN "live" ELSE "unknown"

(* What a request knows while it waits for its token: the row it read answers
   it, unless the token is of another access point or has been withdrawn. *)
Knows(q) ==
    LET r == req[q] IN
    /\ PathOf[r.point] = r.key.path
    /\ r.key.token \in Tokens /\ token[r.key.token] # "none"
    /\ PointOf[r.key.token] # r.point => "unknown" \in could[q]
    /\ PointOf[r.key.token] = r.point /\ token[r.key.token] = "valid" => Verdict(r) \in could[q]

(* An undecided request has its link's state on its list, a decided one has
   its answer. *)
PhaseOf(q) ==
    /\ req[q].at = "idle" => req[q].key = None
    /\ req[q].at \in {"resolve", "validate"} =>
          /\ req[q].key \in Keys /\ req[q].told = "nothing"
          /\ req[q].key.token # None => token[req[q].key.token] # "none"
          /\ \A k \in Keys : k = req[q].key => LinkState(k) \in could[q]
    /\ req[q].at = "validate" => Knows(q)
    /\ req[q].at \notin {"idle", "resolve", "validate"} => req[q].key = None /\ req[q].told = "live"

Phases == \A q \in Requests : PhaseOf(q)

LEMMA OneNamed ==
  ASSUME Rows, NEW k, NEW a \in Points, NEW b \in Points, Named(k, a), Named(k, b)
  PROVE  a = b
  BY DEF Rows, Named

LEMMA StateOfNamed ==
  ASSUME Rows, NEW k, NEW a \in Points, Named(k, a)
  PROVE  LinkState(k) = IF Dead(a) \/ (k.token # None /\ token[k.token] # "valid") THEN "dead"
                        ELSE IF k.ref \in {None, a} THEN "live" ELSE "unknown"
<1>1. (CHOOSE b \in Points : Named(k, b)) = a
  BY OneNamed
<1> QED
  BY <1>1 DEF LinkState

(* The row of a public link answers it. *)
LEMMA PublicRow ==
  ASSUME Shape, NEW q \in Requests, req[q].key \in Keys, req[q].key.token = None,
         NEW a \in Points, Fits(req[q].key, a)
  PROVE  LinkState(req[q].key) = Verdict(Row(req[q], a))
<1>1. Named(req[q].key, a)
  BY DEF Named, Fits
<1>2. Row(req[q], a).dead = Dead(a) /\ Row(req[q], a).key = req[q].key /\ Row(req[q], a).point = a
  BY RowType DEF Shape, Work
<1> QED
  BY <1>1, <1>2, StateOfNamed DEF Verdict, Shape

LEMMA NoRow ==
  ASSUME NEW k \in Keys, \A a \in Points : ~Fits(k, a)
  PROVE  LinkState(k) = "unknown"
<1>1. \A a \in Points : ~Named(k, a)
  BY DEF Named, Fits, Private, Keys
<1> QED
  BY <1>1 DEF LinkState

(* The row a request with a token reads. *)
LEMMA PrivateRow ==
  ASSUME Shape, Phases, NEW q \in Requests, req[q].at = "resolve", req[q].key.token # None,
         NEW a \in Points, Fits(req[q].key, a)
  PROVE  LET t == req[q].key.token IN
         /\ PathOf[a] = req[q].key.path /\ t \in Tokens /\ token[t] # "none"
         /\ PointOf[t] # a => "unknown" \in could[q]
         /\ PointOf[t] = a /\ token[t] = "valid" => Verdict(Row(req[q], a)) \in could[q]
<1> DEFINE k == req[q].key
           t == k.token
<1>1. k \in Keys /\ t \in Tokens /\ token[t] # "none" /\ LinkState(k) \in could[q]
  BY DEF Phases, PhaseOf, Keys
<1>2. Exists(a) /\ PathOf[a] = k.path
  BY DEF Fits
<1>3. ASSUME PointOf[t] # a PROVE LinkState(k) = "unknown"
  <2>1. \A b \in Points : ~Named(k, b)
    BY <1>2, <1>3 DEF Named, Shape, Rows
  <2> QED
    BY <2>1 DEF LinkState
<1>4. ASSUME PointOf[t] = a, token[t] = "valid" PROVE LinkState(k) = Verdict(Row(req[q], a))
  <2>1. Named(k, a)
    BY <1>2, <1>4 DEF Named
  <2>2. Row(req[q], a).dead = Dead(a) /\ Row(req[q], a).key = k /\ Row(req[q], a).point = a
    BY RowType DEF Shape, Work
  <2> QED
    BY <1>4, <2>1, <2>2, StateOfNamed DEF Verdict, Shape
<1> QED
  BY <1>1, <1>2, <1>3, <1>4

(* The token says the rest. *)
LEMMA TokenSays ==
  ASSUME Shape, Phases, NEW q \in Requests, req[q].at = "validate"
  PROVE  LET t == req[q].key.token IN
         /\ PointOf[t] # req[q].point \/ token[t] = "deleted" => "unknown" \in could[q]
         /\ PointOf[t] = req[q].point /\ token[t] \notin {"deleted", "valid"} => "dead" \in could[q]
         /\ PointOf[t] = req[q].point /\ token[t] = "valid" => Verdict(req[q]) \in could[q]
<1> DEFINE k == req[q].key
           t == k.token
           a == req[q].point
<1>1. /\ k \in Keys /\ LinkState(k) \in could[q] /\ Knows(q) /\ t \in Tokens /\ token[t] # "none"
      /\ a \in Points /\ PathOf[a] = k.path /\ t # None
  BY NoneAssumption DEF Phases, PhaseOf, Knows, Shape, WithRow
<1>2. ASSUME token[t] = "deleted" PROVE LinkState(k) = "unknown"
  BY <1>1, <1>2 DEF LinkState, Named
<1>3. ASSUME PointOf[t] = a, token[t] \notin {"deleted", "valid"} PROVE LinkState(k) = "dead"
  <2>1. Exists(a)
    BY <1>1, <1>3 DEF Shape, Rows
  <2>2. Named(k, a)
    BY <1>1, <1>3, <2>1 DEF Named
  <2> QED
    BY <1>1, <1>3, <2>2, StateOfNamed DEF Shape
<1> QED
  BY <1>1, <1>2, <1>3 DEF Knows

LEMMA SameLinks ==
  ASSUME UNCHANGED <<point, token, stream>>
  PROVE  \A k : LinkState(k)' = LinkState(k)
<1>1. \A k, a : Named(k, a)' = Named(k, a)
  BY Zenon DEF Named, Exists
<1>2. \A a : Dead(a)' = Dead(a)
  BY Zenon DEF Dead
<1> QED
  BY <1>1, <1>2 DEF LinkState

LEMMA PhasesInit == Init => Phases
<1> HIDE DEF Idle
<1> QED
  BY IdleType DEF Init, Phases, PhaseOf

(* An edit: lists grow, tokens only become worse. *)
LEMMA AdminPhases == Shape /\ Phases /\ Admin => Phases'
<1> SUFFICES ASSUME Shape, Phases, Admin, NEW q \in Requests PROVE PhaseOf(q)'
  BY DEF Phases
<1>0. req' = req /\ could[q] \subseteq could'[q]
  BY AdminChanged DEF Changed, Shape, Work
<1>1. \A k \in Keys : k = req[q].key => LinkState(k)' \in could'[q]
  BY AdminChanged, KeyAssumption DEF Changed, Shape, Work
<1>2. \A t \in Tokens : token[t] # "none" =>
        token'[t] # "none" /\ (token'[t] = "valid" => token[t] = "valid")
  BY DEF Admin, NewPoint, RevokePoint, NewToken, RevokeToken, Expire, ToggleStream,
         DeleteStream, EditSource, Shape, Rows
<1>4. req[q].key.token # None /\ req[q].key \in Keys => req[q].key.token \in Tokens
  BY DEF Keys
<1>5. ASSUME req[q].at = "validate" PROVE Knows(q)'
  <2>1. Knows(q)
    BY <1>5 DEF Phases, PhaseOf
  <2>2. Verdict(req[q])' = Verdict(req[q])
    BY <1>0 DEF Verdict
  <2> HIDE DEF Verdict
  <2> QED
    BY <1>0, <1>2, <2>1, <2>2 DEF Knows
<1>6. PhaseOf(q)
  BY DEF Phases
<1>7. ASSUME req[q].at \in {"resolve", "validate"}
      PROVE  (req[q].key.token # None => token[req[q].key.token] # "none")'
  BY <1>0, <1>2, <1>4, <1>6, <1>7 DEF PhaseOf
<1> QED
  BY <1>0, <1>1, <1>5, <1>6, <1>7 DEF PhaseOf

(* A step of one request leaves the others alone. *)
LEMMA OthersPhase ==
  ASSUME Phases, UNCHANGED <<point, token, stream>>, NEW q \in Requests,
         req'[q] = req[q] \/ (HoldsRow(q) /\ req'[q] = [req[q] EXCEPT !.age = @ + 1]),
         could'[q] = could[q], Shape
  PROVE  PhaseOf(q)'
<1>1. /\ req'[q].at = req[q].at /\ req'[q].key = req[q].key /\ req'[q].told = req[q].told
      /\ req'[q].point = req[q].point /\ req'[q].dead = req[q].dead
  BY DEF Shape, Work, Requested
<1>2. \A k \in Keys : LinkState(k)' = LinkState(k)
  BY SameLinks
<1>3. Knows(q) => Knows(q)'
  BY <1>1 DEF Knows, Verdict
<1> QED
  BY <1>1, <1>2, <1>3 DEF Phases, PhaseOf

LEMMA ProceedTold ==
  ASSUME NEW r \in Requested
  PROVE  Proceed(r).told = Verdict(r)
<1>1. Verdict(r) = "dead" => Proceed(r) = Told("dead")
  BY DEF Verdict, Proceed
<1>2. Verdict(r) = "unknown" => Proceed(r) = Told("unknown")
  BY DEF Verdict, Proceed, Bound
<1>3. Verdict(r) = "live" => Proceed(r) = Serve(r, "entry") \/ Proceed(r) = Serve(r, "segment")
  BY DEF Verdict, Proceed, Bound
<1>4. Verdict(r) \in {"live", "dead", "unknown"}
  BY DEF Verdict
<1> QED
  BY <1>1, <1>2, <1>3, <1>4, ToldType, ServeType

(* What a step of request q comes to in the promise: it is asked, it is
   answered, or nothing happens. *)
Asked(q) == \E k \in Keys :
    /\ req[q].key = None /\ req'[q].key = k /\ req'[q].told = "nothing"
    /\ could'[q] = {LinkState(k)}
Waits(q) == req'[q].key = req[q].key /\ req'[q].told = req[q].told /\ could'[q] = could[q]
Answered(q) ==
    /\ req[q].key \in Keys /\ req'[q].key = None
    /\ req'[q].told \in could[q] /\ could'[q] = {}

Others(q) == \A p \in Requests \ {q} : req'[p] = req[p] /\ could'[p] = could[p]

LEMMA DecidePhase ==
  ASSUME Shape, Phases, NEW q \in Requests, req[q].at \in {"resolve", "validate"},
         NEW x \in Requested, x.key = None, x.told \in could[q],
         x.at # "idle" => x.at \in {"entry", "segment"} /\ x.told = "live",
         Decide(q, x)
  PROVE  PhaseOf(q)' /\ Others(q) /\ Answered(q)
<1>1. req'[q] = x /\ could'[q] = {} /\ Others(q)
  BY DEF Decide, Shape, Work, Others
<1> QED
  BY <1>1 DEF Phases, PhaseOf, Answered

LEMMA ToldPhase ==
  ASSUME Shape, Phases, NEW q \in Requests, req[q].at \in {"resolve", "validate"},
         NEW v \in {"dead", "unknown"}, v \in could[q], Decide(q, Told(v))
  PROVE  PhaseOf(q)' /\ Others(q) /\ Answered(q)
<1>1. PICK x : x = Told(v)
  OBVIOUS
<1>2. /\ x \in Requested /\ x.key = None /\ x.told \in could[q]
      /\ x.at # "idle" => x.at \in {"entry", "segment"} /\ x.told = "live"
  <2>1. x \in Requested /\ x.key = None /\ x.told = v /\ x.at = "idle"
    BY <1>1, ToldType
  <2> QED
    BY Zenon, <2>1
<1>3. Decide(q, x)
  BY <1>1
<1> QED
  BY Zenon, <1>2, <1>3, DecidePhase

LEMMA ProceedPhase ==
  ASSUME Shape, Phases, NEW q \in Requests, req[q].at \in {"resolve", "validate"},
         NEW r \in Requested, Verdict(r) \in could[q], Decide(q, Proceed(r))
  PROVE  PhaseOf(q)' /\ Others(q) /\ Answered(q)
<1>1. PICK x : x = Proceed(r)
  OBVIOUS
<1>2. /\ x \in Requested /\ x.key = None /\ x.told \in could[q]
      /\ x.at # "idle" => x.at \in {"entry", "segment"} /\ x.told = "live"
  <2>1. x \in Requested /\ x.key = None /\ x.at \in {"idle", "entry", "segment"}
    BY <1>1, ProceedType
  <2>2. x.at # "idle" => x.told = "live"
    BY <1>1, ProceedType
  <2>3. x.told = Verdict(r)
    BY <1>1, ProceedTold
  <2> QED
    BY Zenon, <2>1, <2>2, <2>3
<1>3. Decide(q, x)
  BY <1>1
<1> QED
  BY Zenon, <1>2, <1>3, DecidePhase

LEMMA ResolvePhase ==
  ASSUME Shape, Phases, NEW q \in Requests, Resolve(q)
  PROVE  PhaseOf(q)' /\ Others(q) /\ (Answered(q) \/ Waits(q))
<1> DEFINE r == req[q]
<1>0. /\ r \in Requested /\ r.at = "resolve" /\ r.key \in Keys /\ r.told = "nothing"
      /\ LinkState(r.key) \in could[q]
  BY DEF Resolve, Shape, Work, Phases, PhaseOf
<1>1. ASSUME \A a \in Points : ~Fits(r.key, a), Decide(q, Told("unknown"))
      PROVE  PhaseOf(q)' /\ Others(q) /\ Answered(q)
  <2>1. "unknown" \in could[q]
    BY <1>0, <1>1, NoRow
  <2> QED
    BY <1>0, <1>1, <2>1, ToldPhase
<1>2. ASSUME NEW a \in Points, Fits(r.key, a), r.key.token = None, Decide(q, Proceed(Row(r, a)))
      PROVE  PhaseOf(q)' /\ Others(q) /\ Answered(q)
  <2>1. Row(r, a) \in Requested
    BY <1>0, RowType DEF Shape
  <2>2. Verdict(Row(r, a)) \in could[q]
    BY <1>0, <1>2, PublicRow
  <2> QED
    BY <1>0, <1>2, <2>1, <2>2, ProceedPhase
<1>3. ASSUME NEW a \in Points, Fits(r.key, a), r.key.token # None,
             Decide(q, [Row(r, a) EXCEPT !.at = "validate"])
      PROVE  PhaseOf(q)' /\ Others(q) /\ Waits(q)
  <2> DEFINE y == Row(r, a)
             x == [y EXCEPT !.at = "validate"]
  <2>1. y \in Requested /\ y.key = r.key /\ y.told = r.told /\ y.point = a
    BY <1>0, RowType DEF Shape
  <2> HIDE DEF y
  <2>2. /\ x.key = r.key /\ x.told = "nothing" /\ x.point = a /\ x.dead = y.dead
        /\ x.at = "validate"
    BY <1>0, <2>1 DEF Requested
  <2>3. req'[q] = x /\ Others(q) /\ UNCHANGED <<point, token, stream>>
    BY <1>3 DEF Decide, Shape, Work, Others, database, y
  <2> HIDE DEF x
  <2>4. could'[q] = could[q]
    BY <1>0, <1>3, <2>2, KeyAssumption DEF Decide, Shape, Work, x, y
  <2>5. Verdict(y) = Verdict(x)
    BY <2>1, <2>2 DEF Verdict
  <2>6. /\ PathOf[a] = r.key.path /\ r.key.token \in Tokens /\ token[r.key.token] # "none"
        /\ PointOf[r.key.token] # a => "unknown" \in could[q]
        /\ PointOf[r.key.token] = a /\ token[r.key.token] = "valid" => Verdict(y) \in could[q]
    BY <1>0, <1>3, PrivateRow DEF y
  <2>7. Verdict(req[q])' = Verdict(x)
    BY <2>3 DEF Verdict
  <2>8. Knows(q)'
    BY <2>2, <2>3, <2>4, <2>5, <2>6, <2>7 DEF Knows
  <2>9. \A k \in Keys : LinkState(k)' = LinkState(k)
    BY <2>3, SameLinks
  <2> QED
    BY <1>0, <2>2, <2>3, <2>4, <2>6, <2>8, <2>9 DEF PhaseOf, Waits
<1> QED
  BY Zenon, <1>1, <1>2, <1>3 DEF Resolve

LEMMA ValidatePhase ==
  ASSUME Shape, Phases, NEW q \in Requests, Validate(q)
  PROVE  PhaseOf(q)' /\ Others(q) /\ Answered(q)
<1> DEFINE r == req[q]
           t == r.key.token
<1>0. r \in Requested /\ r.at = "validate"
  BY DEF Validate, Shape, Work
<1>1. CASE PointOf[t] # r.point \/ token[t] = "deleted"
  <2>1. Decide(q, Told("unknown"))
    BY Zenon, <1>1 DEF Validate
  <2> QED
    BY <1>0, <1>1, <2>1, TokenSays, ToldPhase
<1>2. CASE PointOf[t] = r.point /\ token[t] \notin {"deleted", "valid"}
  <2>1. Decide(q, Told("dead"))
    BY <1>2 DEF Validate
  <2> QED
    BY <1>0, <1>2, <2>1, TokenSays, ToldPhase
<1>3. CASE PointOf[t] = r.point /\ token[t] = "valid"
  <2>1. Decide(q, Proceed(r))
    BY <1>3 DEF Validate
  <2>2. Verdict(r) \in could[q]
    BY <1>0, <1>3, TokenSays
  <2> QED
    BY <1>0, <2>1, <2>2, ProceedPhase
<1> QED
  BY <1>1, <1>2, <1>3

LEMMA ServingPhase ==
  ASSUME Shape, Phases, NEW q \in Requests, req[q].at \notin {"idle", "resolve", "validate"},
         Served(q) \/ Moved(q) \/ Looks(q) \/ \E p \in BOOLEAN : Marks(q, p)
  PROVE  PhaseOf(q)' /\ Others(q) /\ Waits(q)
<1>0. req[q] \in Requested /\ req[q].key = None /\ req[q].told = "live"
  BY DEF Shape, Work, Phases, PhaseOf
<1>a. ASSUME NEW x, Step(q, x), x.key = None, x.told = "live", x.at \notin {"resolve", "validate"}
      PROVE  PhaseOf(q)' /\ Others(q) /\ Waits(q)
  BY <1>0, <1>a DEF Step, PhaseOf, Others, Waits, Shape, Work
<1>1. CASE Served(q)
  BY <1>1, <1>a, ToldType DEF Served
<1>2. CASE Moved(q)
  <2>1. PICK at \in {"fetch", "target"} : Step(q, [req[q] EXCEPT !.at = at])
    BY <1>2 DEF Moved
  <2>2. /\ [req[q] EXCEPT !.at = at].key = None /\ [req[q] EXCEPT !.at = at].told = "live"
        /\ [req[q] EXCEPT !.at = at].at = at
    BY <1>0 DEF Requested
  <2> QED
    BY <2>1, <2>2, <1>a
<1>3. CASE Looks(q)
  <2>2. /\ [req[q] EXCEPT !.dns = TRUE].key = None /\ [req[q] EXCEPT !.dns = TRUE].told = "live"
        /\ [req[q] EXCEPT !.dns = TRUE].at = req[q].at
    BY <1>0 DEF Requested
  <2> QED
    BY <1>3, <2>2, <1>a DEF Looks
<1>4. ASSUME NEW p \in BOOLEAN, Marks(q, p) PROVE PhaseOf(q)' /\ Others(q) /\ Waits(q)
  <2>1. PICK x \in Requested : /\ Step(q, x) /\ x.at \in {"opened", "resource", "got"}
                               /\ x.key = req[q].key /\ x.told = req[q].told
    BY <1>0, <1>4, MarkStep
  <2> QED
    BY <2>1, <1>0, <1>a
<1> QED
  BY <1>1, <1>2, <1>3, <1>4

LEMMA RequestPhase ==
  ASSUME Shape, Phases, NEW q \in Requests, RequestStep(q)
  PROVE  PhaseOf(q)' /\ Others(q) /\ (Asked(q) \/ Waits(q) \/ Answered(q))
<1>1. ASSUME NEW k \in Keys, Ask(q, k) PROVE PhaseOf(q)' /\ Others(q) /\ Asked(q)
  <2>1. PICK x : x = [Idle EXCEPT !.at = "resolve", !.key = k]
    OBVIOUS
  <2>2. x \in Requested /\ x.at = "resolve" /\ x.key = k /\ x.told = "nothing"
    BY <2>1, AskedType
  <2>3. /\ req' = [req EXCEPT ![q] = x] /\ could' = [could EXCEPT ![q] = {LinkState(k)}]
        /\ UNCHANGED <<point, token, stream>>
        /\ req[q].at = "idle" /\ (k.token # None => token[k.token] # "none")
    BY <1>1, <2>1 DEF Ask, database
  <2>4. req'[q] = x /\ could'[q] = {LinkState(k)} /\ Others(q) /\ req[q].key = None
    BY <2>3 DEF Shape, Work, Others, Phases, PhaseOf
  <2>5. LinkState(k)' = LinkState(k)
    BY <2>3, SameLinks
  <2> QED
    BY <2>2, <2>3, <2>4, <2>5 DEF PhaseOf, Asked
<1>2. CASE ServeEntry(q) \/ ServeSegment(q) \/ Fetched(q) \/ Classify(q) \/ LookupEnds(q)
  <2>1. req[q].at \notin {"idle", "resolve", "validate"}
    BY <1>2 DEF ServeEntry, ServeSegment, Fetched, Classify, LookupEnds, Undecided
  <2>2. Served(q) \/ Moved(q) \/ Looks(q) \/ \E p \in BOOLEAN : Marks(q, p)
    BY <1>2, ServingSteps DEF Shape
  <2> QED
    BY <2>1, <2>2, ServingPhase
<1> QED
  BY <1>1, <1>2, ResolvePhase, ValidatePhase DEF RequestStep

LEMMA RequestRows ==
  ASSUME NEW q \in Requests, RequestStep(q)
  PROVE  UNCHANGED <<point, token, stream, source, ago>>
  BY DEF RequestStep, Ask, Decide, Resolve, Validate, ServeEntry, ServeSegment, Classify, LookupEnds,
         Fetched, Decided, CheckFetchTarget, Served, Step, database

LEMMA PhasesNext == Shape /\ Phases /\ [Next]_vars => Phases'
<1> SUFFICES ASSUME Shape, Phases, [Next]_vars PROVE Phases'
  OBVIOUS
<1>1. CASE Tick
  <2>1. UNCHANGED <<point, token, stream, could>>
    BY <1>1 DEF Tick, database
  <2>2. ASSUME NEW q \in Requests
        PROVE  req'[q] = req[q] \/ (HoldsRow(q) /\ req'[q] = [req[q] EXCEPT !.age = @ + 1])
    BY <1>1 DEF Tick
  <2> QED
    BY <2>1, <2>2, OthersPhase DEF Phases
<1>2. CASE Restart
  <2> HIDE DEF Idle
  <2> QED
    BY <1>2, IdleType DEF Restart, Phases, PhaseOf
<1>3. ASSUME NEW q \in Requests, RequestStep(q) PROVE Phases'
  <2>1. PhaseOf(q)' /\ Others(q)
    BY <1>3, RequestPhase
  <2>2. ASSUME NEW p \in Requests \ {q} PROVE PhaseOf(p)'
    BY <1>3, <2>1, RequestRows, OthersPhase DEF Others
  <2> QED
    BY <2>1, <2>2 DEF Phases
<1>4. CASE UNCHANGED vars
  <2>1. UNCHANGED <<point, token, stream, could, req>>
    BY <1>4 DEF vars, database
  <2> QED
    BY <2>1, OthersPhase DEF Phases
<1> QED
  BY <1>1, <1>2, <1>3, <1>4, AdminPhases DEF Next

LEMMA InitLinks == Init => Promise!Init
<1> SUFFICES ASSUME Init PROVE Promise!Init
  OBVIOUS
<1> HIDE DEF Idle
<1> QED
  BY IdleType, LinkStateType DEF Init, Promise!Init, Promise!Verdicts

LEMMA AdminLinks == Shape /\ Admin => Promise!Change
<1> SUFFICES ASSUME Shape, Admin PROVE Promise!Change
  OBVIOUS
<1>1. \A k : LinkState(k)' \in {"live", "dead", "unknown"}
  BY DEF LinkState
<1>2. \A q \in Requests : req[q].key \in Keys \cup {None}
  BY DEF Shape, Work, Requested
<1>3. Changed
  BY AdminChanged
<1> QED
  BY <1>1, <1>2, <1>3, KeyAssumption DEF Changed, Promise!Change, Promise!Verdicts

LEMMA RestartLinks == Restart => Promise!Restart
<1> SUFFICES ASSUME Restart PROVE Promise!Restart
  OBVIOUS
<1>1. \A k : LinkState(k)' = LinkState(k)
  BY SameLinks DEF Restart, database
<1> HIDE DEF Idle
<1> QED
  BY <1>1, IdleType DEF Restart, Promise!Restart

LEMMA RequestLinks ==
  ASSUME Shape, Phases, NEW q \in Requests, RequestStep(q)
  PROVE  Promise!Ask(q) \/ Promise!Answer(q) \/ UNCHANGED Promise!vars
<1>1. \A k : LinkState(k)' = LinkState(k)
  BY RequestRows, SameLinks
<1>2. Others(q) /\ (Asked(q) \/ Waits(q) \/ Answered(q))
  BY RequestPhase
<1>3. could \in [Requests -> SUBSET {"live", "dead", "unknown"}] /\ could' = [p \in Requests |-> could'[p]]
  BY RequestShape DEF Shape, Work
<1>4. CASE Asked(q)
  <2>1. PICK k \in Keys :
          /\ req[q].key = None /\ req'[q].key = k /\ req'[q].told = "nothing"
          /\ could'[q] = {LinkState(k)}
    BY <1>4 DEF Asked
  <2>2. could' = [could EXCEPT ![q] = {[l \in Keys |-> LinkState(l)][k]}]
    BY <1>2, <1>3, <2>1 DEF Others
  <2>3. /\ [p \in Requests |-> req[p].key]' = [[p \in Requests |-> req[p].key] EXCEPT ![q] = k]
        /\ [p \in Requests |-> req[p].told]' = [[p \in Requests |-> req[p].told] EXCEPT ![q] = "nothing"]
    BY <1>2, <2>1 DEF Others
  <2>4. [p \in Requests |-> req[p].key][q] = None
    BY <2>1
  <2>5. [l \in Keys |-> LinkState(l)]' = [l \in Keys |-> LinkState(l)]
    BY <1>1
  <2> QED
    BY Zenon, <2>2, <2>3, <2>4, <2>5 DEF Promise!Ask
<1>5. CASE Waits(q)
  BY <1>1, <1>2, <1>3, <1>5 DEF Others, Waits, Promise!vars
<1>6. CASE Answered(q)
  BY <1>1, <1>2, <1>3, <1>6, KeyAssumption DEF Others, Answered, Promise!Answer
<1> QED
  BY <1>2, <1>4, <1>5, <1>6

LEMMA TickLinks == Shape /\ Tick => UNCHANGED Promise!vars
<1> SUFFICES ASSUME Shape, Tick PROVE UNCHANGED Promise!vars
  OBVIOUS
<1>1. \A k : LinkState(k)' = LinkState(k)
  BY SameLinks DEF Tick, database
<1>2. ASSUME NEW q \in Requests PROVE req'[q].key = req[q].key /\ req'[q].told = req[q].told
  BY DEF Tick, Shape, Work, Requested
<1> QED
  BY <1>1, <1>2 DEF Tick, Promise!vars

LEMMA StaysLinks == UNCHANGED vars => UNCHANGED Promise!vars
<1> SUFFICES ASSUME UNCHANGED vars PROVE UNCHANGED Promise!vars
  OBVIOUS
<1>1. \A k : LinkState(k)' = LinkState(k)
  BY SameLinks DEF vars, database
<1> QED
  BY <1>1 DEF vars, Promise!vars

(* Every request is answered by a state its link was in while it ran, a
   segment no less than an entry (handler.go:219, handler.go:265). *)
THEOREM LinksKept == Spec => ImplementsLinks
<1>1. Shape /\ Phases /\ [Next]_vars => [Promise!Next]_(Promise!vars)
  BY AdminLinks, RestartLinks, RequestLinks, TickLinks, StaysLinks DEF Next, Promise!Next
<1> QED
  BY <1>1, InitLinks, PhasesInit, PhasesNext, ShapeAlways, PTL
     DEF Spec, ImplementsLinks, Promise!Spec

(***************************************************************************)
(* Private addresses.                                                      *)
(***************************************************************************)
HoldsAt(at) == at \notin {"idle", "resolve", "opened", "got"}

(* A row that names a private source was read when the source was private. *)
RecentRow(r) ==
    /\ r.dns => HoldsAt(r.at) /\ StreamOf[r.point] \in Trusted
    /\ HoldsAt(r.at) /\ StreamOf[r.point] \in Trusted /\ r.source \in PrivateSources
          => ago[StreamOf[r.point]] <= r.age

Recent ==
    /\ \A s \in Trusted : source[s] \in PrivateSources => ago[s] = 0
    /\ \A s \in Trusted : cache[s].private => ago[s] <= Patience + cache[s].age
    /\ \A q \in Requests : RecentRow(req[q])

LEMMA RecentInit == Init => Recent
<1> SUFFICES ASSUME Init PROVE Recent
  OBVIOUS
<1>1. \A s \in Trusted : cache[s].private = FALSE
  BY DEF Init, NoEntry
<1>2. \A q \in Requests : req[q] = Idle
  BY DEF Init
<1>3. RecentRow(Idle)
  <2> HIDE DEF Idle
  <2> QED
    BY IdleType DEF RecentRow, HoldsAt
<1> QED
  BY <1>1, <1>2, <1>3 DEF Init, Recent

LEMMA RecentAdmin == Shape /\ Recent /\ Admin => Recent'
<1> SUFFICES ASSUME Shape, Recent, Admin PROVE Recent'
  OBVIOUS
<1>1. UNCHANGED <<cache, req>>
  BY AdminChanged DEF Changed
<1>2. \A s \in Trusted : ago'[s] = ago[s] \/ ago'[s] = 0
  BY DEF Admin, NewPoint, RevokePoint, NewToken, RevokeToken, Expire, ToggleStream,
         DeleteStream, EditSource, Shape, Ages
<1>3. \A s \in Trusted : source'[s] \in PrivateSources => ago'[s] = 0
  BY DEF Admin, NewPoint, RevokePoint, NewToken, RevokeToken, Expire, ToggleStream,
         DeleteStream, EditSource, Shape, Ages, Recent
<1>4. \A s \in Trusted : cache[s].private => ago'[s] <= Patience + cache[s].age
  BY <1>2 DEF Shape, Ages, Recent, Oldest
<1>5. \A q \in Requests : RecentRow(req[q])'
  BY <1>1, <1>2 DEF Shape, Ages, Work, Requested, Recent, RecentRow, Oldest
<1> QED
  BY <1>1, <1>3, <1>4, <1>5 DEF Recent

LEMMA RecentTick == Shape /\ Recent /\ Tick => Recent'
<1> SUFFICES ASSUME Shape, Recent, Tick PROVE Recent'
  OBVIOUS
<1>1. ASSUME NEW s \in Trusted
      PROVE  /\ ago[s] \in Nat /\ ago'[s] \in Nat /\ ago'[s] <= ago[s] + 1
             /\ (source'[s] \in PrivateSources => ago'[s] = 0)
  BY DEF Tick, database, Shape, Ages, Recent, Oldest
<1>2. ASSUME NEW s \in Trusted, cache'[s].private PROVE ago'[s] <= Patience + cache'[s].age
  <2>1. cache[s].age + 1 < TTL /\ cache'[s] = [cache[s] EXCEPT !.age = @ + 1]
    BY <1>2 DEF Tick, NoEntry
  <2>2. cache[s].private /\ cache'[s].age = cache[s].age + 1 /\ cache[s].age \in Nat
    BY <1>2, <2>1 DEF Shape, Ages
  <2> QED
    BY <1>1, <2>2 DEF Recent
<1>3. ASSUME NEW q \in Requests PROVE RecentRow(req[q])'
  <2>1. req[q] \in Requested /\ RecentRow(req[q]) /\ req[q].age \in Nat
    BY DEF Shape, Work, Recent, Requested
  <2>2. CASE HoldsRow(q)
    <3>1. req'[q] = [req[q] EXCEPT !.age = @ + 1]
      BY <2>2 DEF Tick
    <3>2. /\ req'[q].age = req[q].age + 1 /\ req'[q].dns = req[q].dns /\ req'[q].at = req[q].at
          /\ req'[q].point = req[q].point /\ req'[q].source = req[q].source
      BY <2>1, <3>1 DEF Requested
    <3> QED
      BY <1>1, <2>1, <3>2 DEF RecentRow
  <2>3. CASE ~HoldsRow(q)
    <3>1. req'[q] = req[q]
      BY <2>3 DEF Tick
    <3> QED
      BY <2>1, <2>3, <3>1 DEF RecentRow, HoldsRow, HoldsAt
  <2> QED
    BY <2>2, <2>3
<1> QED
  BY <1>1, <1>2, <1>3 DEF Recent

LEMMA RecentRestart == Shape /\ Recent /\ Restart => Recent'
<1> SUFFICES ASSUME Shape, Recent, Restart PROVE Recent'
  OBVIOUS
<1>1. \A s \in Trusted : cache'[s].private = FALSE
  BY DEF Restart, NoEntry
<1> HIDE DEF Idle
<1>2. \A q \in Requests : req'[q] = Idle
  BY DEF Restart
<1>3. RecentRow(Idle)'
  BY IdleType DEF RecentRow, HoldsAt
<1> QED
  BY <1>1, <1>2, <1>3 DEF Restart, Recent, database, RecentRow

(* A request is let through to private addresses while its stream's source
   has been private a moment ago. *)
Recently(q) == StreamOf[req[q].point] \in Trusted /\ ago[StreamOf[req[q].point]] < Oldest

LEMMA LookupTells ==
  ASSUME Shape, Recent, NEW q \in Requests, Undecided(q), req[q].dns,
         req[q].source \in PrivateSources
  PROVE  /\ StreamOf[req[q].point] \in Trusted
         /\ ago[StreamOf[req[q].point]] <= Patience /\ Recently(q)
<1>1. req[q].age \in 0..Patience /\ RecentRow(req[q])
  BY DEF Shape, Work, Requested, Recent
<1>2. HoldsAt(req[q].at)
  BY DEF Undecided, HoldsAt
<1> QED
  BY <1>1, <1>2 DEF RecentRow, Shape, Ages, Recently, Oldest

LEMMA LookupsStep ==
  ASSUME Shape, Recent, NEW q \in Requests, Classify(q) \/ LookupEnds(q)
  PROVE  \/ Served(q) \/ Marks(q, FALSE)
         \/ Looks(q) /\ Undecided(q) /\ StreamOf[req[q].point] \in Trusted
         \/ Marks(q, TRUE) /\ Recently(q)
<1>1. \A p \in BOOLEAN : Undecided(q) /\ Decided(q, p) => Served(q) \/ Marks(q, p)
  BY Zenon DEF Decided, CheckFetchTarget, Marks, Marked
<1>2. CASE Classify(q)
  <2> DEFINE s == StreamOf[req[q].point]
  <2>1. CASE s \notin Trusted /\ Decided(q, FALSE)
    BY Zenon, <1>1, <1>2, <2>1 DEF Classify
  <2>2. ASSUME s \in Trusted, Fresh(s), Decided(q, cache[s].private)
        PROVE  Served(q) \/ Marks(q, FALSE) \/ (Marks(q, TRUE) /\ Recently(q))
    <3>1. cache[s].private \in BOOLEAN
      BY <2>2 DEF Shape, Ages
    <3>2. cache[s].private => Recently(q)
      BY <2>2 DEF Fresh, Shape, Ages, Recent, Recently, Oldest
    <3> QED
      BY Zenon, <1>1, <1>2, <2>2, <3>1, <3>2 DEF Classify
  <2>3. CASE s \in Trusted /\ ~Fresh(s) /\ Step(q, [req[q] EXCEPT !.dns = TRUE])
    BY Zenon, <1>2, <2>3 DEF Classify, Looks
  <2> QED
    BY Zenon, <1>2, <2>1, <2>2, <2>3 DEF Classify
<1>3. CASE LookupEnds(q)
  <2>1. PICK p \in Classes(req[q].source) : Decided(q, p)
    BY <1>3 DEF LookupEnds
  <2>2. p \in BOOLEAN
    BY <2>1, ClassesType
  <2>3. p = FALSE \/ req[q].source \in PrivateSources
    BY Zenon, <2>1, <2>2 DEF Classes
  <2>4. Undecided(q) /\ req[q].dns
    BY <1>3 DEF LookupEnds
  <2>5. p = FALSE \/ Recently(q)
    BY <2>3, <2>4, LookupTells
  <2> QED
    BY Zenon, <1>1, <2>1, <2>2, <2>4, <2>5
<1> QED
  BY <1>2, <1>3

LEMMA MarkedRow ==
  ASSUME NEW r \in Requested, RecentRow(r), HoldsAt(r.at),
         NEW at \in {"opened", "resource", "got"}
  PROVE  RecentRow(Marked(r, TRUE, at)) /\ RecentRow(Marked(r, FALSE, at))
<1>1. ASSUME NEW x, x.dns = FALSE, x.point = r.point, x.source = r.source, x.age = r.age
      PROVE  RecentRow(x)
  BY <1>1 DEF RecentRow
<1>2. RecentRow(Marked(r, TRUE, at))
  BY <1>1, MarkType
<1>3. RecentRow(Marked(r, FALSE, at))
  BY <1>1, MarkType
<1> QED
  BY <1>2, <1>3

LEMMA ToldRow == \A v \in {"live", "dead", "unknown"} : RecentRow(Told(v))
  BY ToldType DEF RecentRow, HoldsAt

LEMMA ProceedRow ==
  ASSUME NEW r \in Requested,
         r.dns => StreamOf[r.point] \in Trusted,
         StreamOf[r.point] \in Trusted /\ r.source \in PrivateSources
            => ago[StreamOf[r.point]] <= r.age
  PROVE  RecentRow(Proceed(r))
<1>1. CASE Proceed(r).at # "idle"
  BY <1>1, ProceedType DEF RecentRow, HoldsAt
<1>2. CASE Proceed(r).at = "idle"
  <2>1. \E v \in {"dead", "unknown"} : Proceed(r) = Told(v)
    BY <1>2, ServeType DEF Proceed
  <2> QED
    BY <2>1, ToldRow
<1> QED
  BY <1>1, <1>2

(* The row of a request after its step. *)
LEMMA RecentRequestRow ==
  ASSUME Shape, Recent, NEW q \in Requests, RequestStep(q)
  PROVE  \E x : req' = [req EXCEPT ![q] = x] /\ RecentRow(x)
<1> DEFINE r == req[q]
<1>0. r \in Requested /\ RecentRow(r)
  BY DEF Shape, Work, Recent
<1>1. ASSUME NEW k \in Keys, Ask(q, k) PROVE \E x : req' = [req EXCEPT ![q] = x] /\ RecentRow(x)
  <2>1. PICK x : x = [Idle EXCEPT !.at = "resolve", !.key = k]
    OBVIOUS
  <2>2. x.dns = FALSE /\ x.at = "resolve" /\ req' = [req EXCEPT ![q] = x]
    BY <1>1, <2>1, AskedType DEF Ask
  <2> QED
    BY <2>2 DEF RecentRow, HoldsAt
<1>2. ASSUME Resolve(q) PROVE \E x : req' = [req EXCEPT ![q] = x] /\ RecentRow(x)
  <2>0. r.at = "resolve" /\ r.dns = FALSE
    BY <1>0, <1>2 DEF Resolve, RecentRow, HoldsAt, Requested
  <2>1. CASE Decide(q, Told("unknown"))
    BY <2>1, ToldRow DEF Decide
  <2>2. ASSUME NEW a \in Points PROVE RecentRow(Row(r, a)) /\ Row(r, a) \in Requested /\ Row(r, a).dns = FALSE
               /\ (StreamOf[a] \in Trusted /\ Row(r, a).source \in PrivateSources => ago[StreamOf[a]] <= Row(r, a).age)
               /\ Row(r, a).point = a
    <3>1. /\ Row(r, a) \in Requested /\ Row(r, a).point = a /\ Row(r, a).dns = FALSE
          /\ Row(r, a).at = "resolve" /\ Row(r, a).age = r.age /\ r.age \in Nat
          /\ (StreamOf[a] \in Trusted => Row(r, a).source = source[StreamOf[a]])
      BY <1>0, <2>0, RowType DEF Shape, Requested
    <3> QED
      BY <3>1 DEF RecentRow, HoldsAt, Recent
  <2>3. ASSUME NEW a \in Points, Decide(q, Proceed(Row(r, a)))
        PROVE  \E x : req' = [req EXCEPT ![q] = x] /\ RecentRow(x)
    <3>1. PICK y : y = Row(r, a)
      OBVIOUS
    <3>2. /\ y \in Requested /\ y.dns = FALSE
          /\ (StreamOf[y.point] \in Trusted /\ y.source \in PrivateSources => ago[StreamOf[y.point]] <= y.age)
      BY <2>2, <3>1
    <3>3. RecentRow(Proceed(y))
      BY <3>2, ProceedRow
    <3> QED
      BY <2>3, <3>1, <3>3 DEF Decide
  <2>4. ASSUME NEW a \in Points, Decide(q, [Row(r, a) EXCEPT !.at = "validate"])
        PROVE  \E x : req' = [req EXCEPT ![q] = x] /\ RecentRow(x)
    <3>1. PICK y : y = Row(r, a)
      OBVIOUS
    <3>2. /\ y \in Requested /\ y.dns = FALSE
          /\ (StreamOf[y.point] \in Trusted /\ y.source \in PrivateSources => ago[StreamOf[y.point]] <= y.age)
      BY <2>2, <3>1
    <3>3. /\ [y EXCEPT !.at = "validate"].dns = FALSE /\ [y EXCEPT !.at = "validate"].point = y.point
          /\ [y EXCEPT !.at = "validate"].source = y.source /\ [y EXCEPT !.at = "validate"].age = y.age
      BY <3>2 DEF Requested
    <3>4. RecentRow([y EXCEPT !.at = "validate"])
      BY <3>2, <3>3 DEF RecentRow
    <3> QED
      BY <2>4, <3>1, <3>4 DEF Decide
  <2> QED
    BY Zenon, <1>2, <2>1, <2>3, <2>4 DEF Resolve
<1>3. ASSUME Validate(q) PROVE \E x : req' = [req EXCEPT ![q] = x] /\ RecentRow(x)
  <2>1. Decide(q, Told("unknown")) \/ Decide(q, Told("dead")) \/ Decide(q, Proceed(r))
    BY Zenon, <1>3 DEF Validate
  <2>2. RecentRow(Proceed(r))
    BY <1>0, <1>3, ProceedRow DEF Validate, RecentRow, HoldsAt
  <2> QED
    BY <2>1, <2>2, ToldRow DEF Decide
<1>4. ASSUME ServeEntry(q) \/ ServeSegment(q) \/ Fetched(q)
      PROVE  \E x : req' = [req EXCEPT ![q] = x] /\ RecentRow(x)
  <2>1. CASE Served(q)
    BY <2>1, ToldRow DEF Served, Step
  <2>2. CASE Moved(q) /\ r.at \in {"entry", "segment"}
    <3>1. PICK at \in {"fetch", "target"} : Step(q, [r EXCEPT !.at = at])
      BY <2>2 DEF Moved
    <3>2. /\ [r EXCEPT !.at = at].dns = r.dns /\ [r EXCEPT !.at = at].point = r.point
          /\ [r EXCEPT !.at = at].source = r.source /\ [r EXCEPT !.at = at].age = r.age
          /\ [r EXCEPT !.at = at].at = at
      BY <1>0 DEF Requested
    <3>3. RecentRow([r EXCEPT !.at = at])
      BY <1>0, <2>2, <3>1, <3>2 DEF RecentRow, HoldsAt
    <3> QED
      BY <3>1, <3>3 DEF Step
  <2> QED
    BY <1>4, <2>1, <2>2, ServingSteps DEF Shape, ServeEntry, ServeSegment, Fetched
<1>5. ASSUME Classify(q) \/ LookupEnds(q)
      PROVE  \E x : req' = [req EXCEPT ![q] = x] /\ RecentRow(x)
  <2>1. HoldsAt(r.at)
    BY <1>5 DEF Classify, LookupEnds, Undecided, HoldsAt
  <2>2. CASE Served(q)
    BY <2>2, ToldRow DEF Served, Step
  <2>3. CASE Marks(q, FALSE) \/ Marks(q, TRUE)
    <3>1. PICK at \in {"opened", "resource", "got"} : at = After(r.at)
      BY DEF After
    <3>2. Step(q, Marked(r, FALSE, at)) \/ Step(q, Marked(r, TRUE, at))
      BY <2>3, <3>1 DEF Marks
    <3> QED
      BY <1>0, <2>1, <3>1, <3>2, MarkedRow DEF Step
  <2>4. CASE Looks(q) /\ StreamOf[r.point] \in Trusted
    <3>1. /\ [r EXCEPT !.dns = TRUE].at = r.at /\ [r EXCEPT !.dns = TRUE].point = r.point
          /\ [r EXCEPT !.dns = TRUE].source = r.source /\ [r EXCEPT !.dns = TRUE].age = r.age
      BY <1>0 DEF Requested
    <3>2. RecentRow([r EXCEPT !.dns = TRUE])
      BY <1>0, <2>1, <2>4, <3>1 DEF RecentRow
    <3> QED
      BY <2>4, <3>2 DEF Looks, Step
  <2> QED
    BY <1>5, <2>2, <2>3, <2>4, LookupsStep
<1> QED
  BY <1>1, <1>2, <1>3, <1>4, <1>5 DEF RequestStep

LEMMA RecentRequest ==
  ASSUME Shape, Recent, NEW q \in Requests, RequestStep(q)
  PROVE  Recent'
<1>1. UNCHANGED <<source, ago>>
  BY RequestRows
<1>2. \A p \in Requests : RecentRow(req[p])'
  <2>1. PICK x : req' = [req EXCEPT ![q] = x] /\ RecentRow(x)
    BY RecentRequestRow
  <2>2. \A p \in Requests : RecentRow(req'[p])
    BY <2>1 DEF Shape, Work, Recent
  <2> QED
    BY <1>1, <2>2 DEF RecentRow
<1>3. ASSUME NEW s \in Trusted, cache'[s].private PROVE ago[s] <= Patience + cache'[s].age
  <2>1. CASE UNCHANGED cache
    BY <1>3, <2>1 DEF Recent
  <2>2. CASE LookupEnds(q)
    <3>1. Undecided(q) /\ req[q].dns
      BY <2>2 DEF LookupEnds
    <3>2. PICK p \in Classes(req[q].source) :
            cache' = [cache EXCEPT ![StreamOf[req[q].point]] = [private |-> p, age |-> 0]]
      BY <2>2 DEF LookupEnds
    <3>3. CASE s # StreamOf[req[q].point]
      BY <1>3, <3>2, <3>3 DEF Recent, Shape, Ages
    <3>4. CASE s = StreamOf[req[q].point]
      <4>1. cache'[s].private = p /\ cache'[s].age = 0
        BY <3>2, <3>4 DEF Shape, Ages
      <4>2. p => req[q].source \in PrivateSources
        BY Zenon, <3>2 DEF Classes
      <4>3. req[q].source \in PrivateSources
        BY Zenon, <1>3, <4>1, <4>2
      <4> QED
        BY <3>1, <3>4, <4>1, <4>3, LookupTells
    <3> QED
      BY <3>3, <3>4
  <2>3. UNCHANGED cache \/ LookupEnds(q)
    BY DEF RequestStep, Ask, Decide, Resolve, Validate, ServeEntry, ServeSegment, Classify, Fetched
  <2> QED
    BY <2>1, <2>2, <2>3
<1> QED
  BY <1>1, <1>2, <1>3 DEF Recent

LEMMA RecentStays == Shape /\ Recent /\ UNCHANGED vars => Recent'
  BY DEF Recent, RecentRow, vars, database

LEMMA RecentNext == Shape /\ Recent /\ [Next]_vars => Recent'
  BY RecentAdmin, RecentTick, RecentRestart, RecentRequest, RecentStays DEF Next

LEMMA MarkedPublic ==
  ASSUME NEW r \in Requested, NEW at \in {"opened", "resource", "got"}
  PROVE  Marked(r, FALSE, at).private = FALSE
<1> DEFINE x == [r EXCEPT !.dns = FALSE]
           y == [x EXCEPT !.private = FALSE]
           z == [y EXCEPT !.at = at]
<1>1. x \in Requested
  BY DEF Requested
<1> HIDE DEF x
<1>2. y \in Requested /\ y.private = FALSE
  BY <1>1 DEF Requested
<1> HIDE DEF y
<1>3. z.private = FALSE
  BY <1>2 DEF Requested
<1>4. Marked(r, FALSE, at) = z
  BY Zenon DEF Marked, x, y, z
<1> QED
  BY <1>3, <1>4

(* A step that lets a request through to private addresses. *)
LEMMA LetThrough ==
  ASSUME Shape, Recent, [Next]_vars, NEW q \in Requests,
         Undecided(q), req'[q].at # req[q].at, req'[q].private # FALSE
  PROVE  Recently(q)
<1>0. req[q] \in Requested
  BY DEF Shape, Work
<1>1. PICK p \in Requests : RequestStep(p)
  <2>1. ~UNCHANGED req
    OBVIOUS
  <2>2. ~Restart
    <3> HIDE DEF Idle
    <3> QED
      BY IdleType DEF Restart
  <2>3. ~Tick
    BY <1>0 DEF Tick, Requested
  <2>4. ~Admin
    BY <2>1, AdminChanged DEF Changed
  <2> QED
    BY <2>1, <2>2, <2>3, <2>4 DEF Next, vars
<1>2. p = q
  BY <1>1, RecentRequestRow DEF Shape, Work
<1>3. \A v \in {"live", "dead", "unknown"} : Step(q, Told(v)) => req'[q].private = FALSE
  BY ToldType DEF Step, Shape, Work
<1>4. Classify(q) \/ LookupEnds(q)
  BY <1>1, <1>2 DEF RequestStep, Undecided, Ask, Resolve, Validate, ServeEntry, ServeSegment, Fetched
<1>5. ~Served(q)
  BY <1>3 DEF Served
<1>6. ~Looks(q)
  BY <1>0 DEF Looks, Step, Shape, Work, Requested
<1>7. ~Marks(q, FALSE)
  <2> SUFFICES ASSUME Marks(q, FALSE) PROVE FALSE
    OBVIOUS
  <2>1. PICK at \in {"opened", "resource", "got"} : at = After(req[q].at)
    BY DEF After
  <2>2. PICK x : x = Marked(req[q], FALSE, at)
    OBVIOUS
  <2>3. Step(q, x)
    BY <2>1, <2>2 DEF Marks
  <2>4. x.private = FALSE
    BY <1>0, <2>1, <2>2, MarkedPublic
  <2> QED
    BY <2>3, <2>4 DEF Step, Shape, Work
<1> QED
  BY <1>4, <1>5, <1>6, <1>7, LookupsStep

(* A request is let through to private addresses only while its stream's
   source has been private within the cache's lifetime and one lookup
   (handler.go:155). *)
THEOREM PrivateOnlyWhileRecent == Spec => PrivateOnlyIfRecent
<1> DEFINE A == \A q \in Requests :
                  Undecided(q) /\ req'[q].at # req[q].at /\ req'[q].private
                     => LET s == StreamOf[req[q].point] IN s \in Trusted /\ ago[s] < Oldest
<1>1. Shape /\ Recent /\ [Next]_vars => [A]_vars
  BY Zenon, LetThrough DEF Recently
<1>2. Spec => []Recent
  BY RecentInit, RecentNext, ShapeAlways, PTL DEF Spec
<1> HIDE DEF A
<1>3. Spec => [][A]_vars
  BY <1>1, <1>2, ShapeAlways, PTL DEF Spec
<1> QED
  BY <1>3 DEF A, PrivateOnlyIfRecent
=============================================================================
