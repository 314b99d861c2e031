------------------------------ MODULE HlsPull ------------------------------
(***************************************************************************)
(* internal/hlspull/hlspull.go: a live HLS source is turned into one       *)
(* stream of MPEG-TS segments for an always-on relay's ffmpeg.  run() is   *)
(* one goroutine; one action per playlist load and per segment.            *)
(*                                                                         *)
(* The source publishes segments, drops old ones from its playlist, ends,  *)
(* fails, and restarts: then it numbers its segments anew, from anywhere.  *)
(* A segment is the run of the source it comes from (epoch) and its media  *)
(* sequence number; its URL means no other segment.  Bandwidths, target    *)
(* durations and the bytes of a segment are left out.                      *)
(***************************************************************************)
EXTENDS Integers

CONSTANTS
    Edge,         \* liveEdgeWindow: segments to start from
    MaxFailures,  \* maxFailures: loads that may fail in a row
    MaxEpoch,     \* bound on restarts of the source
    MaxSeq,       \* bound on media sequence numbers
    StaleEdges    \* some of the source's caches lag behind by one playlist

ASSUME BoundsAssumption ==
    /\ Edge \in Nat \ {0} /\ MaxFailures \in Nat \ {0}
    /\ MaxEpoch \in Nat \ {0} /\ MaxSeq \in Nat
ASSUME CachesAssumption == StaleEdges \in BOOLEAN

VARIABLES
    shown,     \* the playlist of the source
    old,       \* the one a cache still has
    up,        \* the source answers
    open,      \* the reader was not closed
    stage, m, next, failures,  \* run()
    out        \* the last segment written

upstream == <<shown, old, up>>
puller == <<stage, m, next, failures>>
pullVars == <<upstream, open, puller, out>>

Playlist == {p \in [epoch : 1..MaxEpoch, seq : 0..MaxSeq, last : 0..MaxSeq, ended : BOOLEAN] :
                p.seq <= p.last}
NoList    == [epoch |-> 0, seq |-> 0, last |-> -1, ended |-> FALSE]
NoSegment == [epoch |-> 0, num |-> -1]

PullTypeOK ==
    /\ shown \in Playlist /\ old \in Playlist /\ up \in BOOLEAN /\ open \in BOOLEAN
    /\ stage \in {"resolve", "load", "copy", "nap", "done"}
    /\ m \in Playlist \cup {NoList} /\ (stage = "copy" => m \in Playlist)
    /\ next \in -1..MaxSeq + 1 /\ failures \in 0..MaxFailures
    /\ stage # "done" => failures < MaxFailures
    /\ out \in [epoch : 0..MaxEpoch, num : -1..MaxSeq]

PullInit ==
    /\ shown \in {p \in Playlist : p.epoch = 1 /\ ~p.ended}
    /\ old = shown /\ up = TRUE /\ open = TRUE
    /\ stage = "resolve" /\ m = NoList /\ next = -1 /\ failures = 0
    /\ out = NoSegment

-----------------------------------------------------------------------------
(* The source.  A cache of it serves what was shown before, if it lags. *)
Show(p) == shown' = p /\ old' = IF StaleEdges THEN shown ELSE p

Publish(seq) ==
    /\ ~shown.ended /\ shown.last < MaxSeq /\ seq >= shown.seq
    /\ seq <= shown.last + 1
    /\ Show([shown EXCEPT !.seq = seq, !.last = @ + 1])
    /\ UNCHANGED <<up, open, puller, out>>

End ==
    /\ Show([shown EXCEPT !.ended = TRUE])
    /\ UNCHANGED <<up, open, puller, out>>

Restart(p) ==
    /\ p.epoch = shown.epoch + 1 /\ ~p.ended
    /\ Show(p)
    /\ UNCHANGED <<up, open, puller, out>>

Toggle == up' = ~up /\ UNCHANGED <<shown, old, open, puller, out>>

(* reader.Close: cancels the context and closes the pipe. *)
Close == open /\ open' = FALSE /\ UNCHANGED <<upstream, puller, out>>

-----------------------------------------------------------------------------
Goto(l) == stage' = l

(* resolveVariant: fails for good when the source does not answer or its
   master playlist has no variants. *)
Resolve ==
    /\ stage = "resolve" /\ open
    /\ (up /\ Goto("load")) \/ Goto("done")
    /\ UNCHANGED <<upstream, open, m, next, failures, out>>

LiveEdge(p) == IF p.last - Edge + 1 < p.seq THEN p.seq ELSE p.last - Edge + 1

(* As Join, but a reader that has everything rejoins too. *)
JoinEager(p) ==
    IF next < 0 \/ next >= p.last + 1 \/ next < p.seq THEN LiveEdge(p) ELSE next

(* As Join, but it waits until the source gets there. *)
JoinPatient(p) == IF next < 0 \/ next < p.seq THEN LiveEdge(p) ELSE next

(* The segment to go on with: on the first load, after a restart of the source
   and behind its window, one near the live edge. *)
Join(p) == IF next < 0 \/ next > p.last + 1 \/ next < p.seq THEN LiveEdge(p) ELSE next

(* loadMedia *)
LoadMedia ==
    /\ stage = "load" /\ open /\ up
    /\ \E p \in {shown, old} : m' = p /\ next' = Join(p)
    /\ failures' = 0 /\ Goto("copy")
    /\ UNCHANGED <<upstream, open, out>>

(* Encrypted or fragmented MP4: not supported, and not tried again. *)
Refuse ==
    /\ stage = "load" /\ open /\ up
    /\ Goto("done")
    /\ UNCHANGED <<upstream, open, m, next, failures, out>>

(* As FailedLoads, but the failures before this one are forgotten. *)
FailedOnce == 1

FailedLoads == failures + 1

GivesUp(n) == n >= MaxFailures

LoadFails ==
    /\ stage = "load" /\ open /\ ~up
    /\ failures' = FailedLoads
    /\ Goto(IF GivesUp(FailedLoads) THEN "done" ELSE "load")
    /\ UNCHANGED <<upstream, open, m, next, out>>

(* copySegment: written, also in part, or missing. *)
Copy ==
    /\ stage = "copy" /\ open /\ next <= m.last
    /\ out' \in {out, [epoch |-> m.epoch, num |-> next]}
    /\ next' = next + 1
    /\ UNCHANGED <<upstream, open, stage, m, failures>>

NotTS ==
    /\ stage = "copy" /\ open /\ next <= m.last
    /\ Goto("done")
    /\ UNCHANGED <<upstream, open, m, next, failures, out>>

AllCopied ==
    /\ stage = "copy" /\ open /\ next > m.last
    /\ Goto(IF m.ended THEN "done" ELSE "nap")
    /\ UNCHANGED <<upstream, open, m, next, failures, out>>

Wake ==
    /\ stage = "nap" /\ open
    /\ Goto("load")
    /\ UNCHANGED <<upstream, open, m, next, failures, out>>

(* Every fetch, write and wait of run() ends when the context does. *)
Stop ==
    /\ stage # "done" /\ ~open
    /\ Goto("done")
    /\ UNCHANGED <<upstream, open, m, next, failures, out>>

Pull == Resolve \/ LoadMedia \/ Refuse \/ LoadFails \/ Copy \/ NotTS \/ AllCopied \/ Wake \/ Stop

PullNext ==
    \/ \E seq \in 0..MaxSeq : Publish(seq)
    \/ End \/ Toggle \/ Close
    \/ \E p \in Playlist : Restart(p)
    \/ Pull

PullSpec == PullInit /\ [][PullNext]_pullVars

(* The goroutine goes on; nothing is assumed of the source and the reader. *)
PullFairSpec == PullSpec /\ WF_pullVars(Pull)
-----------------------------------------------------------------------------
Before(a, b) == a.epoch < b.epoch \/ (a.epoch = b.epoch /\ a.num < b.num)

(* No segment is written twice or after a later one, whatever the source's
   window does between two loads (hlspull.go:91-98). *)
InOrder == [][out' # out => Before(out, out')]_pullVars

(* m.segments[next-m.seq] is a segment of the playlist (hlspull.go:100): any
   other index ends the whole gateway. *)
IndexInRange == stage = "copy" /\ next <= m.last => next >= m.seq

(* A source that stays away is given up, so that the supervisor hears of it
   (hlspull.go:81). *)
DeadSourceReported == <>[]~up => <>(stage = "done")

CaughtUp == m = shown /\ next = shown.last + 1

(* As long as the source answers, every segment is asked for in the end: also
   when it started to number them anew, below or above where run() was. *)
KeepsUp == <>[]up => []<>(CaughtUp \/ stage = "done")
=============================================================================
