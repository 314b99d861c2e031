------------------------------ MODULE RelayNode ------------------------------
(***************************************************************************)
(* Relay nodes and the control gateway.  A node (internal/node/node.go)    *)
(* polls its streams from the control gateway, relays them with the        *)
(* supervisor of AlwaysOn and answers requests of the control gateway,     *)
(* which falls back to the source itself (gatewayhttp/nodecontrol.go,      *)
(* handler.go).  Admins change what both read from the database.           *)
(*                                                                         *)
(* Time advances by ticks, and no further than a timer allows.  Requests   *)
(* and answers take up to Timeout and may be lost.  A request at the       *)
(* control gateway is one step: its queries follow each other at once.     *)
(* Left out: revocation lists (the control gateway's grants name access    *)
(* point 0 and token 0, which no list has), viewer counts, tokens.         *)
(***************************************************************************)
EXTENDS Integers

CONSTANTS
    Nodes, Streams, None,
    PollEvery,  \* PollSeconds
    Timeout,    \* of the node's HTTP client
    MaxAge,     \* configMaxAge
    MaxSecret   \* bound on the tokens issued for a node

ASSUME NoneAssumption == None \notin Nodes
ASSUME TimesAssumption ==
    /\ PollEvery \in Nat \ {0} /\ Timeout \in Nat \ {0}
    /\ MaxAge \in Nat /\ PollEvery + Timeout < MaxAge
ASSUME SecretAssumption == MaxSecret \in Nat \ {0}

VARIABLES
    assign, enabled,        \* streams: node_id, status
    status, secret, fresh,  \* nodes: status, token, last_seen_at is recent
    key, streams, age, poll,  \* Node: its token, last config, ticks since then
    plan, pins, sessions,   \* the node's relay supervisor and remux manager
    view, local,            \* requests and remux sessions of the control gateway
    lost,                   \* ticks since a node last had a right to a stream
    calm                    \* the environment has settled

database == <<assign, enabled, status, secret>>
config   == <<key, streams, age, poll>>
relays   == <<plan, pins, sessions>>
control  == <<view, local>>
vars     == <<database, fresh, config, relays, control, lost, calm>>

Longest == MaxAge + Timeout

Polls == [at : {"wait"}, t : 0..PollEvery, cfg : {{}}]
           \cup [at : {"sent", "denied", "config"}, t : 0..Timeout, cfg : SUBSET Streams]
Waiting(t) == [at |-> "wait", t |-> t, cfg |-> {}]

NoView == [at |-> "none"]
Local  == [at |-> "local"]
AskNode(n) == [at |-> "node", node |-> n, secret |-> secret[n]]
Views  == {NoView, Local} \cup [at : {"node"}, node : Nodes, secret : 1..MaxSecret]

TypeOK ==
    /\ assign \in [Streams -> Nodes \cup {None}] /\ enabled \in [Streams -> BOOLEAN]
    /\ status \in [Nodes -> {"pending", "active", "disabled", "deleted"}]
    /\ secret \in [Nodes -> 1..MaxSecret] /\ fresh \in [Nodes -> BOOLEAN]
    /\ key \in [Nodes -> 1..MaxSecret] /\ \A n \in Nodes : key[n] <= secret[n]
    /\ streams \in [Nodes -> SUBSET Streams] /\ age \in [Nodes -> 0..MaxAge]
    /\ poll \in [Nodes -> Polls]
    /\ plan \in [Nodes -> SUBSET Streams]
    /\ sessions \in [Nodes -> SUBSET Streams] /\ pins \in [Nodes -> SUBSET Streams]
    /\ \A n \in Nodes : pins[n] \subseteq sessions[n]
    /\ view \in [Streams -> Views] /\ local \in [Streams -> BOOLEAN]
    /\ lost \in [Nodes -> [Streams -> 0..Longest]] /\ calm \in BOOLEAN

(* authNode *)
Trusted(n) == status[n] \notin {"disabled", "deleted"} /\ key[n] = secret[n]

NodeStreams(n) == {s \in Streams : assign[s] = n /\ enabled[s]}

Entitled(n, s) == Trusted(n) /\ assign[s] = n /\ enabled[s]

Init ==
    /\ assign \in [Streams -> Nodes \cup {None}] /\ enabled = [s \in Streams |-> TRUE]
    /\ status = [n \in Nodes |-> "pending"] /\ secret = [n \in Nodes |-> 1]
    /\ fresh = [n \in Nodes |-> FALSE] /\ key = secret
    /\ streams = [n \in Nodes |-> {}] /\ age = [n \in Nodes |-> 0]
    /\ poll = [n \in Nodes |-> Waiting(PollEvery)]
    /\ plan = streams /\ pins = streams /\ sessions = streams
    /\ view = [s \in Streams |-> NoView] /\ local = [s \in Streams |-> FALSE]
    /\ lost = [n \in Nodes |-> [s \in Streams |-> 0]] /\ calm = FALSE

-----------------------------------------------------------------------------
(* The admin.  Whoever gets a right (back) has lost nothing. *)
Recount ==
    lost' = [n \in Nodes |-> [s \in Streams |-> IF Entitled(n, s)' THEN 0 ELSE lost[n][s]]]

Edited == ~calm /\ UNCHANGED <<fresh, config, relays, control, calm>> /\ Recount

Assign(s, n) ==
    /\ n # None => status[n] # "deleted"
    /\ assign' = [assign EXCEPT ![s] = n]
    /\ UNCHANGED <<enabled, status, secret>> /\ Edited

ToggleStream(s) ==
    /\ enabled' = [enabled EXCEPT ![s] = ~@]
    /\ UNCHANGED <<assign, status, secret>> /\ Edited

ToggleNode(n) ==
    /\ status[n] # "deleted"
    /\ status' = [status EXCEPT ![n] = IF @ = "disabled" THEN "pending" ELSE "disabled"]
    /\ UNCHANGED <<assign, enabled, secret>> /\ Edited

(* sv_node_issue_secret *)
Reissue(n) ==
    /\ status[n] # "deleted" /\ secret[n] < MaxSecret
    /\ secret' = [secret EXCEPT ![n] = @ + 1]
    /\ UNCHANGED <<assign, enabled, status>> /\ Edited

(* streams.node_id is ON DELETE SET NULL. *)
Delete(n) ==
    /\ status' = [status EXCEPT ![n] = "deleted"]
    /\ assign' = [s \in Streams |-> IF assign[s] = n THEN None ELSE assign[s]]
    /\ UNCHANGED <<enabled, secret>> /\ Edited

-----------------------------------------------------------------------------
(* Node.pollLoop.  Without streams, a config and none are the same. *)
Expired(n) == age[n] >= MaxAge

SetConfig(n, S) == streams' = [streams EXCEPT ![n] = S] /\ age' = [age EXCEPT ![n] = 0]

(* expireConfig *)
ExpireConfig(n) == IF Expired(n) THEN SetConfig(n, {}) ELSE UNCHANGED <<streams, age>>

PollSend(n) ==
    /\ poll[n].at = "wait" /\ poll[n].t = PollEvery
    /\ poll' = [poll EXCEPT ![n] = [at |-> "sent", t |-> 0, cfg |-> {}]]
    /\ UNCHANGED <<database, fresh, key, streams, age, relays, control, lost, calm>>

(* serveNodeConfig.  A stream whose password cannot be read is left out. *)
Answer(n) ==
    /\ poll[n].at = "sent"
    /\ \/ /\ ~Trusted(n)
          /\ poll' = [poll EXCEPT ![n].at = "denied"]
       \/ /\ Trusted(n)
          /\ \E cfg \in SUBSET NodeStreams(n) :
                /\ calm => cfg = NodeStreams(n)
                /\ poll' = [poll EXCEPT ![n].at = "config", ![n].cfg = cfg]
    /\ UNCHANGED <<database, fresh, key, streams, age, relays, control, lost, calm>>

(* apply *)
PollApplies(n) ==
    /\ poll[n].at = "config"
    /\ SetConfig(n, poll[n].cfg)
    /\ poll' = [poll EXCEPT ![n] = Waiting(0)]
    /\ UNCHANGED <<database, fresh, key, relays, control, lost, calm>>

(* clearConfig: 401 or 403 *)
PollDenied(n) ==
    /\ poll[n].at = "denied"
    /\ SetConfig(n, {})
    /\ poll' = [poll EXCEPT ![n] = Waiting(0)]
    /\ UNCHANGED <<database, fresh, key, relays, control, lost, calm>>

(* Any other outcome, and a request or an answer that is lost. *)
PollFails(n) ==
    /\ poll[n].at # "wait" /\ ~calm
    /\ ExpireConfig(n)
    /\ poll' = [poll EXCEPT ![n] = Waiting(0)]
    /\ UNCHANGED <<database, fresh, key, relays, control, lost, calm>>

(* A new process, perhaps installed with a newer token. *)
Restart(n) ==
    /\ ~calm
    /\ \E k \in {key[n], secret[n]} : key' = [key EXCEPT ![n] = k]
    /\ SetConfig(n, {})
    /\ poll' = [poll EXCEPT ![n] = Waiting(PollEvery)]
    /\ plan' = [plan EXCEPT ![n] = {}] /\ pins' = [pins EXCEPT ![n] = {}]
    /\ sessions' = [sessions EXCEPT ![n] = {}]
    /\ UNCHANGED <<database, fresh, control, calm>> /\ Recount

(* statusLoop and RecordNodeStatus *)
Report(n) ==
    /\ Trusted(n)
    /\ fresh' = [fresh EXCEPT ![n] = TRUE]
    /\ status' = [status EXCEPT ![n] = "active"]
    /\ UNCHANGED <<assign, enabled, secret, config, relays, control, lost, calm>>

(* No report was recorded for nodeOnlineWindow, which is three of them. *)
GrowStale(n) ==
    /\ fresh[n] /\ ~(calm /\ Trusted(n))
    /\ fresh' = [fresh EXCEPT ![n] = FALSE]
    /\ UNCHANGED <<database, config, relays, control, lost, calm>>

-----------------------------------------------------------------------------
(* As PassStarts, but the pins of lost streams are kept. *)
PassStartsKeepsPins(n) ==
    /\ plan[n] = {}
    /\ plan' = [plan EXCEPT ![n] = streams[n]]
    /\ UNCHANGED <<database, fresh, config, pins, sessions, control, lost, calm>>

(* A pass of the supervisor (AlwaysOn) on a node: AlwaysOnStreams, and pins
   dropped; then some relays started, or found, and pinned. *)
PassStarts(n) ==
    /\ plan[n] = {}
    /\ plan' = [plan EXCEPT ![n] = streams[n]]
    /\ pins' = [pins EXCEPT ![n] = @ \cap streams[n]]
    /\ UNCHANGED <<database, fresh, config, sessions, control, lost, calm>>

PassEnds(n) ==
    /\ plan[n] # {}
    /\ \E up \in SUBSET plan[n] :
          /\ calm => up = plan[n]
          /\ pins' = [pins EXCEPT ![n] = @ \cup up]
          /\ sessions' = [sessions EXCEPT ![n] = @ \cup up]
    /\ plan' = [plan EXCEPT ![n] = {}]
    /\ UNCHANGED <<database, fresh, config, control, lost, calm>>

RelayDies(n, s) ==
    /\ s \in sessions[n] /\ ~calm
    /\ pins' = [pins EXCEPT ![n] = @ \ {s}]
    /\ sessions' = [sessions EXCEPT ![n] = @ \ {s}]
    /\ UNCHANGED <<database, fresh, config, plan, control, lost, calm>>

(* Manager.ReapIdle *)
Reap(n, s) ==
    /\ s \in sessions[n] \ pins[n]
    /\ sessions' = [sessions EXCEPT ![n] = @ \ {s}]
    /\ UNCHANGED <<database, fresh, config, plan, pins, control, lost, calm>>

-----------------------------------------------------------------------------
(* nodeOnline *)
NodeOnline(n) == status[n] = "active" /\ fresh[n]

(* Handler.ServeHTTP for the entry of a stream: the row read here decides who
   is asked.  Disabled streams get their replacement. *)
Request(s) ==
    /\ view[s] = NoView /\ enabled[s]
    /\ LET n == assign[s] IN
       view' = [view EXCEPT ![s] =
           IF n # None /\ NodeOnline(n) THEN AskNode(n) ELSE Local]
    /\ UNCHANGED <<database, fresh, config, relays, local, lost, calm>>

(* As Allowed, but only the poll loop looks how old the config is. *)
AllowedAtAnyAge(n, s) == s \in streams[n]

(* Node.ServeHTTP calls expireConfig first. *)
Allowed(n, s) == s \in streams[n] /\ ~Expired(n)

NodeServes(s) ==
    /\ view[s].at = "node"
    /\ LET n == view[s].node IN
       view[s].secret = key[n] /\ Allowed(n, s) /\ s \in sessions[n]
    /\ view' = [view EXCEPT ![s] = NoView]
    /\ UNCHANGED <<database, fresh, config, relays, local, lost, calm>>

(* 403, 410 or 503: the control gateway serves the stream itself. *)
NodeRefuses(s) ==
    /\ view[s].at = "node"
    /\ LET n == view[s].node IN
       /\ ~(view[s].secret = key[n] /\ Allowed(n, s) /\ s \in sessions[n])
       /\ ExpireConfig(n)
    /\ view' = [view EXCEPT ![s] = Local]
    /\ UNCHANGED <<database, fresh, key, poll, relays, local, lost, calm>>

NodeUnreachable(s) ==
    /\ view[s].at = "node" /\ ~calm
    /\ view' = [view EXCEPT ![s] = Local]
    /\ UNCHANGED <<database, fresh, config, relays, local, lost, calm>>

(* serveEntry: a remux session, or nothing to keep. *)
ServeEntry(s) ==
    /\ view[s].at = "local"
    /\ local' = [local EXCEPT ![s] = TRUE] \/ UNCHANGED local
    /\ view' = [view EXCEPT ![s] = NoView]
    /\ UNCHANGED <<database, fresh, config, relays, lost, calm>>

LocalEnds(s) ==
    /\ local[s]
    /\ local' = [local EXCEPT ![s] = FALSE]
    /\ UNCHANGED <<database, fresh, config, relays, view, lost, calm>>

-----------------------------------------------------------------------------
Overdue(n) == poll[n].t = IF poll[n].at = "wait" THEN PollEvery ELSE Timeout

Tick ==
    /\ \A n \in Nodes : ~Overdue(n)
    /\ poll' = [n \in Nodes |-> [poll[n] EXCEPT !.t = @ + 1]]
    /\ age' = [n \in Nodes |->
          IF streams[n] # {} /\ age[n] < MaxAge THEN age[n] + 1 ELSE age[n]]
    /\ lost' = [n \in Nodes |-> [s \in Streams |->
          IF ~Entitled(n, s) /\ lost[n][s] < Longest THEN lost[n][s] + 1 ELSE lost[n][s]]]
    /\ UNCHANGED <<database, fresh, key, streams, relays, control, calm>>

(* From here on nobody edits, messages arrive, sources and processes live. *)
Settle ==
    /\ ~calm /\ calm' = TRUE
    /\ UNCHANGED <<database, fresh, config, relays, control, lost>>

Admin ==
    \/ \E s \in Streams : ToggleStream(s) \/ \E n \in Nodes \cup {None} : Assign(s, n)
    \/ \E n \in Nodes : ToggleNode(n) \/ Reissue(n) \/ Delete(n)

NodeStep(n) ==
    \/ PollSend(n) \/ Answer(n) \/ PollApplies(n) \/ PollDenied(n) \/ PollFails(n)
    \/ Restart(n) \/ Report(n) \/ GrowStale(n) \/ PassStarts(n) \/ PassEnds(n)
    \/ \E s \in Streams : RelayDies(n, s) \/ Reap(n, s)

(* Requests for segments change nothing here: they go where their playlist
   came from. *)
ControlStep(s) ==
    Request(s) \/ NodeServes(s) \/ NodeRefuses(s) \/ NodeUnreachable(s)
        \/ ServeEntry(s) \/ LocalEnds(s)

Next ==
    \/ Admin \/ Settle \/ Tick
    \/ \E n \in Nodes : NodeStep(n)
    \/ \E s \in Streams : ControlStep(s)

Spec == Init /\ [][Next]_vars

(* Loops go on and requests come to an end; viewers need not come. *)
Fairness ==
    /\ WF_vars(Tick)
    /\ \A n \in Nodes :
        /\ WF_vars(PollSend(n)) /\ WF_vars(Answer(n)) /\ WF_vars(PollApplies(n))
        /\ WF_vars(PollDenied(n)) /\ WF_vars(Report(n))
        /\ WF_vars(PassStarts(n)) /\ WF_vars(PassEnds(n))
        /\ \A s \in Streams : WF_vars(Reap(n, s))
    /\ \A s \in Streams :
        WF_vars(NodeServes(s) \/ NodeRefuses(s)) /\ WF_vars(ServeEntry(s)) /\ WF_vars(LocalEnds(s))

FairSpec == Spec /\ Fairness
-----------------------------------------------------------------------------
Serves(n, s) == Allowed(n, s) /\ s \in sessions[n]

(* A node that lost a stream - another node has it, it was disabled, the node
   itself was disabled or got a new token - stops serving it within
   configMaxAge and the delay of one answer, even if it never hears from the
   control gateway again (node.go:251, node.go:317). *)
LostStreamsEnd == \A n \in Nodes, s \in Streams : Serves(n, s) => lost[n][s] < Longest

(* Exactly the nodes with a right to a stream pull it from its source, and
   then the control gateway does not. *)
Settled(s) ==
    /\ \A n \in Nodes : s \in sessions[n] <=> Entitled(n, s)
    /\ \A n \in Nodes : Entitled(n, s) => ~local[s]

(* Whatever was edited, lost or restarted before, relays end up where they
   belong and stay there (nodecontrol.go:186, alwayson.go:111). *)
Settles == <>calm => <>[](\A s \in Streams : Settled(s))
=============================================================================
