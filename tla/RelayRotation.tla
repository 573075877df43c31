---------------------------- MODULE RelayRotation ----------------------------
(***************************************************************************)
(* Requests of the desktop app going through the local proxy to an         *)
(* aggregate of upstream relays (relay_rotation.rs and the request loop of *)
(* protocol_proxy.rs).                                                     *)
(*                                                                         *)
(* The process has one selector behind a mutex.  A request reads the       *)
(* settings once, asks the selector for a relay, and then tries that relay *)
(* and the other members in turn, telling the selector of every outcome.   *)
(* Between those steps, which may be minutes apart, other requests use the *)
(* selector, and the user edits the settings.                              *)
(***************************************************************************)
EXTENDS Naturals, FiniteSets, SequencesExt

CONSTANTS Requests,     \* request slots: how many can be in flight
          Configs,      \* settings files the user may save
          Convs, Models, NoConv, NoModel,
          Chat,         \* relays that speak Chat Completions
          NoAggregate,  \* no active aggregate profile
          NoRelay,
          MaxRequests,  \* bound: requests in a behaviour
          MaxEdits      \* bound: times the settings are saved

(* A settings file: the active regular relay, its model routes, the active *)
(* aggregate, and the relays that have an address and a key.               *)
Aggregates == {s.aggregate : s \in Configs} \ {NoAggregate}
Members(a) == {a.members[i].relay : i \in DOMAIN a.members}
Relays == UNION {s.usable \cup {s.active} \cup Range(s.modelRoutes) : s \in Configs}
          \cup UNION {Members(a) : a \in Aggregates}

Strategies == {"failover", "conversationRoundRobin", "requestRoundRobin", "weightedRoundRobin"}

(* The manager offers every profile once as a member of an aggregate.      *)
Proper(a) ==
    /\ a.strategy \in Strategies
    /\ a.members \in Seq([relay : Relays, weight : Nat])
    /\ \A i, j \in DOMAIN a.members : a.members[i].relay = a.members[j].relay => i = j
    /\ \A m \in DOMAIN a.routes : a.routes[m] \in Seq(Range(a.routes[m]))

ASSUME RotationAssumption ==
    /\ IsFiniteSet(Requests)
    /\ NoConv \notin Convs /\ NoModel \notin Models /\ NoRelay \notin Relays
    /\ \A a \in Aggregates : Proper(a)
    /\ MaxRequests \in Nat /\ MaxEdits \in Nat

VARIABLES
    disk,      \* the settings file
    selector,  \* GLOBAL_SELECTOR
    req,       \* the requests
    arrived, edits,
    \* history
    picks,     \* per relay, how often its turn came under this selector
    home,      \* the first relay of each conversation under these settings
    mixed,     \* the settings were saved with a request in flight
    solo       \* one request in flight, and no edit since it arrived

rotationVars == <<disk, selector, req, arrived, edits, picks, home, mixed, solo>>

Idle == [pc |-> "idle", settings |-> NoAggregate, conv |-> NoConv,
         model |-> NoModel, kind |-> "probe", queue |-> <<>>, tried |-> <<>>,
         ok |-> FALSE, result |-> "none"]

-----------------------------------------------------------------------------
(* The selector.                                                           *)

Fresh(a) == [aggregate |-> a, failover |-> 0, request |-> 0, weighted |-> 0,
             assigned |-> [c \in {} |-> NoRelay]]

(* None: no selector, or none that any aggregate would use.                *)
NoSelector == Fresh(NoAggregate)

Size(a) == Len(a.members)
MemberAt(a, i) == a.members[(i % Size(a)) + 1].relay

Weight(m) == IF m.weight = 0 THEN 1 ELSE m.weight
(* Slip: a weight of 0 is no turn at all.                                  *)
ScheduleByRawWeight(a) ==
    FlattenSeq([i \in DOMAIN a.members |->
                   [k \in 1..a.members[i].weight |-> a.members[i].relay]])

Schedule(a) ==
    FlattenSeq([i \in DOMAIN a.members |->
                   [k \in 1..Weight(a.members[i]) |-> a.members[i].relay]])

Available(s, m) == m \in Members(s.aggregate) \cap s.usable
AvailableIn(s, list) ==
    LET upto[n \in 0..Len(list)] ==
            IF n = 0 THEN <<>>
            ELSE IF Available(s, list[n]) THEN Append(upto[n - 1], list[n]) ELSE upto[n - 1]
    IN  upto[Len(list)]

(* select_relay_for_request and select_relay_for_probe start a selector of *)
(* their own when there is none for the aggregate of their settings.       *)
Current(s) == IF selector # NoSelector /\ selector.aggregate = s.aggregate
              THEN selector ELSE Fresh(s.aggregate)

(* match_route_for_aggregate: the first rule for the model, by priority,   *)
(* whose relay is available.                                               *)
Routed(s, model) ==
    IF model \notin DOMAIN s.aggregate.routes THEN NoRelay
    ELSE LET hits == AvailableIn(s, s.aggregate.routes[model])
         IN  IF hits = <<>> THEN NoRelay ELSE hits[1]

NextRequest(sel) ==
    [relay |-> MemberAt(sel.aggregate, sel.request), turn |-> TRUE,
     sel |-> [sel EXCEPT !.request = (@ + 1) % Size(sel.aggregate)]]

NextWeighted(sel) ==
    LET sched == Schedule(sel.aggregate)
    IN  [relay |-> sched[(sel.weighted % Len(sched)) + 1], turn |-> TRUE,
         sel |-> [sel EXCEPT !.weighted = (@ + 1) % Len(sched)]]

(* Slip: the member a conversation got is not written down.                *)
ForConversationForgotten(sel, c) == NextRequest(sel)

ForConversation(sel, c) ==
    IF c \in DOMAIN sel.assigned
    THEN [relay |-> sel.assigned[c], turn |-> FALSE, sel |-> sel]
    ELSE LET next == NextRequest(sel)
         IN  [next EXCEPT !.sel.assigned =
                 [d \in DOMAIN sel.assigned \cup ({c} \ {NoConv}) |->
                     IF d = c THEN next.relay ELSE sel.assigned[d]]]

(* select_with_outcomes: the relay, whether a member's turn was spent on   *)
(* it, and the selector after it.                                          *)
Choice(s, conv, model) ==
    LET sel == Current(s)
        routed == Routed(s, model)
        strategy == s.aggregate.strategy
    IN  CASE routed # NoRelay ->
               [relay |-> routed, turn |-> FALSE, sel |-> sel]
          [] routed = NoRelay /\ strategy = "failover" ->
               [relay |-> MemberAt(s.aggregate, sel.failover), turn |-> FALSE,
                sel |-> sel]
          [] routed = NoRelay /\ strategy = "conversationRoundRobin" ->
               ForConversation(sel, conv)
          [] routed = NoRelay /\ strategy = "requestRoundRobin" ->
               NextRequest(sel)
          [] routed = NoRelay /\ strategy = "weightedRoundRobin" ->
               NextWeighted(sel)

(* RelayRotationSelector::peek.                                            *)
Peeked(s) ==
    LET sel == Current(s)
        sched == Schedule(s.aggregate)
    IN  CASE s.aggregate.strategy = "failover" -> MemberAt(s.aggregate, sel.failover)
          [] s.aggregate.strategy = "weightedRoundRobin" ->
                sched[(sel.weighted % Len(sched)) + 1]
          [] OTHER -> MemberAt(s.aggregate, sel.request)

(* fallback_relays_after: the members behind the chosen one, wrapping, all *)
(* but one, those that are available.                                      *)
Behind(s, relay, n) ==
    LET a == s.aggregate
        at == {i \in DOMAIN a.members : a.members[i].relay = relay}
        start == IF at = {} THEN 0 ELSE CHOOSE i \in at : \A j \in at : i <= j
    IN  AvailableIn(s, [k \in 1..n |-> MemberAt(a, start + k - 1)])

(* Slip: the circle is closed, and the chosen relay is its own fallback.   *)
FallbacksAllRound(s, relay) == Behind(s, relay, Size(s.aggregate))

(* Slip: the members up to the end of the list, without wrapping.          *)
FallbacksToTheEnd(s, relay) ==
    Behind(s, relay, Cardinality({i \in DOMAIN s.aggregate.members :
        \E j \in 1..(i - 1) : s.aggregate.members[j].relay = relay}))

Fallbacks(s, relay) == Behind(s, relay, Size(s.aggregate) - 1)

(* Slip: the index moves on after a success, too.                          *)
RecordedAlways(sel, ok) ==
    IF sel.aggregate.strategy = "failover"
    THEN [sel EXCEPT !.failover = (@ + 1) % Size(sel.aggregate)] ELSE sel

(* record_event: a failure moves the failover index on.                    *)
Recorded(sel, ok) ==
    IF ~ok /\ sel.aggregate.strategy = "failover"
    THEN [sel EXCEPT !.failover = (@ + 1) % Size(sel.aggregate)]
    ELSE sel

-----------------------------------------------------------------------------
InFlight == {r \in Requests : req[r].pc # "idle"}

Put(r, q) == req' = [req EXCEPT ![r] = q]
End(r, result) == Put(r, [Idle EXCEPT !.result = result])

(* A request comes in and reads the settings: one for a response, one for  *)
(* a compact response, or one of those that only peek at the rotation      *)
(* (models, transcriptions, images).                                       *)
Arrive(r) ==
    /\ req[r].pc = "idle"
    /\ arrived < MaxRequests
    /\ arrived' = arrived + 1
    /\ \E kind \in {"response", "compact", "probe"},
          conv \in Convs \cup {NoConv}, model \in Models \cup {NoModel} :
          Put(r, [Idle EXCEPT !.pc = "select", !.settings = disk,
                              !.kind = kind, !.conv = conv, !.model = model])
    /\ solo' = (InFlight = {})
    /\ UNCHANGED <<disk, selector, edits, picks, home, mixed>>

(* No aggregate: the selector is forgotten and the active relay used.  A   *)
(* model route bypasses the selector; one to the active relay itself, or   *)
(* to one that does not speak Responses, is refused.                       *)
SelectRegular(r) ==
    LET q == req[r] IN
    /\ q.pc = "select"
    /\ q.settings.aggregate = NoAggregate
    /\ IF q.kind # "probe" /\ q.model \in DOMAIN q.settings.modelRoutes
       THEN LET target == q.settings.modelRoutes[q.model] IN
            /\ IF target \in {q.settings.active} \cup Chat
               THEN End(r, "refused")
               ELSE Put(r, [q EXCEPT !.pc = "try", !.queue = <<target>>])
            /\ UNCHANGED selector
       ELSE /\ Put(r, [q EXCEPT !.pc = "try", !.queue = <<q.settings.active>>])
            /\ selector' = NoSelector
    /\ UNCHANGED <<disk, arrived, edits, picks, home, mixed, solo>>

(* An aggregate without members is refused before the selector is touched. *)
(* A chosen member without address or key refuses the request after it.    *)
SelectMember(r) ==
    LET q == req[r]  s == q.settings IN
    /\ q.pc = "select"
    /\ q.kind # "probe"
    /\ s.aggregate # NoAggregate
    /\ IF Size(s.aggregate) = 0
       THEN End(r, "refused") /\ UNCHANGED <<selector, picks, home>>
       ELSE LET choice == Choice(s, q.conv, q.model)
                before == IF Current(s) = selector THEN picks
                          ELSE [m \in Relays |-> 0]
            IN  /\ selector' = choice.sel
                /\ picks' = [before EXCEPT ![choice.relay] =
                                @ + (IF choice.turn THEN 1 ELSE 0)]
                /\ home' = IF s = disk /\ q.conv # NoConv /\ Routed(s, q.model) = NoRelay
                              /\ home[q.conv] = NoRelay
                           THEN [home EXCEPT ![q.conv] = choice.relay] ELSE home
                /\ IF choice.relay \in s.usable
                   THEN Put(r, [q EXCEPT !.pc = "try",
                                  !.queue = <<choice.relay>> \o Fallbacks(s, choice.relay)])
                   ELSE End(r, "refused")
    /\ UNCHANGED <<disk, arrived, edits, mixed, solo>>

PeekMember(r) ==
    LET q == req[r]  s == q.settings IN
    /\ q.pc = "select"
    /\ q.kind = "probe"
    /\ s.aggregate # NoAggregate
    /\ IF Size(s.aggregate) = 0
       THEN End(r, "refused") /\ UNCHANGED <<selector, picks>>
       ELSE /\ selector' = Current(s)
            /\ picks' = IF Current(s) = selector THEN picks ELSE [m \in Relays |-> 0]
            /\ IF Peeked(s) \in s.usable
               THEN Put(r, [q EXCEPT !.pc = "try", !.queue = <<Peeked(s)>>])
               ELSE End(r, "refused")
    /\ UNCHANGED <<disk, arrived, edits, home, mixed, solo>>

(* validate_upstream or upstream_request_parts gives up: no failover, and  *)
(* nothing is recorded.                                                    *)
Unsendable(q) == \/ q.queue[1] \notin q.settings.usable
                 \/ q.kind = "compact" /\ q.queue[1] \in Chat

GiveUp(r) ==
    /\ req[r].pc = "try"
    /\ Unsendable(req[r])
    /\ End(r, "refused")
    /\ UNCHANGED <<disk, selector, arrived, edits, picks, home, mixed, solo>>

(* The relay answers with a success, or with an error status, not at all,  *)
(* or not within the header timeout.                                       *)
Send(r) ==
    LET q == req[r]  tried == Append(q.tried, q.queue[1]) IN
    /\ q.pc = "try"
    /\ ~Unsendable(q)
    /\ \E ok \in BOOLEAN :
          IF q.kind = "probe"
          THEN End(r, IF ok THEN "served" ELSE "failed")
          ELSE Put(r, [q EXCEPT !.pc = "record", !.ok = ok, !.tried = tried,
                                !.queue = Tail(@)])
    /\ UNCHANGED <<disk, selector, arrived, edits, picks, home, mixed, solo>>

(* record_relay_request_event: to whatever selector there is by now; a     *)
(* request under a regular relay forgets it.  Then the response is passed  *)
(* on, or the next candidate tried.                                        *)
Record(r) ==
    LET q == req[r] IN
    /\ q.pc = "record"
    /\ selector' = IF q.settings.aggregate = NoAggregate \/ selector = NoSelector
                   THEN NoSelector
                   ELSE Recorded(selector, q.ok)
    /\ IF q.ok \/ q.queue = <<>>
       THEN End(r, IF q.ok THEN "served" ELSE "failed")
       ELSE Put(r, [q EXCEPT !.pc = "try"])
    /\ UNCHANGED <<disk, arrived, edits, picks, home, mixed, solo>>

(* The user saves other settings. *)
SaveSettings ==
    /\ edits < MaxEdits
    /\ edits' = edits + 1
    /\ \E s \in Configs \ {disk} : disk' = s
    /\ home' = [c \in Convs |-> NoRelay]
    /\ mixed' = (InFlight # {})
    /\ solo' = FALSE
    /\ UNCHANGED <<selector, req, arrived, picks>>

-----------------------------------------------------------------------------
RotationInit ==
    /\ disk \in Configs
    /\ selector = NoSelector
    /\ req = [r \in Requests |-> Idle]
    /\ arrived = 0 /\ edits = 0
    /\ picks = [m \in Relays |-> 0]
    /\ home = [c \in Convs |-> NoRelay]
    /\ mixed = FALSE /\ solo = FALSE

Proceed(r) == \/ SelectRegular(r) \/ SelectMember(r) \/ PeekMember(r)
              \/ GiveUp(r) \/ Send(r) \/ Record(r)

RotationNext == (\E r \in Requests : Arrive(r) \/ Proceed(r)) \/ SaveSettings

RotationSpec == RotationInit /\ [][RotationNext]_rotationVars

-----------------------------------------------------------------------------
RequestStates ==
    [pc : {"idle", "select", "try", "record"},
     settings : Configs \cup {NoAggregate}, conv : Convs \cup {NoConv},
     model : Models \cup {NoModel}, kind : {"response", "compact", "probe"},
     queue : Seq(Relays), tried : Seq(Relays), ok : BOOLEAN,
     result : {"none", "served", "failed", "refused"}]

RotationTypeOK ==
    /\ disk \in Configs
    /\ req \in [Requests -> RequestStates]
    /\ selector = NoSelector \/
          /\ selector.aggregate \in Aggregates
          /\ {selector.failover, selector.request} \subseteq
                0..(Size(selector.aggregate) - 1)
          /\ selector.weighted \in Nat
          /\ Range(selector.assigned) \subseteq Members(selector.aggregate)
          /\ DOMAIN selector.assigned \subseteq Convs
    /\ picks \in [Relays -> Nat] /\ home \in [Convs -> Relays \cup {NoRelay}]
    /\ arrived \in 0..MaxRequests /\ edits \in 0..MaxEdits
    /\ {mixed, solo} \subseteq BOOLEAN

(* A rotation is fair however requests interleave, whichever of them are   *)
(* routed past it, repeat a conversation or are refused: members get their *)
(* turns in equal numbers, or in the proportion of their weights, up to    *)
(* the cycle that is under way.                                            *)
FairShare ==
    selector # NoSelector =>
       LET a == selector.aggregate
           share(i) == IF a.strategy = "weightedRoundRobin"
                       THEN Weight(a.members[i]) ELSE 1
       IN  \E cycles \in 0..MaxRequests : \A i \in DOMAIN a.members :
              picks[a.members[i].relay] \in
                 (cycles * share(i))..((cycles + 1) * share(i))

(* A request never tries a relay outside the aggregate of the settings it  *)
(* read, nor one it cannot use, nor the same one twice, whatever became of *)
(* the selector and the settings since.                                    *)
TriesOwnMembers ==
    \A r \in Requests :
       LET q == req[r]  s == q.settings IN
       q.pc \in {"try", "record"} /\ s.aggregate # NoAggregate =>
          /\ \A m \in Range(q.tried \o q.queue) : Available(s, m)
          /\ IsInjective(q.tried \o q.queue)

(* A request is not reported as failed while a member it could have used   *)
(* was left untried.                                                       *)
FailsOnlyWhenAllFailed ==
    [][ \A r \in Requests :
          LET s == req[r].settings IN
          /\ req[r].pc = "record" /\ req'[r].result = "failed"
          /\ s.aggregate # NoAggregate
          => \A m \in Members(s.aggregate) : Available(s, m) =>
                m \in Range(req[r].tried) ]_rotationVars

(* Failover goes through all of them and no further: the two together.     *)
FailoverIsThorough == [](RotationTypeOK /\ TriesOwnMembers) /\ FailsOnlyWhenAllFailed

(* Failover settles on the member that served: the next request starts     *)
(* there.  For a request that had the selector to itself and was not       *)
(* routed, in an aggregate whose members are all usable; the fallbacks and *)
(* the index are computed apart from each other and agree only then.       *)
FailoverFollowsServer ==
    [][ \A r \in Requests :
          LET q == req[r]  s == q.settings IN
          /\ q.pc = "record" /\ q.ok /\ solo
          /\ s.aggregate # NoAggregate /\ s.aggregate.strategy = "failover"
          /\ Members(s.aggregate) \subseteq s.usable
          /\ Routed(s, q.model) = NoRelay
          => MemberAt(s.aggregate, selector'.failover) = Last(q.tried) ]_rotationVars

(* Where a conversation goes, unless a route says otherwise.               *)
Chosen(r) == Choice(req[r].settings, req[r].conv, req[r].model).relay

Strays(r) ==
    LET q == req[r] IN
    /\ q.pc = "select" /\ q.kind # "probe" /\ q.settings = disk
    /\ q.settings.aggregate # NoAggregate /\ Size(q.settings.aggregate) > 0
    /\ q.settings.aggregate.strategy = "conversationRoundRobin"
    /\ q.conv # NoConv /\ Routed(q.settings, q.model) = NoRelay
    /\ home[q.conv] \notin {NoRelay, Chosen(r)}

(* A conversation keeps its member for as long as the settings stay,       *)
(* whatever probes, routed requests, failures and other conversations do   *)
(* to the selector, if no request was in flight when they were saved.      *)
ConversationKeepsMember == ~mixed => \A r \in Requests : ~Strays(r)

(* The plan of the feature: one conversation stays with one member.  A     *)
(* request that read the settings before they were changed resets the      *)
(* selector when it ends or chooses, and with it the assignments.          *)
ConversationNeverStrays == \A r \in Requests : ~Strays(r)

(* The plan of the feature: one unavailable member does not keep the       *)
(* others from working.  The strategies count unavailable members in, and  *)
(* a request whose turn falls on one is refused before any is tried.       *)
UnavailableMemberHarmless ==
    [][ \A r \in Requests :
          LET s == req[r].settings IN
          /\ req[r].pc = "select" /\ req[r].kind # "probe"
          /\ s.aggregate # NoAggregate /\ req'[r].result = "refused"
          => \A m \in Members(s.aggregate) : ~Available(s, m) ]_rotationVars
=============================================================================
