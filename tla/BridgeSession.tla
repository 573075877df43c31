---------------------------- MODULE BridgeSession ----------------------------
(***************************************************************************)
(* The bridge between the page of the desktop app and the launcher         *)
(* (bridge.rs).  The page calls a CDP binding and waits for a promise; a   *)
(* CDP session of the launcher receives the call, runs the handler and     *)
(* settles the promise by evaluating a script in the page.                 *)
(*                                                                         *)
(* The watchdog reinstalls the bridge while the session it had may be      *)
(* alive, so several sessions of the same page exist side by side.  They   *)
(* are told apart by a generation; a session that is not of the current    *)
(* one drops requests and responses and closes.  One page target is        *)
(* modelled: generations of different targets do not meet.                 *)
(***************************************************************************)
EXTENDS Naturals, Sequences

CONSTANTS MaxGeneration, \* bound: installations
          MaxCalls,      \* bound: calls of the page
          MaxFaults      \* bound: sockets lost, pages reloaded

ASSUME BridgeAssumption ==
    MaxGeneration \in Nat \ {0} /\ MaxCalls \in Nat /\ MaxFaults \in Nat

Generations == 1..MaxGeneration
Calls == 1..MaxCalls
NoGeneration == 0

VARIABLES
    \* the page: has it the bridge function, the last request id, and the
    \* call behind each promise it waits for, by request id
    bridged, seq, waiting,
    current,   \* CURRENT_BRIDGE_GENERATIONS for the page's target
    \* the sessions: where each is, the calls it received, the calls its
    \* handler works on, and the answers on their way to the page
    pc, inbox, pending, wire,
    \* history and bounds
    made,      \* calls made so far
    handlers,  \* the sessions that ran the handler for a call
    handover,  \* calls made while an installation was half done
    fate,      \* of each call: waiting, answered, mixed up, or lost with
               \* the callbacks of its page
    faults

callbacks == <<bridged, seq, waiting>>
sessions == <<pc, inbox, pending, wire>>
bridgeVars == <<callbacks, current, sessions, made, handlers, handover, fate, faults>>

Message(id, call) == [id |-> id, call |-> call]

(* A session's own binding is there from Runtime.addBinding until its      *)
(* socket closes; its script is run in new documents from the              *)
(* addScriptToEvaluateOnNewDocument on.                                    *)
Bound == {"bound", "scripted", "evaluated", "running"}
Scripted == {"scripted", "evaluated", "running"}

(* Slip: every session believes it is the current one.                     *)
IsCurrentAlways(g) == TRUE

(* bridge_generation_is_current                                            *)
IsCurrent(g) == current = g

(* Slip: a later installation is not looked for.                           *)
SupersededNever(g) == FALSE

(* A later installation has been published.                                *)
Superseded(g) == current > g

Goto(g, step) == pc' = [pc EXCEPT ![g] = step]

(* The bridge script replaces the callbacks and starts ids from 1; so does *)
(* a new document, which runs the scripts of the connected sessions.       *)
Forget ==
    /\ seq' = 0
    /\ waiting' = <<>>
    /\ fate' = [c \in Calls |-> IF fate[c] = "waiting" THEN "lost" ELSE fate[c]]

-----------------------------------------------------------------------------
(* install_bridge: connect, and take the next generation.                  *)
Connect(g) ==
    /\ pc[g] = "none"
    /\ \A h \in Generations : h < g => pc[h] # "none"
    /\ Goto(g, "connected")
    /\ UNCHANGED <<callbacks, current, inbox, pending, wire, made, handlers, handover,
                   fate, faults>>

(* Runtime.enable, removeBinding and addBinding of this session.           *)
AddBinding(g) ==
    /\ pc[g] = "connected"
    /\ Goto(g, "bound")
    /\ UNCHANGED <<callbacks, current, inbox, pending, wire, made, handlers, handover,
                   fate, faults>>

AddScript(g) ==
    /\ pc[g] = "bound"
    /\ Goto(g, "scripted")
    /\ UNCHANGED <<callbacks, current, inbox, pending, wire, made, handlers, handover,
                   fate, faults>>

(* Runtime.evaluate of the bridge script, then the scripts of the UI.      *)
EvaluateScript(g) ==
    /\ pc[g] = "scripted"
    /\ Goto(g, "evaluated")
    /\ bridged' = TRUE
    /\ Forget
    /\ UNCHANGED <<current, inbox, pending, wire, made, handlers, handover, faults>>

(* publish_bridge_generation: a later installation may have come first.    *)
Publish(g) ==
    /\ pc[g] = "evaluated"
    /\ IF Superseded(g)
       THEN Goto(g, "closed") /\ inbox' = [inbox EXCEPT ![g] = <<>>] /\ UNCHANGED current
       ELSE Goto(g, "running") /\ current' = g /\ UNCHANGED inbox
    /\ UNCHANGED <<callbacks, pending, wire, made, handlers, handover, fate, faults>>

(* A command fails or times out: the session is dropped with its socket.   *)
InstallFails(g) ==
    /\ pc[g] \in {"connected", "bound", "scripted", "evaluated"}
    /\ faults < MaxFaults
    /\ faults' = faults + 1
    /\ Goto(g, "closed")
    /\ inbox' = [inbox EXCEPT ![g] = <<>>]
    /\ UNCHANGED <<callbacks, current, pending, wire, made, handlers, handover, fate>>

-----------------------------------------------------------------------------
(* The message loop.  enqueue_binding_call starts the handler, which runs  *)
(* beside the loop; a stale session drops the request.                     *)
Enqueue(g) ==
    /\ pc[g] = "running"
    /\ inbox[g] # <<>>
    /\ IsCurrent(g)
    /\ inbox' = [inbox EXCEPT ![g] = Tail(@)]
    /\ pending' = [pending EXCEPT ![g] = @ \cup {Head(inbox[g])}]
    /\ handlers' = [handlers EXCEPT ![Head(inbox[g]).call] = @ \cup {g}]
    /\ UNCHANGED <<callbacks, current, pc, wire, made, handover, fate, faults>>

(* Slip: a handler that fails is not answered.                             *)
FinishQuietly(g) ==
    /\ pc[g] = "running"
    /\ \E m \in pending[g], ok \in BOOLEAN :
          /\ pending' = [pending EXCEPT ![g] = @ \ {m}]
          /\ wire' = IF ok /\ IsCurrent(g) THEN [wire EXCEPT ![g] = Append(@, m)] ELSE wire
    /\ UNCHANGED <<callbacks, current, pc, inbox, made, handlers, handover, fate, faults>>

(* finish_binding_call: handlers complete in any order; the answer of a    *)
(* stale session is dropped.                                               *)
Finish(g) ==
    /\ pc[g] = "running"
    /\ \E m \in pending[g] :
          /\ pending' = [pending EXCEPT ![g] = @ \ {m}]
          /\ wire' = IF IsCurrent(g) THEN [wire EXCEPT ![g] = Append(@, m)] ELSE wire
    /\ UNCHANGED <<callbacks, current, pc, inbox, made, handlers, handover, fate, faults>>

(* The loop finds its generation superseded, or its socket gone; what was  *)
(* sent before stays on its way.                                           *)
CloseSession(g) ==
    /\ \/ pc[g] = "running" /\ ~IsCurrent(g)
       \/ pc[g] = "broken"
    /\ Goto(g, "closed")
    /\ inbox' = [inbox EXCEPT ![g] = <<>>]
    /\ pending' = [pending EXCEPT ![g] = {}]
    /\ current' = IF IsCurrent(g) THEN NoGeneration ELSE current
    /\ UNCHANGED <<callbacks, wire, made, handlers, handover, fate, faults>>

-----------------------------------------------------------------------------
(* The page and the browser.                                               *)

(* A call: a request id, a promise, and the call of the binding, which     *)
(* every session that added the binding is told of.                        *)
Call ==
    /\ bridged
    /\ made < MaxCalls
    /\ made' = made + 1
    /\ seq' = seq + 1
    /\ waiting' = Append(waiting, made')
    /\ inbox' = [g \in Generations |->
                    IF pc[g] \in Bound
                    THEN Append(inbox[g], Message(seq', made')) ELSE inbox[g]]
    /\ fate' = [fate EXCEPT ![made'] = "waiting"]
    /\ handover' = IF \E g \in Generations : pc[g] \in Bound \ {"running"}
                   THEN handover \cup {made'} ELSE handover
    /\ UNCHANGED <<bridged, current, pc, pending, wire, handlers, faults>>

(* The page evaluates __codexSessionDeleteResolve(id, result).             *)
Settle(g) ==
    /\ wire[g] # <<>>
    /\ wire' = [wire EXCEPT ![g] = Tail(@)]
    /\ LET m == Head(wire[g])
       IN  IF m.id \in DOMAIN waiting /\ fate[waiting[m.id]] = "waiting"
           THEN fate' = [fate EXCEPT ![waiting[m.id]] =
                            IF waiting[m.id] = m.call THEN "answered" ELSE "mixed up"]
           ELSE UNCHANGED fate
    /\ UNCHANGED <<callbacks, current, pc, inbox, pending, made, handlers, handover, faults>>

(* The page is reloaded. *)
Reload ==
    /\ faults < MaxFaults
    /\ faults' = faults + 1
    /\ bridged' = (\E g \in Generations : pc[g] \in Scripted)
    /\ Forget
    /\ UNCHANGED <<current, sessions, made, handlers, handover>>

(* A running session loses its socket, and what was on it.                 *)
Break(g) ==
    /\ pc[g] = "running"
    /\ faults < MaxFaults
    /\ faults' = faults + 1
    /\ Goto(g, "broken")
    /\ wire' = [wire EXCEPT ![g] = <<>>]
    /\ UNCHANGED <<callbacks, current, inbox, pending, made, handlers, handover, fate>>

-----------------------------------------------------------------------------
BridgeInit ==
    /\ bridged = FALSE /\ seq = 0 /\ waiting = <<>>
    /\ current = NoGeneration
    /\ pc = [g \in Generations |-> "none"]
    /\ inbox = [g \in Generations |-> <<>>]
    /\ pending = [g \in Generations |-> {}]
    /\ wire = [g \in Generations |-> <<>>]
    /\ made = 0
    /\ handlers = [c \in Calls |-> {}]
    /\ handover = {}
    /\ fate = [c \in Calls |-> "none"]
    /\ faults = 0

Install(g) == Connect(g) \/ AddBinding(g) \/ AddScript(g) \/ EvaluateScript(g) \/ Publish(g)
Loop(g) == Enqueue(g) \/ Finish(g) \/ CloseSession(g)

BridgeNext == \/ \E g \in Generations : \/ Install(g) \/ InstallFails(g)
                                  \/ Loop(g) \/ Settle(g) \/ Break(g)
        \/ Call \/ Reload

BridgeSpec == BridgeInit /\ [][BridgeNext]_bridgeVars

(* A running session is polled, the browser delivers what it was sent, a   *)
(* handler ends, a lost socket ends the loop, and an installation that     *)
(* began goes on, for its commands have timeouts.  A superseded session    *)
(* may linger: it looks at its generation when a message wakes it.         *)
LiveSpec == /\ BridgeSpec
            /\ \A g \in Generations :
                  /\ WF_bridgeVars(AddBinding(g) \/ AddScript(g) \/ EvaluateScript(g) \/ Publish(g))
                  /\ WF_bridgeVars(Enqueue(g)) /\ WF_bridgeVars(Finish(g))
                  /\ WF_bridgeVars(pc[g] = "broken" /\ CloseSession(g))
                  /\ WF_bridgeVars(Settle(g))

-----------------------------------------------------------------------------
Messages == [id : Calls, call : Calls]
Steps == {"none", "connected", "broken", "closed"} \cup Bound
Fates == {"none", "waiting", "answered", "mixed up", "lost"}

BridgeTypeOK ==
    /\ bridged \in BOOLEAN /\ seq \in 0..made /\ waiting \in Seq(Calls)
    /\ current \in Generations \cup {NoGeneration}
    /\ pc \in [Generations -> Steps]
    /\ inbox \in [Generations -> Seq(Messages)]
    /\ pending \in [Generations -> SUBSET Messages]
    /\ wire \in [Generations -> Seq(Messages)]
    /\ made \in 0..MaxCalls
    /\ handlers \in [Calls -> SUBSET Generations]
    /\ handover \subseteq Calls /\ fate \in [Calls -> Fates] /\ faults \in 0..MaxFaults

(* A call is handled by one session, though every session receives it: no  *)
(* request is executed twice, unless it was made while an installation     *)
(* was half done, when the old session takes it before and the new session *)
(* after the publication.                                                  *)
HandledOnce ==
    \A c \in Calls \ handover : \A g, h \in handlers[c] : g = h

(* Generations only move forward, so an old session is never the current   *)
(* one again, however slow its installation was -- unless the newer one    *)
(* has ended.                                                              *)
NeverBackToOlder ==
    [][current' < current => current' = NoGeneration /\ pc'[current] = "closed"]_bridgeVars

(* A call made on a page whose bridge works is answered, whatever other    *)
(* installations do beside it, unless that page's callbacks are replaced   *)
(* or the session that is current goes away.                               *)
Received(c) == current # NoGeneration /\ pc[current] = "running"
               /\ \E i \in DOMAIN inbox[current] : inbox[current][i].call = c

CallsAreAnswered ==
    \A c \in Calls :
       fate[c] = "waiting" /\ Received(c)
          ~> \/ fate[c] # "waiting"
             \/ current = NoGeneration \/ pc[current] = "broken"

(* The bridge's request flow: the promise of a request is settled with the *)
(* result of that request.  Ids start from 1 again whenever the bridge     *)
(* script runs, so the late answer to a call of the page before settles    *)
(* the promise of another call.                                            *)
PromiseGetsItsOwnResult == \A c \in Calls : fate[c] # "mixed up"
=============================================================================
