------------------------- MODULE LauncherLifecycle -------------------------
(***************************************************************************)
(* The launcher processes around one desktop app: the guard that admits    *)
(* one of them, the recovery of a launcher taken for stale, the launch in  *)
(* its stages, the watchdog that injects the bridge again, and the way     *)
(* out.  The app, its page and whoever holds the helper's port are outside *)
(* and do what they like, a bounded number of times.                       *)
(***************************************************************************)
EXTENDS Naturals

CONSTANTS Launchers,   \* launcher processes the user may start
          None, Other, \* nobody, and a program that is no launcher
          Attempts,    \* bound: attempts of ensure_injection (120 in the code)
          MaxStarts,   \* bound: how often launchers are started
          MaxEvents    \* bound: what the app, its page and the system do

ASSUME LauncherAssumption ==
    /\ None \notin Launchers /\ Other \notin Launchers /\ None # Other
    /\ Attempts \in Nat \ {0} /\ MaxStarts \in Nat /\ MaxEvents \in Nat

VARIABLES
    setup,   \* the settings, and the platform
    me,      \* what each launcher is doing
    guard,   \* who holds the single-instance guard
    helper,  \* who listens on the helper's port
    app,     \* the desktop app: its state and the identity of its browser
    page,    \* whose bridge the page has, whether a call got through it of late
             \* (sound: ever since it was injected), whether probes are answered
    status,  \* the launch status as saved last
    starts,  \* launchers started so far
    events   \* external events so far

vars == <<setup, me, guard, helper, app, page, status, starts, events>>

Threshold == 2       \* BRIDGE_HEALTH_FAILURE_THRESHOLD
Polls == 3           \* empty polls until the app counts as gone

(* mac: the app is opened by `open`, and restarted when it runs without a  *)
(* debug port; otherwise it is activated through its package (Windows).    *)
Setups == [mac : BOOLEAN, proxy : BOOLEAN, enhanced : BOOLEAN]

NoWatch == [step |-> "off", seen |-> 0, fails |-> 0]
Gone == [pc |-> "off", retry |-> FALSE, visitor |-> FALSE, quits |-> FALSE,
         opened |-> 0, tries |-> 0, watch |-> NoWatch]

Stages == {"sync", "helper", "codex", "port", "quit", "open", "inject", "ready", "run"}
Serving(l) == me[l].pc \in Stages /\ ~me[l].visitor
Running == app.at # "off"
Cdp == app.at = "open"
Become(l, stage) == me' = [me EXCEPT ![l].pc = stage]

(* A process ends: the system closes its lock, its sockets and its half of *)
(* the bridge.  The app is not its child in any sense that matters.        *)
Without(x, S) == IF x \in S THEN None ELSE x
Vanish(S) ==
    /\ me' = [l \in Launchers |-> IF l \in S THEN Gone ELSE me[l]]
    /\ guard' = Without(guard, S)
    /\ helper' = Without(helper, S)

LoseBridge(S) == page' = [page EXCEPT !.bridge = Without(@, S),
                                      !.sound = @ /\ page.bridge \notin S]
NewApp == app' = [at |-> "starting", id |-> app.id + 1]
NoPage == [bridge |-> None, beat |-> FALSE, sound |-> FALSE, busy |-> FALSE]
FreshPage == page' = NoPage
BridgeTo(l) == page' = [bridge |-> l, beat |-> TRUE, sound |-> TRUE, busy |-> FALSE]
CloseApp == app' = [app EXCEPT !.at = "off"] /\ FreshPage

Init == /\ setup \in Setups
        /\ me = [l \in Launchers |-> Gone]
        /\ guard = None /\ helper = None /\ status = "none"
        /\ app = [at |-> "off", id |-> 0]
        /\ page = NoPage
        /\ starts = 0 /\ events = 0

Start(l) ==
    /\ me[l].pc = "off"
    /\ starts < MaxStarts
    /\ starts' = starts + 1
    /\ me' = [me EXCEPT ![l].pc = "guard"]
    /\ UNCHANGED <<setup, guard, helper, app, page, status, events>>

-----------------------------------------------------------------------------
(* Slip: after the old launchers were stopped the guard is taken for free. *)
AcquireUnasked(l) ==
    /\ me[l].pc = "guard"
    /\ IF guard = None \/ me[l].retry
       THEN guard' = l /\ Become(l, "sync")
       ELSE Become(l, "judge") /\ UNCHANGED guard
    /\ UNCHANGED <<setup, helper, app, page, status, starts, events>>

(* One attempt at the guard: a lock file, then a port, both released by    *)
(* the system when the process ends.  The second attempt that fails makes  *)
(* this launcher a visitor, which opens the app and leaves.                *)
Acquire(l) ==
    /\ me[l].pc = "guard"
    /\ IF guard = None
       THEN guard' = l /\ Become(l, "sync")
       ELSE /\ me' = [me EXCEPT ![l].pc = IF me[l].retry THEN "codex" ELSE "judge",
                                ![l].visitor = me[l].retry]
            /\ UNCHANGED guard
    /\ UNCHANGED <<setup, helper, app, page, status, starts, events>>

(* Is the launcher that holds it stale?  No app and no debug port: yes.    *)
Judge(l) ==
    /\ me[l].pc = "judge"
    /\ me' = [me EXCEPT ![l].pc = IF Running THEN "codex" ELSE "stop",
                        ![l].visitor = Running]
    /\ UNCHANGED <<setup, guard, helper, app, page, status, starts, events>>

(* stop_launcher_processes, which does not wait and ignores what it could  *)
(* not stop; then the second and last attempt.                             *)
StopOthers(l) ==
    /\ me[l].pc = "stop"
    /\ \E victims \in SUBSET (Launchers \ {l}) :
          /\ me' = [k \in Launchers |->
                      IF k \in victims THEN Gone
                      ELSE IF k = l THEN [me[l] EXCEPT !.pc = "guard", !.retry = TRUE]
                      ELSE me[k]]
          /\ guard' = Without(guard, victims)
          /\ helper' = Without(helper, victims)
          /\ LoseBridge(victims)
    /\ UNCHANGED <<setup, app, status, starts, events>>

-----------------------------------------------------------------------------
(* The error path of launch_and_inject: helper down, the app closed only   *)
(* after its page was injected, and on a Mac only if this launcher opened  *)
(* it; "failed" is saved, if it can be.                                    *)
Abort(l) ==
    /\ Vanish({l})
    /\ IF me[l].pc = "ready" /\ setup.enhanced /\ Running
          /\ IF setup.mac THEN me[l].quits ELSE me[l].opened = app.id
       THEN CloseApp
       ELSE LoseBridge({l}) /\ UNCHANGED app
    /\ status' \in {status, "failed"}
    /\ UNCHANGED <<setup, starts, events>>

(* The provider synchronisation and the other preparations; one that did   *)
(* not complete ends the launch.                                           *)
Prepare(l) ==
    /\ me[l].pc = "sync"
    /\ \/ Abort(l)
       \/ /\ Become(l, IF setup.enhanced \/ setup.proxy THEN "helper" ELSE "codex")
          /\ UNCHANGED <<setup, guard, helper, app, page, status, starts, events>>

(* A busy port is waited for, if the protocol proxy needs it or on a Mac,  *)
(* and given up in the end.  Only on Windows, and without the proxy, a     *)
(* free one is chosen instead; it may be taken before it is bound.         *)
StartHelper(l) ==
    /\ me[l].pc = "helper"
    /\ \/ /\ helper = None \/ (~setup.proxy /\ ~setup.mac)
          /\ helper' = l
          /\ Become(l, "codex")
          /\ UNCHANGED <<setup, guard, app, page, status, starts, events>>
       \/ Abort(l)

(* launch_codex, up to the command that opens the app.  On a Mac it asks   *)
(* whether the app runs, then whether it has a debug port.                 *)
LaunchCodex(l) ==
    /\ me[l].pc = "codex"
    /\ \/ Abort(l)
       \/ /\ me' = [me EXCEPT ![l].pc = IF setup.mac THEN "port" ELSE "open",
                              ![l].quits = ~Running]
          /\ UNCHANGED <<setup, guard, helper, app, page, status, starts, events>>

FindPort(l) ==
    /\ me[l].pc = "port"
    /\ me' = [me EXCEPT ![l].pc = IF me[l].quits \/ Cdp THEN "open" ELSE "quit",
                        ![l].quits = @ \/ ~Cdp]
    /\ UNCHANGED <<setup, guard, helper, app, page, status, starts, events>>

(* An app without a debug port is asked to quit; it may refuse.            *)
QuitApp(l) ==
    /\ me[l].pc = "quit"
    /\ \/ Abort(l)
       \/ /\ Become(l, "open")
          /\ IF Running THEN CloseApp ELSE UNCHANGED <<app, page>>
          /\ UNCHANGED <<setup, guard, helper, status, starts, events>>

(* The command itself: it opens the app or brings it to the front.  For a  *)
(* visitor that is all.                                                    *)
OpenApp(l) ==
    /\ me[l].pc = "open"
    /\ IF Running THEN UNCHANGED <<app, page>> ELSE NewApp /\ FreshPage
    /\ IF me[l].visitor
       THEN Vanish({l}) /\ status' = "running"
       ELSE /\ me' = [me EXCEPT ![l].opened = app'.id,
                        ![l].pc = IF setup.enhanced THEN "inject" ELSE "ready"]
            /\ UNCHANGED <<guard, helper, status>>
    /\ UNCHANGED <<setup, starts, events>>

(* ensure_injection: one attempt.  After the last one the launch goes on   *)
(* without the page, degraded, and without a watchdog; if that cannot be   *)
(* saved, it fails.                                                        *)
Inject(l) ==
    LET last == me[l].tries + 1 = Attempts IN
    /\ me[l].pc = "inject"
    /\ \/ /\ Cdp /\ ~page.busy
          /\ BridgeTo(l)
          /\ Become(l, "ready")
          /\ UNCHANGED <<setup, guard, helper, app, status, starts, events>>
       \/ /\ ~(Cdp /\ ~page.busy)
          /\ me' = [me EXCEPT ![l].tries = IF last THEN 0 ELSE @ + 1,
                              ![l].pc = IF last THEN "run" ELSE "inject"]
          /\ status' = IF last THEN "running_degraded" ELSE status
          /\ UNCHANGED <<setup, guard, helper, app, page, starts, events>>
       \/ last /\ ~(Cdp /\ ~page.busy) /\ Abort(l)

(* The watchdog is started, if there is a page to watch, and "running" is  *)
(* saved; that may fail.                                                   *)
Ready(l) ==
    /\ me[l].pc = "ready"
    /\ \/ Abort(l)
       \/ /\ me' = [me EXCEPT ![l].pc = "run", ![l].tries = 0,
                      ![l].watch.step = IF setup.enhanced THEN "idle" ELSE "off"]
          /\ status' = "running"
          /\ UNCHANGED <<setup, guard, helper, app, page, starts, events>>

-----------------------------------------------------------------------------
(* A tick of the watchdog: a new browser behind the port is enough.        *)
Tick(l) ==
    LET w == me[l].watch
        changed == Cdp /\ w.seen \notin {0, app.id}
    IN
    /\ me[l].pc = "run"
    /\ w.step = "idle"
    /\ me' = [me EXCEPT ![l].watch =
                [step |-> IF changed THEN "reinject" ELSE "probe",
                 seen |-> IF Cdp THEN app.id ELSE w.seen,
                 fails |-> IF changed THEN Threshold ELSE w.fails]]
    /\ UNCHANGED <<setup, guard, helper, app, page, status, starts, events>>

(* Slip: a probe without an answer counts as a failure.                    *)
ProbeImpatient(l) ==
    LET w == me[l].watch
        fails == IF page.beat /\ ~page.busy THEN 0
                 ELSE IF w.fails < Threshold THEN w.fails + 1 ELSE Threshold
    IN
    /\ w.step = "probe"
    /\ me' = [me EXCEPT ![l].watch.fails = fails,
                        ![l].watch.step = IF fails = Threshold THEN "reinject" ELSE "idle"]
    /\ UNCHANGED <<setup, guard, helper, app, page, status, starts, events>>

(* Slip: the counter starts again with every probe.                        *)
ProbeForgets(l) ==
    LET w == me[l].watch IN
    /\ w.step = "probe"
    /\ me' = [me EXCEPT ![l].watch.fails = IF page.beat THEN 0 ELSE 1,
                        ![l].watch.step = "idle"]
    /\ UNCHANGED <<setup, guard, helper, app, page, status, starts, events>>

(* The probe asks the page when a call last got through its bridge: no     *)
(* answer says nothing and forgets earlier failures; two answers in a row  *)
(* that it was long ago, or that there is no bridge, call for another      *)
(* injection.                                                              *)
Probe(l) ==
    LET w == me[l].watch
        fails == IF ~Cdp \/ page.busy \/ page.beat THEN 0
                 ELSE IF w.fails < Threshold THEN w.fails + 1 ELSE Threshold
    IN
    /\ w.step = "probe"
    /\ me' = [me EXCEPT ![l].watch.fails = fails,
                        ![l].watch.step = IF fails = Threshold THEN "reinject" ELSE "idle"]
    /\ UNCHANGED <<setup, guard, helper, app, page, status, starts, events>>

Reinject(l) ==
    /\ me[l].watch.step = "reinject"
    /\ IF Cdp /\ ~page.busy
       THEN /\ BridgeTo(l)
            /\ me' = [me EXCEPT ![l].watch.step = "idle", ![l].watch.fails = 0]
       ELSE /\ me' = [me EXCEPT ![l].watch.step = "idle"]
            /\ UNCHANGED page
    /\ UNCHANGED <<setup, guard, helper, app, status, starts, events>>

(* Slip: the streak starts anew with every poll.                           *)
PollResets(l) ==
    /\ me[l].pc = "run"
    /\ me' = [me EXCEPT
                ![l].tries = IF Running THEN 0 ELSE 1,
                ![l].pc = IF ~Running /\ Polls = 1 THEN "closing" ELSE "run"]
    /\ UNCHANGED <<setup, guard, helper, app, page, status, starts, events>>

(* wait_for_codex_exit: three looks in a row without the app.              *)
Poll(l) ==
    /\ me[l].pc = "run"
    /\ me' = [me EXCEPT
                ![l].tries = IF Running \/ @ + 1 = Polls THEN 0 ELSE @ + 1,
                ![l].pc = IF ~Running /\ me[l].tries + 1 = Polls
                          THEN "closing" ELSE "run"]
    /\ UNCHANGED <<setup, guard, helper, app, page, status, starts, events>>

(* shutdown_helper waits for the watchdog's tick to end; then the process  *)
(* leaves.                                                                 *)
Close(l) ==
    /\ me[l].pc = "closing"
    /\ me[l].watch.step \in {"off", "idle"}
    /\ Vanish({l})
    /\ LoseBridge({l})
    /\ UNCHANGED <<setup, app, status, starts, events>>

-----------------------------------------------------------------------------
(* Outside: the app gets ready, quits, is replaced by a new instance of    *)
(* itself, or is opened by hand, without a debug port; its page is         *)
(* replaced, loses the bridge or gets no call through it, stops answering  *)
(* for a while; a launcher is killed; a program takes the helper's port or *)
(* releases it.                                                            *)
AppReady ==
    /\ app.at = "starting"
    /\ app' = [app EXCEPT !.at = "open"]
    /\ UNCHANGED <<setup, me, guard, helper, page, status, starts, events>>

PageAnswers ==
    /\ page.busy
    /\ page' = [page EXCEPT !.busy = FALSE]
    /\ UNCHANGED <<setup, me, guard, helper, app, status, starts, events>>

(* What the page noted of its calls gets old; calls get through again.     *)
BeatFades ==
    /\ page.beat /\ page.bridge = None
    /\ page' = [page EXCEPT !.beat = FALSE]
    /\ UNCHANGED <<setup, me, guard, helper, app, status, starts, events>>

BeatReturns ==
    /\ ~page.beat /\ ~page.busy /\ page.bridge # None
    /\ page' = [page EXCEPT !.beat = TRUE]
    /\ UNCHANGED <<setup, me, guard, helper, app, status, starts, events>>

PortReleased ==
    /\ helper = Other
    /\ helper' = None
    /\ UNCHANGED <<setup, me, guard, app, page, status, starts, events>>

AppEvent ==
    /\ UNCHANGED <<setup, me, guard, helper, status>>
    /\ \/ Running /\ CloseApp
       \/ Cdp /\ NewApp /\ FreshPage
       \/ ~Running /\ app' = [at |-> "plain", id |-> app.id + 1] /\ FreshPage
       \/ Cdp /\ FreshPage /\ UNCHANGED app
       \/ Cdp /\ LoseBridge(Launchers) /\ UNCHANGED app
       \/ Cdp /\ page' = [page EXCEPT !.beat = FALSE, !.sound = FALSE] /\ UNCHANGED app
       \/ Cdp /\ page' = [page EXCEPT !.busy = TRUE] /\ UNCHANGED app

SystemEvent ==
    /\ UNCHANGED <<setup, app, status>>
    /\ \/ \E l \in Launchers : me[l].pc # "off" /\ Vanish({l}) /\ LoseBridge({l})
       \/ helper = None /\ helper' = Other /\ UNCHANGED <<me, guard, page>>

Outside ==
    /\ events < MaxEvents
    /\ events' = events + 1
    /\ UNCHANGED starts
    /\ AppEvent \/ SystemEvent

Launching(l) == \/ Acquire(l) \/ Judge(l) \/ StopOthers(l) \/ Prepare(l)
                \/ StartHelper(l) \/ LaunchCodex(l) \/ FindPort(l) \/ QuitApp(l)
                \/ OpenApp(l) \/ Inject(l) \/ Ready(l)
Watching(l) == Tick(l) \/ Probe(l) \/ Reinject(l)
Leaving(l) == Poll(l) \/ Close(l)

Next == \/ \E l \in Launchers : Start(l) \/ Launching(l) \/ Watching(l) \/ Leaving(l)
        \/ AppReady \/ PageAnswers \/ BeatFades \/ BeatReturns \/ PortReleased \/ Outside

(* The threads of a live process run; an app that starts opens its port, a *)
(* page that is busy answers in the end, and time passes for what it noted. *)
Fairness == /\ \A l \in Launchers : /\ WF_vars(Launching(l))
                                    /\ WF_vars(Watching(l))
                                    /\ WF_vars(Leaving(l))
            /\ WF_vars(AppReady) /\ WF_vars(PageAnswers) /\ WF_vars(BeatFades)

Spec == Init /\ [][Next]_vars /\ Fairness
-----------------------------------------------------------------------------
Watches == [step : {"off", "idle", "probe", "reinject"}, seen : Nat,
            fails : 0..Threshold]
States == [pc : Stages \cup {"off", "guard", "judge", "stop", "closing"},
           retry : BOOLEAN, visitor : BOOLEAN, quits : BOOLEAN, opened : Nat,
           tries : Nat, watch : Watches]

TypeOK ==
    /\ setup \in Setups
    /\ me \in [Launchers -> States]
    /\ \A l \in Launchers :
          /\ me[l].pc = "inject" => me[l].tries < Attempts
          /\ me[l].pc = "run" => me[l].tries < Polls
    /\ guard \in Launchers \cup {None}
    /\ helper \in Launchers \cup {None, Other}
    /\ app \in [at : {"off", "starting", "open", "plain"}, id : Nat]
    /\ page \in [bridge : Launchers \cup {None}, beat : BOOLEAN, sound : BOOLEAN,
                 busy : BOOLEAN]
    /\ status \in {"none", "running", "running_degraded", "failed"}
    /\ starts \in 0..MaxStarts
    /\ events \in 0..MaxEvents

(* One launcher serves the app, also after one was taken for stale, was    *)
(* stopped or resisted (acquire_single_instance_guard_with_retry).         *)
OneServes == \A k, l \in Launchers : Serving(k) /\ Serving(l) => k = l

(* A launcher has its helper before it opens the app and as long as it     *)
(* serves: config.toml sends the app's requests there.  (A launch that     *)
(* fails takes its helper down, and leaves an app open whose page it has   *)
(* not reached: that app has no helper before the next launch.)            *)
HelperServes ==
    \A l \in Launchers :
        Serving(l) /\ me[l].pc \notin {"sync", "helper"}
        /\ (setup.enhanced \/ setup.proxy) => helper = l

(* One launcher serves, and it has its helper.                              *)
ServiceHolds == TypeOK /\ OneServes /\ HelperServes

(* While the app is the instance the launcher opened or found, a page      *)
(* whose calls got through its bridge ever since it was injected is not    *)
(* injected again, however often it is too busy to answer a probe (the     *)
(* comment at check_and_reinject_bridge_inner).  After two restarts within *)
(* one tick it can be: the identity was read before.                       *)
HealthyPageLeftAlone ==
    [][\A l \in Launchers :
          /\ me[l].watch.step = "reinject" /\ me'[l].watch.step = "idle"
          /\ app.id = me[l].opened
          => ~page.sound \/ page.bridge # l \/ page'.bridge # l]_vars

(* No launcher closes an app whose page it could not reach                 *)
(* (keep_launched_on_error), nor on a Mac one that had a debug port when   *)
(* it looked.                                                              *)
OpenAppKept ==
    [][ Cdp /\ ~Running' /\ events' = events
        => \E l \in Launchers :
              \/ /\ me[l].pc = "ready" /\ me'[l].pc = "off"
                 /\ setup.mac => me[l].quits
              \/ me[l].pc = "quit" /\ me'[l].pc = "open" ]_vars

(* What works is left alone: a page its bridge serves, an app that is open. *)
WorkingAppLeftAlone == HealthyPageLeftAlone /\ OpenAppKept

(* A page that lost its bridge is injected again while its launcher runs:  *)
(* the watchdog does not give up, whatever failed before.                  *)
PageServedAgain ==
    \A l \in Launchers :
        me[l].watch.step # "off" /\ me[l].pc = "run" /\ Cdp /\ page.bridge # l
        ~> page.bridge = l \/ ~Cdp \/ me[l].pc # "run"

(* Every launch ends: it serves, or the process is gone.                   *)
LaunchSettles == \A l \in Launchers : me[l].pc # "off" ~> me[l].pc \in {"off", "run"}

(* A launcher whose app is gone leaves and gives the guard back.           *)
LauncherLeaves ==
    \A l \in Launchers : me[l].pc = "run" /\ ~Running ~> Running \/ guard # l

(* No launcher hangs: not while it launches, not after its app is gone.     *)
LaunchersEnd == LaunchSettles /\ LauncherLeaves

(* What "running_degraded" tells the user: the enhancements still wait for *)
(* the page, and come when it does.                                        *)
DegradedKeepsTrying ==
    \A l \in Launchers :
        me[l].pc = "run" /\ status = "running_degraded" /\ Cdp
        ~> page.bridge = l \/ ~Cdp \/ me[l].pc # "run"
=============================================================================
