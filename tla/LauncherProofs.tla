---------------------------- MODULE LauncherProofs ----------------------------
(***************************************************************************)
(* Proofs about what goes on in a launcher.                                *)
(*                                                                         *)
(* The first part is about LauncherLifecycle, for any number of launchers, *)
(* starts, attempts and outside events, and about the bridge a launcher    *)
(* installs in the page (BridgeSession), for any number of installations   *)
(* and calls.                                                              *)
(*                                                                         *)
(* The second part is about RelayRotation, by which a launcher chooses a   *)
(* relay for each request: any number of members, requests and             *)
(* conversations, every proper aggregate and all of its weights.           *)
(***************************************************************************)
EXTENDS LauncherLifecycle, BridgeSession, RelayRotation,
        SequenceTheorems, FiniteSetTheorems, WellFoundedInduction, TLAPS

(***************************************************************************)
(* A launcher that serves, or is on its way out, holds the guard; visitors *)
(* become such on the way to the app and never reach for the helper.       *)
(***************************************************************************)
GuardHeld ==
    \A l \in Launchers :
        me[l].pc \in Stages \cup {"closing"} /\ ~me[l].visitor => guard = l

BeforeApp ==
    \A l \in Launchers :
        /\ me[l].pc \in {"off", "guard", "judge", "stop", "sync", "helper"}
              => ~me[l].visitor
        /\ me[l].pc \in {"off", "guard", "judge", "stop", "sync", "helper", "codex",
                         "port", "quit", "open"}
              => me[l].tries = 0

(* A sound page has a bridge, and its calls got through of late.           *)
SoundBeats == page.sound => page.beat /\ page.bridge # None

IInv == TypeOK /\ GuardHeld /\ BeforeApp /\ HelperServes /\ SoundBeats

AppStates == [at : {"off", "starting", "open", "plain"}, id : Nat]
PageStates == {p \in [bridge : Launchers \cup {None}, beat : BOOLEAN, sound : BOOLEAN,
                      busy : BOOLEAN] : p.sound => p.beat /\ p.bridge # None}
Statuses == {"none", "running", "running_degraded", "failed"}

(* What a launcher may be, given who has the guard and the helper's port.  *)
Fits(l, m, g, h) ==
    /\ m \in States
    /\ m.pc = "inject" => m.tries < Attempts
    /\ m.pc = "run" => m.tries < Polls
    /\ m.pc \in {"off", "guard", "judge", "stop", "sync", "helper"} => ~m.visitor
    /\ m.pc \in {"off", "guard", "judge", "stop", "sync", "helper", "codex", "port", "quit",
                "open"}
          => m.tries = 0
    /\ m.pc \in Stages \cup {"closing"} /\ ~m.visitor => g = l
    /\ /\ m.pc \in Stages \ {"sync", "helper"} /\ ~m.visitor
       /\ setup.enhanced \/ setup.proxy
       => h = l

OutsideOK ==
    /\ setup \in Setups
    /\ guard \in Launchers \cup {None}
    /\ helper \in Launchers \cup {None, Other}
    /\ app \in AppStates
    /\ page \in PageStates
    /\ status \in Statuses
    /\ starts \in 0..MaxStarts
    /\ events \in 0..MaxEvents

LEMMA InvByLauncher ==
    IInv <=> /\ OutsideOK /\ me \in [Launchers -> States]
             /\ \A l \in Launchers : Fits(l, me[l], guard, helper)
  BY DEF IInv, TypeOK, GuardHeld, BeforeApp, HelperServes, SoundBeats, Serving, Stages,
         OutsideOK, Fits, AppStates, PageStates, Statuses

(* A step is right if every launcher that it changes fits, and the others  *)
(* keep the guard and the port they have.                                  *)
LEMMA Moves ==
    ASSUME IInv, OutsideOK', setup' = setup, me' \in [Launchers -> States],
           \A l \in Launchers :
              \/ /\ me'[l] = me[l]
                 /\ guard = l => guard' = l
                 /\ helper = l => helper' = l
              \/ Fits(l, me'[l], guard', helper')
    PROVE  IInv'
<1>1. \A l \in Launchers : Fits(l, me[l], guard, helper)
  BY InvByLauncher
<1>2. \A l \in Launchers : Fits(l, me'[l], guard', helper')
  BY <1>1 DEF Fits
<1>3. /\ setup' \in Setups
      /\ guard' \in Launchers \cup {None}
      /\ helper' \in Launchers \cup {None, Other}
      /\ app' \in [at : {"off", "starting", "open", "plain"}, id : Nat]
      /\ page' \in [bridge : Launchers \cup {None}, beat : BOOLEAN, sound : BOOLEAN,
                    busy : BOOLEAN]
      /\ SoundBeats'
      /\ status' \in {"none", "running", "running_degraded", "failed"}
      /\ starts' \in 0..MaxStarts
      /\ events' \in 0..MaxEvents
  BY DEF OutsideOK, AppStates, PageStates, Statuses, SoundBeats
<1>4. QED
  BY <1>2, <1>3
     DEF IInv, TypeOK, GuardHeld, BeforeApp, HelperServes, Serving, Stages, Fits

(* The same for a step of one launcher, which leaves the others alone.     *)
LEMMA OneMoves ==
    ASSUME IInv, OutsideOK', setup' = setup, NEW l \in Launchers, NEW m,
           me' = [me EXCEPT ![l] = m], Fits(l, m, guard', helper'),
           \A k \in Launchers \ {l} : /\ guard = k => guard' = k
                                      /\ helper = k => helper' = k
    PROVE  IInv'
<1>1. m \in States /\ me \in [Launchers -> States]
  BY InvByLauncher DEF Fits
<1>2. me' \in [Launchers -> States] /\ me'[l] = m
      /\ \A k \in Launchers \ {l} : me'[k] = me[k]
  BY <1>1
<1>3. QED
  BY <1>2, Moves

LEMMA GoneFits == \A l, g, h : Fits(l, Gone, g, h)
  BY DEF Fits, Gone, NoWatch, States, Watches, Stages, Threshold

(* What happens to the app and its page stays within their types.          *)
LEMMA Loses ==
    ASSUME IInv, NEW S, LoseBridge(S)
    PROVE  page' \in PageStates
<1> DEFINE b == Without(page.bridge, S)
           sound == page.sound /\ page.bridge \notin S
<1>1. page \in PageStates /\ b \in Launchers \cup {None} /\ sound \in BOOLEAN
  BY DEF IInv, TypeOK, SoundBeats, Without, PageStates
<1>2. sound => page.beat /\ b # None
  BY <1>1 DEF Without, PageStates
<1>3. page' = [page EXCEPT !.bridge = b, !.sound = sound]
  BY DEF LoseBridge
<1> HIDE DEF b, sound
<1>4. QED
  BY <1>1, <1>2, <1>3 DEF PageStates

LEMMA Closes ==
    ASSUME IInv
    PROVE  /\ CloseApp => app' \in AppStates /\ page' \in PageStates
           /\ NewApp => app' \in AppStates
           /\ FreshPage => page' \in PageStates
           /\ \A l \in Launchers : BridgeTo(l) => page' \in PageStates
<1>1. app \in AppStates /\ None \in Launchers \cup {None}
  BY DEF IInv, TypeOK, AppStates
<1>2. FreshPage => page' \in PageStates
  BY <1>1 DEF FreshPage, NoPage, PageStates
<1>3. NewApp => app' \in AppStates
  BY <1>1 DEF NewApp, AppStates
<1>4. CloseApp => app' = [app EXCEPT !.at = "off"] /\ FreshPage
  BY DEF CloseApp
<1>5. [app EXCEPT !.at = "off"] \in AppStates
  BY <1>1 DEF AppStates
<1>6. \A l \in Launchers : BridgeTo(l) => page' \in PageStates
  BY LauncherAssumption DEF BridgeTo, PageStates
<1>7. QED
  BY <1>2, <1>3, <1>4, <1>5, <1>6

LEMMA Stays ==
    ASSUME IInv
    PROVE  /\ app \in AppStates /\ page \in PageStates /\ status \in Statuses
           /\ starts \in 0..MaxStarts /\ events \in 0..MaxEvents
           /\ OutsideOK
           /\ me \in [Launchers -> States]
           /\ \A l \in Launchers : Fits(l, me[l], guard, helper)
           /\ setup \in Setups /\ app.id \in Nat
           /\ Attempts \in Nat \ {0}
  BY InvByLauncher, LauncherAssumption DEF OutsideOK, AppStates

(* A process that ends leaves nothing behind.                              *)
LEMMA Ends ==
    ASSUME IInv, NEW S \in SUBSET Launchers, Vanish(S), UNCHANGED setup,
           app' \in AppStates, page' \in PageStates, status' \in Statuses,
           starts' \in 0..MaxStarts, events' \in 0..MaxEvents
    PROVE  IInv'
<1>1. OutsideOK'
  BY Stays DEF OutsideOK, Vanish, Without
<1>2. me' \in [Launchers -> States]
  BY GoneFits DEF Vanish, Fits, IInv, TypeOK
<1>3. \A l \in Launchers :
          \/ /\ me'[l] = me[l]
             /\ guard = l => guard' = l
             /\ helper = l => helper' = l
          \/ Fits(l, me'[l], guard', helper')
  BY GoneFits DEF Vanish, Without
<1>4. QED
  BY <1>1, <1>2, <1>3, Moves

LEMMA AbortKeeps ==
    ASSUME IInv, NEW l \in Launchers, Abort(l)
    PROVE  IInv'
<1>1. app' \in AppStates /\ page' \in PageStates
  BY Loses, Closes, Stays DEF Abort
<1>2. Vanish({l}) /\ status' \in Statuses /\ UNCHANGED <<setup, starts, events>>
  BY Stays DEF Abort, Statuses
<1>3. QED
  BY <1>1, <1>2, Stays, Ends

-----------------------------------------------------------------------------
(* One lemma per action of a launcher.                                     *)
LEMMA StartKeeps ==
    ASSUME IInv, NEW l \in Launchers, Start(l)
    PROVE  IInv'
<1>1. OutsideOK' /\ setup' = setup
  BY Stays, LauncherAssumption DEF Start, OutsideOK
<1> DEFINE m == [me[l] EXCEPT !.pc = "guard"]
<1>2. me' = [me EXCEPT ![l] = m] /\ guard' = guard /\ helper' = helper
  BY DEF Start
<1>3. Fits(l, m, guard', helper')
  BY <1>2, Stays DEF Start, Fits, States, Stages
<1> HIDE DEF m
<1>4. QED
  BY <1>1, <1>2, <1>3, OneMoves

LEMMA AcquireKeeps ==
    ASSUME IInv, NEW l \in Launchers, Acquire(l)
    PROVE  IInv'
<1>0. OutsideOK' /\ setup' = setup
  BY Stays DEF Acquire, OutsideOK
<1>1. CASE guard = None
  <2> DEFINE m == [me[l] EXCEPT !.pc = "sync"]
  <2>1. me' = [me EXCEPT ![l] = m] /\ guard' = l /\ helper' = helper
    BY <1>1 DEF Acquire, Become
  <2>2. Fits(l, m, guard', helper')
    BY <2>1, Stays DEF Acquire, Fits, States, Stages
  <2>3. \A k \in Launchers \ {l} : guard # k
    BY <1>1, LauncherAssumption
  <2> HIDE DEF m
  <2>4. QED
    BY <1>0, <2>1, <2>2, <2>3, OneMoves
<1>2. CASE guard # None
  <2> DEFINE m == [me[l] EXCEPT !.pc = IF me[l].retry THEN "codex" ELSE "judge",
                                !.visitor = me[l].retry]
  <2>1. me' = [me EXCEPT ![l] = m] /\ guard' = guard /\ helper' = helper
    BY <1>2 DEF Acquire
  <2>2. Fits(l, m, guard', helper')
    BY <2>1, Stays DEF Acquire, Fits, States, Stages
  <2> HIDE DEF m
  <2>3. QED
    BY <1>0, <2>1, <2>2, OneMoves
<1>3. QED
  BY <1>1, <1>2

LEMMA JudgeKeeps ==
    ASSUME IInv, NEW l \in Launchers, Judge(l)
    PROVE  IInv'
<1>1. OutsideOK' /\ setup' = setup
  BY Stays DEF Judge, OutsideOK
<1> DEFINE m == [me[l] EXCEPT !.pc = IF Running THEN "codex" ELSE "stop",
                              !.visitor = Running]
<1>2. me' = [me EXCEPT ![l] = m] /\ guard' = guard /\ helper' = helper
  BY DEF Judge
<1>3. Fits(l, m, guard', helper')
  BY <1>2, Stays DEF Judge, Fits, States, Stages, Running
<1> HIDE DEF m
<1>4. QED
  BY <1>1, <1>2, <1>3, OneMoves

LEMMA StopOthersKeeps ==
    ASSUME IInv, NEW l \in Launchers, StopOthers(l)
    PROVE  IInv'
<1>1. PICK victims \in SUBSET (Launchers \ {l}) :
          /\ me' = [k \in Launchers |->
                      IF k \in victims THEN Gone
                      ELSE IF k = l THEN [me[l] EXCEPT !.pc = "guard", !.retry = TRUE]
                      ELSE me[k]]
          /\ guard' = Without(guard, victims)
          /\ helper' = Without(helper, victims)
          /\ LoseBridge(victims)
  BY DEF StopOthers
<1>2. /\ page' \in PageStates /\ UNCHANGED <<setup, app, status, starts, events>>
      /\ me[l].pc = "stop"
  BY <1>1, Loses DEF StopOthers
<1>3. OutsideOK'
  BY <1>1, <1>2, Stays DEF OutsideOK, Without
<1> DEFINE m == [me[l] EXCEPT !.pc = "guard", !.retry = TRUE]
<1>4. Fits(l, m, guard', helper')
  BY <1>2, Stays DEF Fits, States, Stages
<1>5. m \in States
  BY <1>4 DEF Fits
<1>6. me' = [k \in Launchers |-> IF k \in victims THEN Gone
                                 ELSE IF k = l THEN m ELSE me[k]]
  BY <1>1
<1> HIDE DEF m
<1>7. Gone \in States /\ \A k : Fits(k, Gone, guard', helper')
  BY GoneFits DEF Fits
<1>8. me' \in [Launchers -> States]
  BY <1>5, <1>6, <1>7, Stays
<1>9. \A k \in Launchers :
          \/ /\ me'[k] = me[k]
             /\ guard = k => guard' = k
             /\ helper = k => helper' = k
          \/ Fits(k, me'[k], guard', helper')
  <2> SUFFICES ASSUME NEW k \in Launchers
               PROVE  \/ /\ me'[k] = me[k]
                         /\ guard = k => guard' = k
                         /\ helper = k => helper' = k
                      \/ Fits(k, me'[k], guard', helper')
    OBVIOUS
  <2>1. CASE k \in victims
    BY <2>1, <1>6, <1>7
  <2>2. CASE k = l
    BY <2>2, <1>4, <1>6
  <2>3. CASE k \notin victims /\ k # l
    BY <2>3, <1>1, <1>6 DEF Without
  <2>4. QED
    BY <2>1, <2>2, <2>3
<1>10. QED
  BY <1>2, <1>3, <1>8, <1>9, Moves

LEMMA PrepareKeeps ==
    ASSUME IInv, NEW l \in Launchers, Prepare(l)
    PROVE  IInv'
<1>1. CASE Abort(l)
  BY <1>1, AbortKeeps
<1>2. CASE /\ Become(l, IF setup.enhanced \/ setup.proxy THEN "helper" ELSE "codex")
           /\ UNCHANGED <<setup, guard, helper, app, page, status, starts, events>>
  <2>1. OutsideOK' /\ setup' = setup
    BY <1>2, Stays DEF OutsideOK
  <2> DEFINE m == [me[l] EXCEPT !.pc = IF setup.enhanced \/ setup.proxy
                                       THEN "helper" ELSE "codex"]
  <2>2. me' = [me EXCEPT ![l] = m] /\ guard' = guard /\ helper' = helper
    BY <1>2 DEF Become
  <2>3. Fits(l, m, guard', helper')
    BY <2>2, Stays DEF Prepare, Fits, States, Stages
  <2> HIDE DEF m
  <2>4. QED
    BY <2>1, <2>2, <2>3, OneMoves
<1>3. QED
  BY <1>1, <1>2 DEF Prepare

(* The port may be another launcher's, but not one that serves: this      *)
(* launcher has the guard, so that one is a visitor or on its way out.     *)
LEMMA StartHelperKeeps ==
    ASSUME IInv, NEW l \in Launchers, StartHelper(l)
    PROVE  IInv'
<1>1. CASE Abort(l)
  BY <1>1, AbortKeeps
<1>2. CASE /\ helper' = l
           /\ Become(l, "codex")
           /\ UNCHANGED <<setup, guard, app, page, status, starts, events>>
  <2>1. me[l].pc = "helper" /\ Fits(l, me[l], guard, helper)
    BY Stays DEF StartHelper
  <2>2. guard = l
    BY <2>1 DEF Fits, Stages
  <2>3. OutsideOK' /\ setup' = setup
    BY <1>2, Stays DEF OutsideOK
  <2> DEFINE m == [me[l] EXCEPT !.pc = "codex"]
  <2>4. me' = [me EXCEPT ![l] = m] /\ guard' = guard
    BY <1>2 DEF Become
  <2>5. Fits(l, m, guard', helper')
    BY <1>2, <2>1, <2>4 DEF Fits, States, Stages
  <2>6. m \in States
    BY <2>5 DEF Fits
  <2> HIDE DEF m
  <2>7. me' \in [Launchers -> States] /\ me'[l] = m
        /\ \A k \in Launchers \ {l} : me'[k] = me[k]
    BY <2>4, <2>6, Stays
  <2>8. \A k \in Launchers \ {l} : Fits(k, me[k], guard', helper')
    BY <1>2, <2>2, Stays DEF Fits, Stages
  <2>9. QED
    BY <2>3, <2>5, <2>7, <2>8, Moves
<1>3. QED
  BY <1>1, <1>2 DEF StartHelper

LEMMA LaunchCodexKeeps ==
    ASSUME IInv, NEW l \in Launchers, LaunchCodex(l)
    PROVE  IInv'
<1>1. CASE Abort(l)
  BY <1>1, AbortKeeps
<1>2. CASE ~Abort(l)
  <2> DEFINE m == [me[l] EXCEPT !.pc = IF setup.mac THEN "port" ELSE "open",
                                !.quits = ~Running]
  <2>1. /\ me' = [me EXCEPT ![l] = m] /\ me[l].pc = "codex"
        /\ UNCHANGED <<setup, guard, helper, app, page, status, starts, events>>
    BY <1>2 DEF LaunchCodex
  <2>2. OutsideOK'
    BY <2>1, Stays DEF OutsideOK
  <2>3. Fits(l, m, guard', helper')
    BY <2>1, Stays DEF Fits, States, Stages, Running
  <2> HIDE DEF m
  <2>4. QED
    BY <2>1, <2>2, <2>3, OneMoves
<1>3. QED
  BY <1>1, <1>2

LEMMA FindPortKeeps ==
    ASSUME IInv, NEW l \in Launchers, FindPort(l)
    PROVE  IInv'
<1> DEFINE m == [me[l] EXCEPT !.pc = IF me[l].quits \/ Cdp THEN "open" ELSE "quit",
                              !.quits = me[l].quits \/ ~Cdp]
<1>1. /\ me' = [me EXCEPT ![l] = m] /\ me[l].pc = "port"
      /\ UNCHANGED <<setup, guard, helper, app, page, status, starts, events>>
  BY DEF FindPort
<1>2. OutsideOK'
  BY <1>1, Stays DEF OutsideOK
<1>3. Fits(l, m, guard', helper')
  BY <1>1, Stays DEF Fits, States, Stages, Cdp
<1> HIDE DEF m
<1>4. QED
  BY <1>1, <1>2, <1>3, OneMoves

LEMMA QuitAppKeeps ==
    ASSUME IInv, NEW l \in Launchers, QuitApp(l)
    PROVE  IInv'
<1>1. CASE Abort(l)
  BY <1>1, AbortKeeps
<1>2. CASE ~Abort(l)
  <2> DEFINE m == [me[l] EXCEPT !.pc = "open"]
  <2>1. /\ me' = [me EXCEPT ![l] = m] /\ me[l].pc = "quit"
        /\ UNCHANGED <<setup, guard, helper, status, starts, events>>
        /\ CloseApp \/ UNCHANGED <<app, page>>
    BY <1>2 DEF QuitApp, Become
  <2>2. app' \in AppStates /\ page' \in PageStates
    BY <2>1, Stays, Closes
  <2>3. OutsideOK'
    BY <2>1, <2>2, Stays DEF OutsideOK
  <2>4. Fits(l, m, guard', helper')
    BY <2>1, Stays DEF Fits, States, Stages
  <2> HIDE DEF m
  <2>5. QED
    BY <2>1, <2>3, <2>4, OneMoves
<1>3. QED
  BY <1>1, <1>2

Pcs == Stages \cup {"off", "guard", "judge", "stop", "closing"}

LEMMA OpenAppKeeps ==
    ASSUME IInv, NEW l \in Launchers, OpenApp(l)
    PROVE  IInv'
<1>1. /\ app' \in AppStates /\ page' \in PageStates
      /\ UNCHANGED <<setup, starts, events>> /\ me[l].pc = "open"
  BY Stays, Closes DEF OpenApp
<1>2. CASE me[l].visitor
  <2>1. Vanish({l}) /\ status' \in Statuses
    BY <1>2 DEF OpenApp, Statuses
  <2>2. QED
    BY <1>1, <2>1, Stays, Ends
<1>3. CASE ~me[l].visitor
  <2> DEFINE m == [me[l] EXCEPT !.opened = app'.id,
                                !.pc = IF setup.enhanced THEN "inject" ELSE "ready"]
  <2>1. me' = [me EXCEPT ![l] = m] /\ UNCHANGED <<guard, helper, status>>
    BY <1>3 DEF OpenApp
  <2>2. OutsideOK'
    BY <1>1, <2>1, Stays DEF OutsideOK
  <2>3. app'.id \in Nat
    BY <1>1 DEF AppStates
  <2>4. Fits(l, m, guard', helper')
    <3>1. Fits(l, me[l], guard, helper) /\ me[l] \in States
      BY Stays DEF Fits
    <3> DEFINE place == IF setup.enhanced THEN "inject" ELSE "ready"
               id == app'.id
    <3>2. place \in Pcs /\ id \in Nat /\ place \in {"inject", "ready"}
      BY <2>3 DEF Pcs, Stages
    <3>3. m = [me[l] EXCEPT !.opened = id, !.pc = place]
      OBVIOUS
    <3> HIDE DEF place, id, m
    <3>4. /\ m \in States /\ m.pc = place /\ m.tries = me[l].tries
          /\ m.visitor = me[l].visitor
      BY <3>1, <3>2, <3>3 DEF States, Pcs
    <3>5. me[l].tries = 0
      BY <1>1, <3>1 DEF Fits
    <3>6. QED
      BY <1>1, <2>1, <3>1, <3>2, <3>4, <3>5, LauncherAssumption DEF Fits, Stages
  <2> HIDE DEF m
  <2>5. QED
    BY <1>1, <2>1, <2>2, <2>4, OneMoves
<1>4. QED
  BY <1>2, <1>3

LEMMA InjectKeeps ==
    ASSUME IInv, NEW l \in Launchers, Inject(l)
    PROVE  IInv'
<1> DEFINE last == me[l].tries + 1 = Attempts
<1>1. me[l].pc = "inject" /\ Fits(l, me[l], guard, helper)
  BY Stays DEF Inject
<1>2. CASE Abort(l)
  BY <1>2, AbortKeeps
<1>3. CASE /\ BridgeTo(l) /\ Become(l, "ready")
           /\ UNCHANGED <<setup, guard, helper, app, status, starts, events>>
  <2> DEFINE m == [me[l] EXCEPT !.pc = "ready"]
  <2>1. me' = [me EXCEPT ![l] = m]
    BY <1>3 DEF Become
  <2>2. page' \in PageStates
    BY <1>3, Closes
  <2>3. OutsideOK'
    BY <1>3, <2>2, Stays DEF OutsideOK
  <2>4. Fits(l, m, guard', helper')
    BY <1>1, <1>3 DEF Fits, States, Stages
  <2> HIDE DEF m
  <2>5. QED
    BY <1>3, <2>1, <2>3, <2>4, OneMoves
<1>4. CASE /\ me' = [me EXCEPT ![l].tries = IF last THEN 0 ELSE @ + 1,
                               ![l].pc = IF last THEN "run" ELSE "inject"]
           /\ status' = IF last THEN "running_degraded" ELSE status
           /\ UNCHANGED <<setup, guard, helper, app, page, starts, events>>
  <2> DEFINE place == IF last THEN "run" ELSE "inject"
             n == IF last THEN 0 ELSE me[l].tries + 1
             m == [me[l] EXCEPT !.tries = n, !.pc = place]
  <2>1. me' = [me EXCEPT ![l] = m]
    BY <1>4
  <2>2. OutsideOK'
    <3>1. status' \in Statuses
      BY <1>4, Stays DEF Statuses
    <3>2. QED
      BY <1>4, <3>1, Stays DEF OutsideOK
  <2>3. me[l] \in States /\ me[l].tries \in Nat /\ me[l].tries < Attempts
    BY <1>1 DEF Fits, States
  <2>4. /\ place \in Pcs /\ n \in Nat /\ place \in {"inject", "run"} /\ n < Attempts
        /\ place = "run" => n = 0
    BY <2>3, LauncherAssumption DEF Pcs, Stages
  <2>5. Fits(l, m, guard', helper')
    <3>1. m = [me[l] EXCEPT !.tries = n, !.pc = place]
      OBVIOUS
    <3> HIDE DEF place, n, m
    <3>2. m \in States /\ m.pc = place /\ m.tries = n /\ m.visitor = me[l].visitor
      BY <2>3, <2>4, <3>1 DEF States, Pcs
    <3>3. QED
      BY <1>1, <1>4, <2>4, <3>2 DEF Fits, Stages, Polls
  <2> HIDE DEF m
  <2>6. QED
    BY <1>4, <2>1, <2>2, <2>5, OneMoves
<1>5. QED
  BY <1>2, <1>3, <1>4 DEF Inject

LEMMA ReadyKeeps ==
    ASSUME IInv, NEW l \in Launchers, Ready(l)
    PROVE  IInv'
<1>1. CASE Abort(l)
  BY <1>1, AbortKeeps
<1>2. CASE ~Abort(l)
  <2> DEFINE m == [me[l] EXCEPT !.pc = "run", !.tries = 0,
                     !.watch.step = IF setup.enhanced THEN "idle" ELSE "off"]
  <2>1. /\ me' = [me EXCEPT ![l] = m] /\ status' = "running" /\ me[l].pc = "ready"
        /\ UNCHANGED <<setup, guard, helper, app, page, starts, events>>
    BY <1>2 DEF Ready
  <2>2. OutsideOK'
    BY <2>1, Stays DEF OutsideOK, Statuses
  <2>3. Fits(l, m, guard', helper')
    <3>1. Fits(l, me[l], guard, helper) /\ me[l] \in States /\ me[l].watch \in Watches
      BY Stays DEF Fits, States
    <3> DEFINE step == IF setup.enhanced THEN "idle" ELSE "off"
               w == [me[l].watch EXCEPT !.step = step]
    <3>2. w \in Watches
      BY <3>1 DEF Watches
    <3>3. m = [me[l] EXCEPT !.pc = "run", !.tries = 0, !.watch = w]
      BY <3>1 DEF States
    <3> HIDE DEF w, m
    <3>4. m \in States /\ m.pc = "run" /\ m.tries = 0 /\ m.visitor = me[l].visitor
      BY <3>1, <3>2, <3>3 DEF States, Stages
    <3>5. QED
      BY <2>1, <3>1, <3>4 DEF Fits, Stages, Polls
  <2> HIDE DEF m
  <2>4. QED
    BY <2>1, <2>2, <2>3, OneMoves
<1>3. QED
  BY <1>1, <1>2

(* A step of the watchdog changes nothing of the launch.                   *)
LEMMA WatchMoves ==
    ASSUME IInv, NEW l \in Launchers, NEW w \in Watches, NEW m,
           m = [me[l] EXCEPT !.watch = w], me' = [me EXCEPT ![l] = m],
           OutsideOK', UNCHANGED <<setup, guard, helper>>
    PROVE  IInv'
<1>1. Fits(l, me[l], guard, helper) /\ me[l] \in States
  BY Stays DEF Fits
<1>2. /\ m \in States /\ m.pc = me[l].pc /\ m.tries = me[l].tries
      /\ m.visitor = me[l].visitor
  BY <1>1 DEF States
<1>3. Fits(l, m, guard', helper')
  BY <1>1, <1>2 DEF Fits
<1>4. QED
  BY <1>3, OneMoves

LEMMA TickKeeps ==
    ASSUME IInv, NEW l \in Launchers, Tick(l)
    PROVE  IInv'
<1> DEFINE changed == Cdp /\ me[l].watch.seen \notin {0, app.id}
           step == IF changed THEN "reinject" ELSE "probe"
           seen == IF Cdp THEN app.id ELSE me[l].watch.seen
           fails == IF changed THEN Threshold ELSE me[l].watch.fails
           w == [step |-> step, seen |-> seen, fails |-> fails]
           m == [me[l] EXCEPT !.watch = w]
<1>1. me' = [me EXCEPT ![l] = m] /\ OutsideOK' /\ UNCHANGED <<setup, guard, helper>>
  BY Stays DEF Tick, OutsideOK
<1>2. me[l].watch \in Watches /\ app.id \in Nat
  BY Stays DEF Fits, States
<1>3. step \in {"off", "idle", "probe", "reinject"} /\ seen \in Nat
      /\ fails \in 0..Threshold
  BY <1>2 DEF Watches, Threshold
<1> HIDE DEF step, seen, fails
<1>4. w \in Watches
  BY <1>3 DEF Watches
<1> HIDE DEF w
<1>5. m = [me[l] EXCEPT !.watch = w]
  OBVIOUS
<1> HIDE DEF m
<1>6. QED
  BY <1>1, <1>4, <1>5, WatchMoves

LEMMA ProbeKeeps ==
    ASSUME IInv, NEW l \in Launchers, Probe(l)
    PROVE  IInv'
<1> DEFINE fails == IF ~Cdp \/ page.busy \/ page.beat THEN 0
                    ELSE IF me[l].watch.fails < Threshold
                         THEN me[l].watch.fails + 1 ELSE Threshold
           step == IF fails = Threshold THEN "reinject" ELSE "idle"
           w == [me[l].watch EXCEPT !.fails = fails, !.step = step]
           m == [me[l] EXCEPT !.watch = w]
<1>1. me[l] \in States /\ me[l].watch \in Watches /\ me \in [Launchers -> States]
  BY Stays DEF Fits, States
<1>2. OutsideOK' /\ UNCHANGED <<setup, guard, helper>>
  BY Stays DEF Probe, OutsideOK
<1>3. me' = [me EXCEPT ![l].watch.fails = fails, ![l].watch.step = step]
  BY DEF Probe
<1>4. fails \in 0..Threshold /\ step \in {"off", "idle", "probe", "reinject"}
  BY <1>1 DEF Watches, Threshold
<1> HIDE DEF fails, step
<1>5. w \in Watches
  BY <1>1, <1>4 DEF Watches
<1>6. me' = [me EXCEPT ![l] = m]
  BY <1>1, <1>3 DEF States, Watches
<1> HIDE DEF w
<1>7. m = [me[l] EXCEPT !.watch = w]
  OBVIOUS
<1> HIDE DEF m
<1>8. QED
  BY <1>2, <1>5, <1>6, <1>7, WatchMoves

LEMMA ReinjectKeeps ==
    ASSUME IInv, NEW l \in Launchers, Reinject(l)
    PROVE  IInv'
<1> DEFINE n == IF Cdp /\ ~page.busy THEN 0 ELSE me[l].watch.fails
           w == [me[l].watch EXCEPT !.step = "idle", !.fails = n]
           m == [me[l] EXCEPT !.watch = w]
<1>1. me[l] \in States /\ me[l].watch \in Watches /\ me \in [Launchers -> States]
  BY Stays DEF Fits, States
<1>2. page' \in PageStates
  BY Stays, Closes DEF Reinject
<1>3. OutsideOK' /\ UNCHANGED <<setup, guard, helper>>
  BY <1>2, Stays DEF Reinject, OutsideOK
<1>4. n \in 0..Threshold
  BY <1>1 DEF Watches, Threshold
<1>5. w \in Watches
  BY <1>1, <1>4 DEF Watches
<1>6. me' = [me EXCEPT ![l] = m]
  <2>1. CASE Cdp /\ ~page.busy
    BY <1>1, <2>1 DEF Reinject, States, Watches
  <2>2. CASE ~(Cdp /\ ~page.busy)
    BY <1>1, <2>2 DEF Reinject, States, Watches
  <2>3. QED
    BY <2>1, <2>2
<1> HIDE DEF w
<1>7. m = [me[l] EXCEPT !.watch = w]
  OBVIOUS
<1> HIDE DEF m
<1>8. QED
  BY <1>3, <1>5, <1>6, <1>7, WatchMoves

LEMMA PollKeeps ==
    ASSUME IInv, NEW l \in Launchers, Poll(l)
    PROVE  IInv'
<1>1. /\ me[l] \in States /\ me[l].pc = "run" /\ me[l].tries \in Nat
      /\ me[l].tries < Polls /\ Fits(l, me[l], guard, helper)
  BY Stays DEF Poll, Fits, States
<1>2. OutsideOK' /\ UNCHANGED <<setup, guard, helper>>
  BY Stays DEF Poll, OutsideOK
<1> DEFINE n == IF Running \/ me[l].tries + 1 = Polls THEN 0 ELSE me[l].tries + 1
           place == IF ~Running /\ me[l].tries + 1 = Polls THEN "closing" ELSE "run"
           m == [me[l] EXCEPT !.tries = n, !.pc = place]
<1>3. n \in Nat /\ n < Polls /\ place \in Pcs /\ place \in {"closing", "run"}
  BY <1>1 DEF Pcs, Stages, Polls
<1>4. me' = [me EXCEPT ![l] = m]
  BY DEF Poll
<1>5. m = [me[l] EXCEPT !.tries = n, !.pc = place]
  OBVIOUS
<1> HIDE DEF place, n, m
<1>6. m \in States /\ m.pc = place /\ m.tries = n /\ m.visitor = me[l].visitor
  BY <1>1, <1>3, <1>5 DEF States, Pcs
<1>7. Fits(l, m, guard', helper')
  BY <1>1, <1>2, <1>3, <1>6 DEF Fits, Stages
<1>8. QED
  BY <1>2, <1>4, <1>7, OneMoves

LEMMA CloseKeeps ==
    ASSUME IInv, NEW l \in Launchers, Close(l)
    PROVE  IInv'
<1>1. /\ Vanish({l}) /\ LoseBridge({l}) /\ UNCHANGED <<setup, app, status, starts, events>>
  BY DEF Close
<1>2. page' \in PageStates
  BY <1>1, Loses
<1>3. QED
  BY <1>1, <1>2, Stays, Ends

-----------------------------------------------------------------------------
(* What happens outside.                                                   *)
LEMMA OthersKeep ==
    ASSUME IInv, UNCHANGED <<setup, me, guard>>, OutsideOK',
           helper' = helper \/ helper \notin Launchers
    PROVE  IInv'
  BY Moves, Stays

LEMMA OutsideKeeps ==
    ASSUME IInv,
           AppReady \/ PageAnswers \/ BeatFades \/ BeatReturns \/ PortReleased \/ Outside
    PROVE  IInv'
<1>1. CASE AppReady
  <2>1. app' \in AppStates
    BY <1>1, Stays DEF AppReady, AppStates
  <2>2. OutsideOK'
    BY <1>1, <2>1, Stays DEF AppReady, OutsideOK, AppStates
  <2>3. QED
    BY <1>1, <2>2, OthersKeep DEF AppReady
<1>2. CASE PageAnswers \/ BeatFades \/ BeatReturns
  <2>1. UNCHANGED <<setup, me, guard, helper, app, status, starts, events>>
    BY <1>2 DEF PageAnswers, BeatFades, BeatReturns
  <2>2. page' \in PageStates
    BY <1>2, Stays DEF PageAnswers, BeatFades, BeatReturns, PageStates
  <2>3. OutsideOK'
    BY <2>1, <2>2, Stays DEF OutsideOK
  <2>4. QED
    BY <2>1, <2>3, OthersKeep
<1>3. CASE PortReleased
  <2>1. OutsideOK'
    BY <1>3, Stays DEF PortReleased, OutsideOK
  <2>2. helper \notin Launchers
    BY <1>3, LauncherAssumption DEF PortReleased
  <2>3. QED
    BY <1>3, <2>1, <2>2, OthersKeep DEF PortReleased
<1>4. CASE Outside
  <2>1. events' \in 0..MaxEvents /\ starts' = starts /\ starts' \in 0..MaxStarts
    BY <1>4, Stays, LauncherAssumption DEF Outside
  <2>2. CASE AppEvent
    <3>1. UNCHANGED <<setup, me, guard, helper, status>>
      BY <2>2 DEF AppEvent
    <3>2. app' \in AppStates /\ page' \in PageStates
      <4>1. CASE Running /\ CloseApp
        BY <4>1, Closes
      <4>2. CASE Cdp /\ NewApp /\ FreshPage
        BY <4>2, Closes
      <4>3. CASE ~Running /\ app' = [at |-> "plain", id |-> app.id + 1] /\ FreshPage
        BY <4>3, Closes, Stays DEF AppStates
      <4>4. CASE Cdp /\ (FreshPage \/ LoseBridge(Launchers)) /\ UNCHANGED app
        BY <4>4, Stays, Closes, Loses
      <4>5. CASE Cdp /\ page' = [page EXCEPT !.beat = FALSE, !.sound = FALSE] /\ UNCHANGED app
        BY <4>5, Stays DEF PageStates
      <4>6. CASE Cdp /\ page' = [page EXCEPT !.busy = TRUE] /\ UNCHANGED app
        BY <4>6, Stays DEF PageStates
      <4>7. QED
        BY <2>2, <4>1, <4>2, <4>3, <4>4, <4>5, <4>6 DEF AppEvent
    <3>3. OutsideOK'
      BY <2>1, <3>1, <3>2, Stays DEF OutsideOK
    <3>4. QED
      BY <3>1, <3>3, OthersKeep
  <2>3. CASE SystemEvent
    <3>1. UNCHANGED <<setup, app, status>>
      BY <2>3 DEF SystemEvent
    <3>2. CASE \E l \in Launchers : me[l].pc # "off" /\ Vanish({l}) /\ LoseBridge({l})
      <4>1. PICK l \in Launchers : Vanish({l}) /\ LoseBridge({l})
        BY <3>2
      <4>2. page' \in PageStates
        BY <4>1, Loses
      <4>3. QED
        BY <2>1, <3>1, <4>1, <4>2, Stays, Ends
    <3>3. CASE helper = None /\ helper' = Other /\ UNCHANGED <<me, guard, page>>
      <4>1. OutsideOK' /\ helper \notin Launchers
        BY <2>1, <3>1, <3>3, Stays, LauncherAssumption DEF OutsideOK
      <4>2. QED
        BY <3>1, <3>3, <4>1, OthersKeep
    <3>4. QED
      BY <2>3, <3>2, <3>3 DEF SystemEvent
  <2>4. QED
    BY <1>4, <2>2, <2>3 DEF Outside
<1>5. QED
  BY <1>1, <1>2, <1>3, <1>4

-----------------------------------------------------------------------------
LEMMA Initially == Init => IInv
<1> SUFFICES ASSUME Init PROVE IInv
  OBVIOUS
<1>1. OutsideOK
  BY LauncherAssumption DEF Init, OutsideOK, NoPage, AppStates, PageStates, Statuses
<1>2. me \in [Launchers -> States] /\ \A l \in Launchers : Fits(l, me[l], guard, helper)
  BY GoneFits DEF Init, Fits
<1>3. QED
  BY <1>1, <1>2, InvByLauncher

LEMMA Kept == IInv /\ [Next]_vars => IInv'
<1> SUFFICES ASSUME IInv, [Next]_vars PROVE IInv'
  OBVIOUS
<1>1. ASSUME NEW l \in Launchers, Start(l) PROVE IInv'
  BY <1>1, StartKeeps
<1>2. ASSUME NEW l \in Launchers, Launching(l) PROVE IInv'
  BY <1>2, AcquireKeeps, JudgeKeeps, StopOthersKeeps, PrepareKeeps, StartHelperKeeps,
     LaunchCodexKeeps, FindPortKeeps, QuitAppKeeps, OpenAppKeeps, InjectKeeps, ReadyKeeps
     DEF Launching
<1>3. ASSUME NEW l \in Launchers, Watching(l) PROVE IInv'
  BY <1>3, TickKeeps, ProbeKeeps, ReinjectKeeps DEF Watching
<1>4. ASSUME NEW l \in Launchers, Leaving(l) PROVE IInv'
  BY <1>4, PollKeeps, CloseKeeps DEF Leaving
<1>5. CASE AppReady \/ PageAnswers \/ BeatFades \/ BeatReturns \/ PortReleased \/ Outside
  BY <1>5, OutsideKeeps
<1>6. CASE UNCHANGED vars
  <2>1. OutsideOK' /\ UNCHANGED <<setup, me, guard, helper>>
    BY <1>6, Stays DEF vars, OutsideOK
  <2>2. QED
    BY <2>1, OthersKeep
<1>7. QED
  BY <1>1, <1>2, <1>3, <1>4, <1>5, <1>6 DEF Next

(***************************************************************************)
(* However launchers start, take each other for stale, stop each other and *)
(* fail, at most one of them serves; and the one that serves has the       *)
(* helper's port from before it opens the app for as long as it serves, so *)
(* that the app's requests reach it (acquire_single_instance_guard_with_   *)
(* retry and launch_and_inject).                                           *)
(***************************************************************************)
THEOREM ServiceHeld == Spec => []ServiceHolds
<1>1. IInv => ServiceHolds
  <2> SUFFICES ASSUME IInv PROVE ServiceHolds
    OBVIOUS
  <2>1. OneServes
    BY DEF IInv, GuardHeld, OneServes, Serving
  <2>2. QED
    BY <2>1 DEF IInv, ServiceHolds
<1>2. QED
  BY <1>1, Initially, Kept, PTL DEF Spec

-----------------------------------------------------------------------------
(***************************************************************************)
(* What works is left alone.  A watchdog watches from the launch on; what  *)
(* it saw of the app is no older than what its launcher opened; and while  *)
(* that is still the app, it injects only a page that it has not injected  *)
(* or that has not been sound ever since.                                  *)
(***************************************************************************)
Sound == IF page.sound THEN page.bridge ELSE None

Attends(l, m, id, sound) ==
    /\ m.pc \notin {"run", "closing"} => m.watch.step = "off" /\ m.watch.seen = 0
    /\ m.opened <= id
    /\ m.watch.seen # 0 => m.opened <= m.watch.seen /\ m.watch.seen <= id
    /\ m.watch.step = "reinject" /\ m.opened = id => sound # l

WatchInv == \A l \in Launchers : Attends(l, me[l], app.id, Sound)

LEMMA GoneWatches == \A l, b : \A id \in Nat : Attends(l, Gone, id, b)
  BY DEF Attends, Gone, NoWatch

(* A new app and a page no longer sound change nothing for a watchdog.     *)
LEMMA StillWatches ==
    ASSUME NEW l, NEW m \in States, NEW id \in Nat, NEW b, Attends(l, m, id, b),
           NEW j \in Nat, id <= j, NEW c, c = l => b = l
    PROVE  Attends(l, m, j, c)
<1>1. m.opened \in Nat /\ m.watch.seen \in Nat
  BY DEF States, Watches
<1>2. QED
  BY <1>1 DEF Attends

LEMMA WatchMovesOn ==
    ASSUME IInv, WatchInv, app' \in AppStates, app.id <= app'.id,
           \A l \in Launchers :
              \/ me'[l] = me[l] /\ (Sound' = l => Sound = l)
              \/ Attends(l, me'[l], app'.id, Sound')
    PROVE  WatchInv'
<1>1. app'.id \in Nat /\ app.id \in Nat /\ \A l \in Launchers : me[l] \in States
  BY Stays DEF AppStates, Fits
<1>2. ASSUME NEW l \in Launchers PROVE Attends(l, me'[l], app'.id, Sound')
  <2>1. CASE me'[l] = me[l] /\ (Sound' = l => Sound = l)
    <3>1. Attends(l, me[l], app.id, Sound)
      BY DEF WatchInv
    <3>2. Attends(l, me[l], app'.id, Sound')
      BY <1>1, <2>1, <3>1, StillWatches
    <3>3. QED
      BY <2>1, <3>2
  <2>2. QED
    BY <2>1
<1>3. QED
  BY <1>2 DEF WatchInv

(* A step of one launcher that leaves the app and its page.                *)
LEMMA OneWatches ==
    ASSUME IInv, WatchInv, NEW l \in Launchers, NEW m, me' = [me EXCEPT ![l] = m],
           UNCHANGED <<app, page>>, Attends(l, m, app.id, Sound)
    PROVE  WatchInv'
<1>1. app' \in AppStates /\ app.id <= app'.id /\ me \in [Launchers -> States]
  BY Stays
<1>2. me'[l] = m /\ \A k \in Launchers : k # l => me'[k] = me[k]
  BY <1>1
<1>3. Sound' = Sound
  BY DEF Sound
<1>4. QED
  BY <1>1, <1>2, <1>3, WatchMovesOn

(* The same for one before its watchdog starts, wherever it goes next.     *)
LEMMA EarlyWatches ==
    ASSUME IInv, WatchInv, NEW l \in Launchers, NEW m, me' = [me EXCEPT ![l] = m],
           UNCHANGED <<app, page>>, me[l].pc \notin {"run", "closing"},
           m.watch = me[l].watch, m.opened = me[l].opened
    PROVE  WatchInv'
<1>1. Attends(l, me[l], app.id, Sound)
  BY DEF WatchInv
<1>2. Attends(l, m, app.id, Sound)
  BY <1>1 DEF Attends
<1>3. QED
  BY <1>2, OneWatches

(* Processes that end take their bridge along, and make no other sound.    *)
LEMMA EndWatches ==
    ASSUME IInv, WatchInv, NEW S \in SUBSET Launchers, Vanish(S), app' \in AppStates,
           app.id <= app'.id, Sound' \in {None, Sound}
    PROVE  WatchInv'
<1>1. app'.id \in Nat
  BY DEF AppStates
<1>2. \A l \in Launchers : Sound' = l => Sound = l
  BY LauncherAssumption
<1>3. \A l \in Launchers : IF l \in S THEN me'[l] = Gone ELSE me'[l] = me[l]
  BY DEF Vanish
<1>4. QED
  BY <1>1, <1>2, <1>3, GoneWatches, WatchMovesOn

LEMMA AppMoves ==
    ASSUME IInv
    PROVE  /\ app \in AppStates /\ app.id <= app.id /\ page \in PageStates
           /\ CloseApp => app' \in AppStates /\ app'.id = app.id /\ Sound' = None
           /\ NewApp => app' \in AppStates /\ app.id <= app'.id
           /\ FreshPage => Sound' = None
           /\ \A S : LoseBridge(S) => Sound' \in {None, Sound}
           /\ \A l \in Launchers : BridgeTo(l) => Sound' = l
           /\ UNCHANGED page => Sound' = Sound
<1>1. app \in AppStates /\ page \in PageStates /\ app.id \in Nat
  BY Stays
<1>2. FreshPage => Sound' = None
  BY DEF FreshPage, NoPage, Sound
<1>3. ASSUME NEW S, LoseBridge(S) PROVE Sound' \in {None, Sound}
  <2> DEFINE b == Without(page.bridge, S)
             sound == page.sound /\ page.bridge \notin S
  <2>1. page' = [page EXCEPT !.bridge = b, !.sound = sound]
    BY <1>3 DEF LoseBridge
  <2>2. sound => page.sound /\ b = page.bridge
    BY DEF Without
  <2> HIDE DEF b, sound
  <2>3. page'.bridge = b /\ page'.sound = sound
    BY <1>1, <2>1 DEF PageStates
  <2>4. QED
    BY <2>2, <2>3 DEF Sound
<1>4. \A l \in Launchers : BridgeTo(l) => Sound' = l
  BY DEF BridgeTo, Sound
<1>5. QED
  BY <1>1, <1>2, <1>3, <1>4, Closes DEF CloseApp, NewApp, Sound, AppStates

LEMMA AbortWatches ==
    ASSUME IInv, WatchInv, NEW l \in Launchers, Abort(l)
    PROVE  WatchInv'
<1>1. /\ app' \in AppStates /\ app.id <= app'.id
      /\ Sound' \in {None, Sound}
  BY AppMoves, Stays DEF Abort
<1>2. Vanish({l})
  BY DEF Abort
<1>3. QED
  BY <1>1, <1>2, EndWatches

LEMMA StopOthersWatches ==
    ASSUME IInv, WatchInv, NEW l \in Launchers, StopOthers(l)
    PROVE  WatchInv'
<1>1. PICK victims \in SUBSET (Launchers \ {l}) :
          /\ me' = [k \in Launchers |->
                      IF k \in victims THEN Gone
                      ELSE IF k = l THEN [me[l] EXCEPT !.pc = "guard", !.retry = TRUE]
                      ELSE me[k]]
          /\ LoseBridge(victims)
  BY DEF StopOthers
<1>2. /\ UNCHANGED app /\ me[l].pc = "stop" /\ me[l] \in States /\ app.id \in Nat
      /\ app' \in AppStates /\ app.id <= app'.id
  BY Stays DEF StopOthers, Fits
<1>3. \A k \in Launchers : Sound' = k => Sound = k
  BY <1>1, AppMoves, LauncherAssumption
<1> DEFINE m == [me[l] EXCEPT !.pc = "guard", !.retry = TRUE]
<1>4. Attends(l, m, app'.id, Sound')
  BY <1>2 DEF WatchInv, Attends, States
<1>5. me' = [k \in Launchers |-> IF k \in victims THEN Gone
                                 ELSE IF k = l THEN m ELSE me[k]]
  BY <1>1
<1> HIDE DEF m
<1>6. ASSUME NEW k \in Launchers
      PROVE  \/ me'[k] = me[k] /\ (Sound' = k => Sound = k)
             \/ Attends(k, me'[k], app'.id, Sound')
  <2>1. CASE k \in victims
    BY <1>2, <1>5, <2>1, GoneWatches
  <2>2. CASE k = l
    BY <1>4, <1>5, <2>2
  <2>3. CASE k \notin victims /\ k # l
    BY <1>3, <1>5, <2>3
  <2>4. QED
    BY <2>1, <2>2, <2>3
<1>7. QED
  BY <1>2, <1>6, WatchMovesOn

LEMMA LaunchWatches ==
    ASSUME IInv, WatchInv, NEW l \in Launchers,
           Start(l) \/ Acquire(l) \/ Judge(l) \/ Prepare(l) \/ StartHelper(l)
    PROVE  WatchInv'
<1>1. me[l] \in States /\ me \in [Launchers -> States]
  BY Stays DEF Fits
<1>2. CASE Start(l)
  <2> DEFINE m == [me[l] EXCEPT !.pc = "guard"]
  <2>1. me' = [me EXCEPT ![l] = m] /\ UNCHANGED <<app, page>> /\ me[l].pc = "off"
    BY <1>2 DEF Start
  <2>2. m.watch = me[l].watch /\ m.opened = me[l].opened
    BY <1>1 DEF States
  <2> HIDE DEF m
  <2>3. QED
    BY <2>1, <2>2, EarlyWatches
<1>3. CASE Acquire(l) \/ Judge(l)
  <2>1. PICK place, v : me' = [me EXCEPT ![l].pc = place, ![l].visitor = v]
    <3>1. CASE Acquire(l) /\ guard = None
      <4>1. me' = [me EXCEPT ![l].pc = "sync"]
        BY <3>1 DEF Acquire, Become
      <4>2. me' = [me EXCEPT ![l].pc = "sync", ![l].visitor = me[l].visitor]
        BY <1>1, <4>1 DEF States
      <4>3. QED
        BY <4>2
    <3>2. CASE Acquire(l) /\ guard # None
      BY <3>2 DEF Acquire
    <3>3. CASE Judge(l)
      BY <3>3 DEF Judge
    <3>4. QED
      BY <1>3, <3>1, <3>2, <3>3
  <2> DEFINE m == [me[l] EXCEPT !.pc = place, !.visitor = v]
  <2>2. me' = [me EXCEPT ![l] = m] /\ UNCHANGED <<app, page>> /\ me[l].pc \in {"guard", "judge"}
    BY <1>3, <2>1 DEF Acquire, Judge
  <2>3. m.watch = me[l].watch /\ m.opened = me[l].opened
    BY <1>1 DEF States
  <2> HIDE DEF m
  <2>4. QED
    BY <2>2, <2>3, EarlyWatches
<1>4. CASE (Prepare(l) \/ StartHelper(l)) /\ ~Abort(l)
  <2>1. PICK place : me' = [me EXCEPT ![l].pc = place]
    BY <1>4 DEF Prepare, StartHelper, Become
  <2> DEFINE m == [me[l] EXCEPT !.pc = place]
  <2>2. me' = [me EXCEPT ![l] = m] /\ UNCHANGED <<app, page>> /\ me[l].pc \in {"sync", "helper"}
    BY <1>4, <2>1 DEF Prepare, StartHelper
  <2>3. m.watch = me[l].watch /\ m.opened = me[l].opened
    BY <1>1 DEF States
  <2> HIDE DEF m
  <2>4. QED
    BY <2>2, <2>3, EarlyWatches
<1>5. QED
  BY <1>2, <1>3, <1>4, AbortWatches

LEMMA OpeningWatches ==
    ASSUME IInv, WatchInv, NEW l \in Launchers,
           LaunchCodex(l) \/ FindPort(l) \/ QuitApp(l) \/ OpenApp(l)
    PROVE  WatchInv'
<1>1. /\ me[l] \in States /\ me \in [Launchers -> States] /\ app.id \in Nat
      /\ Attends(l, me[l], app.id, Sound)
  BY Stays DEF Fits, WatchInv
<1>2. CASE (LaunchCodex(l) \/ FindPort(l) \/ QuitApp(l)) /\ ~Abort(l)
  <2>1. PICK place, q : me' = [me EXCEPT ![l].pc = place, ![l].quits = q]
    <3>1. CASE QuitApp(l)
      <4>1. me' = [me EXCEPT ![l].pc = "open"]
        BY <1>2, <3>1 DEF QuitApp, Become
      <4>2. me' = [me EXCEPT ![l].pc = "open", ![l].quits = me[l].quits]
        BY <1>1, <4>1 DEF States
      <4>3. QED
        BY <4>2
    <3>2. CASE LaunchCodex(l) \/ FindPort(l)
      BY <1>2, <3>2 DEF LaunchCodex, FindPort
    <3>3. QED
      BY <1>2, <3>1, <3>2
  <2> DEFINE m == [me[l] EXCEPT !.pc = place, !.quits = q]
  <2>2. /\ me' = [me EXCEPT ![l] = m] /\ me[l].pc \in {"codex", "port", "quit"}
        /\ CloseApp \/ UNCHANGED <<app, page>>
    BY <1>2, <2>1 DEF LaunchCodex, FindPort, QuitApp
  <2>3. m.watch = me[l].watch /\ m.opened = me[l].opened
    BY <1>1 DEF States
  <2> HIDE DEF m
  <2>4. /\ app' \in AppStates /\ app'.id = app.id
        /\ \A k \in Launchers : Sound' = k => Sound = k
    BY <2>2, AppMoves, LauncherAssumption
  <2>5. Attends(l, m, app'.id, Sound')
    BY <1>1, <2>2, <2>3, <2>4 DEF Attends
  <2>6. me'[l] = m /\ \A k \in Launchers : k # l => me'[k] = me[k]
    BY <1>1, <2>2
  <2>7. app.id <= app'.id
    BY <1>1, <2>4
  <2>8. QED
    BY <2>4, <2>5, <2>6, <2>7, WatchMovesOn
<1>3. CASE OpenApp(l)
  <2>1. /\ app' \in AppStates /\ app.id <= app'.id /\ app'.id \in Nat
        /\ Sound' \in {None, Sound} /\ me[l].pc = "open"
    BY <1>3, AppMoves DEF OpenApp, AppStates
  <2>2. CASE me[l].visitor
    BY <1>3, <2>1, <2>2, EndWatches DEF OpenApp
  <2>3. CASE ~me[l].visitor
    <3> DEFINE place == IF setup.enhanced THEN "inject" ELSE "ready"
               m == [me[l] EXCEPT !.opened = app'.id, !.pc = place]
    <3>1. me' = [me EXCEPT ![l] = m]
      BY <1>3, <2>3 DEF OpenApp
    <3>2. m.watch = me[l].watch /\ m.opened = app'.id
      BY <1>1 DEF States
    <3> HIDE DEF m
    <3>3. Attends(l, m, app'.id, Sound')
      BY <1>1, <2>1, <3>2 DEF Attends
    <3>4. me'[l] = m /\ \A k \in Launchers : k # l => me'[k] = me[k]
      BY <1>1, <3>1
    <3>5. \A k \in Launchers : Sound' = k => Sound = k
      BY <2>1, LauncherAssumption
    <3>6. QED
      BY <2>1, <3>3, <3>4, <3>5, WatchMovesOn
  <2>4. QED
    BY <2>2, <2>3
<1>4. QED
  BY <1>2, <1>3, AbortWatches

LEMMA InjectingWatches ==
    ASSUME IInv, WatchInv, NEW l \in Launchers, Inject(l) \/ Ready(l)
    PROVE  WatchInv'
<1>1. /\ me[l] \in States /\ me \in [Launchers -> States] /\ app.id \in Nat
      /\ Attends(l, me[l], app.id, Sound) /\ page \in PageStates
      /\ app \in AppStates /\ app.id <= app.id
  BY Stays DEF Fits, WatchInv
<1>2. CASE Inject(l) /\ Cdp /\ ~page.busy
  <2> DEFINE m == [me[l] EXCEPT !.pc = "ready"]
  <2>1. /\ me' = [me EXCEPT ![l] = m] /\ me[l].pc = "inject" /\ app' = app
        /\ BridgeTo(l)
    BY <1>2 DEF Inject, Become
  <2>2. m.watch = me[l].watch /\ m.opened = me[l].opened /\ Sound' = l
    BY <1>1, <2>1, AppMoves DEF States
  <2> HIDE DEF m
  <2>3. Attends(l, m, app'.id, Sound')
    BY <1>1, <2>1, <2>2 DEF Attends
  <2>4. me'[l] = m /\ \A k \in Launchers : k # l => me'[k] = me[k]
    BY <1>1, <2>1
  <2>5. QED
    BY <1>1, <2>1, <2>2, <2>3, <2>4, WatchMovesOn
<1>3. CASE Inject(l) /\ ~(Cdp /\ ~page.busy) /\ ~Abort(l)
  <2>1. PICK place, n : me' = [me EXCEPT ![l].tries = n, ![l].pc = place]
    BY <1>3 DEF Inject
  <2> DEFINE m == [me[l] EXCEPT !.tries = n, !.pc = place]
  <2>2. me' = [me EXCEPT ![l] = m] /\ UNCHANGED <<app, page>> /\ me[l].pc = "inject"
    BY <1>3, <2>1 DEF Inject
  <2>3. m.watch = me[l].watch /\ m.opened = me[l].opened
    BY <1>1 DEF States
  <2> HIDE DEF m
  <2>4. QED
    BY <2>2, <2>3, EarlyWatches
<1>4. CASE Ready(l) /\ ~Abort(l)
  <2> DEFINE step == IF setup.enhanced THEN "idle" ELSE "off"
             w == [me[l].watch EXCEPT !.step = step]
             m == [me[l] EXCEPT !.pc = "run", !.tries = 0, !.watch = w]
  <2>1. me' = [me EXCEPT ![l].pc = "run", ![l].tries = 0, ![l].watch.step = step]
    BY <1>4 DEF Ready
  <2>2. me' = [me EXCEPT ![l] = m]
    BY <1>1, <2>1 DEF States
  <2>3. /\ UNCHANGED <<app, page>> /\ me[l].pc = "ready" /\ m.opened = me[l].opened
        /\ m.watch.seen = me[l].watch.seen /\ m.watch.step \in {"idle", "off"} /\ m.pc = "run"
    BY <1>1, <1>4 DEF Ready, States, Watches
  <2> HIDE DEF m
  <2>4. Attends(l, m, app.id, Sound)
    BY <1>1, <2>3 DEF Attends
  <2>5. QED
    BY <2>2, <2>3, <2>4, OneWatches
<1>5. QED
  BY <1>2, <1>3, <1>4, AbortWatches DEF Inject, Ready

LEMMA WatchingWatches ==
    ASSUME IInv, WatchInv, NEW l \in Launchers, Watching(l)
    PROVE  WatchInv'
<1>1. /\ me[l] \in States /\ me \in [Launchers -> States] /\ app.id \in Nat
      /\ Attends(l, me[l], app.id, Sound) /\ page \in PageStates
      /\ app \in AppStates /\ app.id <= app.id /\ me[l].watch \in Watches
      /\ me[l].watch.seen \in Nat /\ me[l].opened \in Nat
  BY Stays DEF Fits, WatchInv, States, Watches
<1>2. CASE Tick(l)
  <2> DEFINE changed == Cdp /\ me[l].watch.seen \notin {0, app.id}
             step == IF changed THEN "reinject" ELSE "probe"
             seen == IF Cdp THEN app.id ELSE me[l].watch.seen
             fails == IF changed THEN Threshold ELSE me[l].watch.fails
             w == [step |-> step, seen |-> seen, fails |-> fails]
             m == [me[l] EXCEPT !.watch = w]
  <2>1. me' = [me EXCEPT ![l] = m] /\ UNCHANGED <<app, page>> /\ me[l].pc = "run"
    BY <1>2 DEF Tick
  <2>2. m.watch.step = step /\ m.watch.seen = seen /\ m.opened = me[l].opened /\ m.pc = "run"
    BY <1>1, <2>1 DEF States
  <2>3. /\ seen # 0 => me[l].opened <= seen /\ seen <= app.id
        /\ step = "reinject" => me[l].opened # app.id
    BY <1>1 DEF Attends
  <2> HIDE DEF m
  <2>4. Attends(l, m, app.id, Sound)
    BY <1>1, <2>2, <2>3 DEF Attends
  <2>5. QED
    BY <2>1, <2>4, OneWatches
<1>3. CASE Probe(l)
  <2> DEFINE fails == IF ~Cdp \/ page.busy \/ page.beat THEN 0
                      ELSE IF me[l].watch.fails < Threshold
                           THEN me[l].watch.fails + 1 ELSE Threshold
             step == IF fails = Threshold THEN "reinject" ELSE "idle"
             w == [me[l].watch EXCEPT !.fails = fails, !.step = step]
             m == [me[l] EXCEPT !.watch = w]
  <2>1. me' = [me EXCEPT ![l].watch.fails = fails, ![l].watch.step = step]
    BY <1>3 DEF Probe
  <2>2. step = "reinject" => Sound # l
    <3>1. step = "reinject" => ~page.beat
      BY DEF Threshold
    <3>2. QED
      BY <1>1, <3>1, LauncherAssumption DEF Sound, PageStates
  <2> HIDE DEF fails, step
  <2>3. me' = [me EXCEPT ![l] = m] /\ UNCHANGED <<app, page>> /\ me[l].watch.step = "probe"
    BY <1>1, <1>3, <2>1 DEF States, Watches, Probe
  <2>4. /\ m.watch.step = step /\ m.watch.seen = me[l].watch.seen
        /\ m.opened = me[l].opened /\ m.pc = me[l].pc
    BY <1>1 DEF States, Watches
  <2> HIDE DEF m
  <2>5. Attends(l, m, app.id, Sound)
    BY <1>1, <2>2, <2>3, <2>4 DEF Attends
  <2>6. QED
    BY <2>3, <2>5, OneWatches
<1>4. CASE Reinject(l)
  <2> DEFINE n == IF Cdp /\ ~page.busy THEN 0 ELSE me[l].watch.fails
             w == [me[l].watch EXCEPT !.step = "idle", !.fails = n]
             m == [me[l] EXCEPT !.watch = w]
  <2>1. me' = [me EXCEPT ![l] = m]
    <3>1. /\ me[l] \in States /\ me[l].watch \in Watches
          /\ me \in [Launchers -> States]
      BY <1>1
    <3>2. CASE Cdp /\ ~page.busy
      BY <1>4, <3>1, <3>2 DEF Reinject, States, Watches
    <3>3. CASE ~(Cdp /\ ~page.busy)
      BY <1>4, <3>1, <3>3 DEF Reinject, States, Watches
    <3>4. QED
      BY <3>2, <3>3
  <2>2. /\ m.watch.step = "idle" /\ m.watch.seen = me[l].watch.seen
        /\ m.opened = me[l].opened /\ m.pc = me[l].pc
    BY <1>1 DEF States, Watches
  <2> HIDE DEF m
  <2>3. app' = app /\ Sound' \in {l, Sound} /\ me[l].watch.step = "reinject"
    BY <1>4, AppMoves DEF Reinject
  <2>4. Attends(l, m, app'.id, Sound')
    BY <1>1, <2>2, <2>3 DEF Attends
  <2>5. me'[l] = m /\ \A k \in Launchers : k # l => me'[k] = me[k]
    BY <1>1, <2>1
  <2>6. QED
    BY <1>1, <2>3, <2>4, <2>5, WatchMovesOn
<1>5. QED
  BY <1>2, <1>3, <1>4 DEF Watching

LEMMA LeavingWatches ==
    ASSUME IInv, WatchInv, NEW l \in Launchers, Leaving(l)
    PROVE  WatchInv'
<1>1. /\ me[l] \in States /\ me \in [Launchers -> States]
      /\ Attends(l, me[l], app.id, Sound)
  BY Stays DEF Fits, WatchInv
<1>2. CASE Poll(l)
  <2> DEFINE n == IF Running \/ me[l].tries + 1 = Polls THEN 0 ELSE me[l].tries + 1
             place == IF ~Running /\ me[l].tries + 1 = Polls THEN "closing" ELSE "run"
             m == [me[l] EXCEPT !.tries = n, !.pc = place]
  <2>1. me' = [me EXCEPT ![l] = m] /\ UNCHANGED <<app, page>>
    BY <1>2 DEF Poll
  <2>2. m.watch = me[l].watch /\ m.opened = me[l].opened /\ m.pc \in {"run", "closing"}
    BY <1>1 DEF States
  <2> HIDE DEF m
  <2>3. Attends(l, m, app.id, Sound)
    BY <1>1, <2>2 DEF Attends
  <2>4. QED
    BY <2>1, <2>3, OneWatches
<1>3. CASE Close(l)
  <2>1. /\ app' \in AppStates /\ app.id <= app'.id
        /\ Sound' \in {None, Sound}
    BY <1>3, AppMoves DEF Close
  <2>2. QED
    BY <1>3, <2>1, EndWatches DEF Close
<1>4. QED
  BY <1>2, <1>3 DEF Leaving

LEMMA OutsideWatches ==
    ASSUME IInv, WatchInv,
           AppReady \/ PageAnswers \/ BeatFades \/ BeatReturns \/ PortReleased \/ Outside
    PROVE  WatchInv'
<1>1. /\ app \in AppStates /\ page \in PageStates /\ app.id \in Nat
  BY Stays
<1>2. ASSUME me' = me, app' \in AppStates, app.id <= app'.id,
             Sound' \in {None, Sound}
      PROVE  WatchInv'
  BY <1>2, LauncherAssumption, WatchMovesOn
<1>3. CASE AppReady
  BY <1>1, <1>2, <1>3, AppMoves DEF AppReady, AppStates
<1>4. CASE PageAnswers \/ BeatFades \/ BeatReturns \/ PortReleased
  <2>1. page'.bridge = page.bridge /\ page'.sound = page.sound /\ UNCHANGED <<me, app>>
    BY <1>1, <1>4 DEF PageAnswers, BeatFades, BeatReturns, PortReleased, PageStates
  <2>2. QED
    BY <1>1, <1>2, <2>1 DEF Sound
<1>5. CASE Outside /\ AppEvent
  <2>1. app' \in AppStates /\ app.id <= app'.id /\ Sound' \in {None, Sound}
    <3>1. CASE Running /\ CloseApp
      BY <1>1, <3>1, AppMoves
    <3>2. CASE Cdp /\ NewApp /\ FreshPage
      BY <3>2, AppMoves
    <3>3. CASE ~Running /\ app' = [at |-> "plain", id |-> app.id + 1] /\ FreshPage
      BY <1>1, <3>3, AppMoves DEF AppStates
    <3>4. CASE Cdp /\ (FreshPage \/ LoseBridge(Launchers)) /\ UNCHANGED app
      BY <1>1, <3>4, AppMoves
    <3>5. CASE Cdp /\ page' = [page EXCEPT !.beat = FALSE, !.sound = FALSE] /\ UNCHANGED app
      BY <1>1, <3>5 DEF PageStates, Sound
    <3>6. CASE Cdp /\ page' = [page EXCEPT !.busy = TRUE] /\ UNCHANGED app
      BY <1>1, <3>6 DEF PageStates, Sound
    <3>7. QED
      BY <1>5, <3>1, <3>2, <3>3, <3>4, <3>5, <3>6 DEF AppEvent
  <2>2. QED
    BY <1>2, <1>5, <2>1 DEF AppEvent
<1>6. CASE Outside /\ SystemEvent
  <2>1. app' \in AppStates /\ app.id <= app'.id
    BY <1>1, <1>6 DEF SystemEvent
  <2>2. CASE \E l \in Launchers : me[l].pc # "off" /\ Vanish({l}) /\ LoseBridge({l})
    BY <2>1, <2>2, AppMoves, EndWatches
  <2>3. CASE UNCHANGED <<me, page>>
    BY <1>2, <2>1, <2>3, AppMoves
  <2>4. QED
    BY <1>6, <2>2, <2>3 DEF SystemEvent
<1>7. QED
  BY <1>3, <1>4, <1>5, <1>6 DEF Outside

LEMMA WatchStep == IInv /\ WatchInv /\ [Next]_vars => WatchInv'
<1> SUFFICES ASSUME IInv, WatchInv, [Next]_vars PROVE WatchInv'
  OBVIOUS
<1>1. ASSUME NEW l \in Launchers, Launching(l) PROVE WatchInv'
  BY <1>1, LaunchWatches, StopOthersWatches, OpeningWatches, InjectingWatches DEF Launching
<1>2. CASE UNCHANGED vars
  BY <1>2 DEF vars, WatchInv, Sound
<1>3. QED
  BY <1>1, <1>2, LaunchWatches, WatchingWatches, LeavingWatches, OutsideWatches DEF Next

(* Who closes an open app does so on the error path, after the injection,  *)
(* or for want of a debug port.                                            *)
LEMMA OpenAppStays ==
    ASSUME IInv, [Next]_vars, Cdp, ~Running', events' = events
    PROVE  \E l \in Launchers :
              \/ /\ me[l].pc = "ready" /\ me'[l].pc = "off"
                 /\ setup.mac => me[l].quits
              \/ me[l].pc = "quit" /\ me'[l].pc = "open"
<1>1. app \in AppStates /\ app.at = "open" /\ app'.at = "off" /\ events \in Nat
  BY Stays, LauncherAssumption DEF Cdp, Running
<1>2. app' # app
  BY <1>1
<1>3. ASSUME NEW l \in Launchers, Abort(l)
      PROVE  me[l].pc = "ready" /\ me'[l].pc = "off" /\ (setup.mac => me[l].quits)
  BY <1>2, <1>3 DEF Abort, LoseBridge, Vanish, Gone
<1>4. ASSUME NEW l \in Launchers, QuitApp(l), ~Abort(l)
      PROVE  me[l].pc = "quit" /\ me'[l].pc = "open"
  BY <1>4, Stays DEF QuitApp, Become, Fits, States
<1>5. ASSUME NEW l \in Launchers, OpenApp(l) PROVE FALSE
  BY <1>1, <1>2, <1>5 DEF OpenApp, NewApp
<1>6. ~AppReady
  BY <1>1 DEF AppReady
<1>7. ~Outside
  BY <1>1 DEF Outside
<1>8. ASSUME NEW l \in Launchers, Launching(l) PROVE Abort(l) \/ QuitApp(l)
  BY <1>2, <1>5, <1>8
     DEF Launching, Acquire, Judge, StopOthers, Prepare, StartHelper, LaunchCodex, FindPort,
         Inject, Ready
<1>9. ASSUME NEW l \in Launchers, Start(l) \/ Watching(l) \/ Leaving(l) PROVE FALSE
  BY <1>2, <1>9 DEF Start, Watching, Leaving, Tick, Probe, Reinject, Poll, Close
<1>10. \E l \in Launchers : Abort(l) \/ QuitApp(l)
  BY <1>2, <1>6, <1>7, <1>8, <1>9
     DEF Next, PageAnswers, BeatFades, BeatReturns, PortReleased, vars
<1>11. QED
  BY <1>3, <1>4, <1>10

(***************************************************************************)
(* What works is left alone (check_and_reinject_bridge_inner,              *)
(* keep_launched_on_error): while the app is the one a launcher opened, a  *)
(* page whose calls got through its bridge ever since is not injected      *)
(* again, however late the answers of its probes; and an app with a debug  *)
(* port is closed only by a launch that fails after it injected the page   *)
(* and, on a Mac, opened the app, or that found no debug port before.      *)
(***************************************************************************)
THEOREM WorkingAppIsLeft == Spec => WorkingAppLeftAlone
<1>1. Init => WatchInv
  <2> SUFFICES ASSUME Init PROVE WatchInv
    OBVIOUS
  <2>1. app.id \in Nat /\ \A l \in Launchers : me[l] = Gone
    BY DEF Init
  <2>2. \A l \in Launchers : Attends(l, me[l], app.id, Sound)
    BY <2>1, GoneWatches, Zenon
  <2>3. QED
    BY <2>2, Zenon DEF WatchInv
<1>2. IInv /\ WatchInv /\ [Next]_vars =>
        [\A l \in Launchers :
            /\ me[l].watch.step = "reinject" /\ me'[l].watch.step = "idle"
            /\ app.id = me[l].opened
            => ~page.sound \/ page.bridge # l \/ page'.bridge # l]_vars
  BY DEF WatchInv, Attends, Sound
<1>3. IInv /\ [Next]_vars =>
        [Cdp /\ ~Running' /\ events' = events
         => \E l \in Launchers :
               \/ /\ me[l].pc = "ready" /\ me'[l].pc = "off"
                  /\ setup.mac => me[l].quits
               \/ me[l].pc = "quit" /\ me'[l].pc = "open"]_vars
  BY OpenAppStays
<1>4. QED
  BY <1>1, <1>2, <1>3, Initially, Kept, WatchStep, PTL
     DEF Spec, WorkingAppLeftAlone, HealthyPageLeftAlone, OpenAppKept

-----------------------------------------------------------------------------
(* The bridge a launcher installs in the page.                             *)

(* Every step is one of these; each case of a proof about Next is one line *)
(* of this list.                                                           *)
LEMMA BridgeCases ==
    ASSUME BridgeNext
    PROVE  \/ \E g \in Generations :
                 \/ Connect(g) \/ AddBinding(g) \/ AddScript(g)
                 \/ EvaluateScript(g) \/ Publish(g) \/ InstallFails(g)
                 \/ Enqueue(g) \/ Finish(g) \/ CloseSession(g)
                 \/ Settle(g) \/ Break(g)
           \/ Call \/ Reload
  BY DEF BridgeNext, Install, Loop

(* The arithmetic of the bounds, so that no other step needs it.           *)
LEMMA CallMade ==
    ASSUME BridgeTypeOK, Call
    PROVE  /\ made' = made + 1 /\ made' \in Calls /\ made' \in 0..MaxCalls
           /\ seq' \in 0..made' /\ Message(seq', made') \in Messages
           /\ Message(seq', made').call = made'
  BY BridgeAssumption DEF BridgeTypeOK, Call, Calls, Messages, Message

LEMMA BridgeStarts ==
    ASSUME BridgeInit
    PROVE  BridgeTypeOK
  <1>1. seq \in 0..made /\ made \in 0..MaxCalls /\ faults \in 0..MaxFaults
    BY BridgeAssumption DEF BridgeInit
  <1>2. waiting \in Seq(Calls)
    BY DEF BridgeInit
  <1>3. inbox \in [Generations -> Seq(Messages)] /\ wire \in [Generations -> Seq(Messages)]
    BY DEF BridgeInit
  <1> QED BY <1>1, <1>2, <1>3 DEF BridgeInit, BridgeTypeOK, Steps, Fates

(* The state always has the shape TypeOK describes.                        *)
THEOREM BridgeIsTyped == BridgeSpec => []BridgeTypeOK
  <1>1. BridgeInit => BridgeTypeOK
    BY BridgeStarts
  <1>2. BridgeTypeOK /\ [BridgeNext]_bridgeVars => BridgeTypeOK'
    <2> SUFFICES ASSUME BridgeTypeOK, [BridgeNext]_bridgeVars PROVE BridgeTypeOK'
      OBVIOUS
    <2>1. ASSUME NEW g \in Generations, Connect(g) \/ AddBinding(g) \/ AddScript(g)
          PROVE  BridgeTypeOK'
      BY <2>1 DEF BridgeTypeOK, Connect, AddBinding, AddScript, Goto, callbacks, Steps, Bound
    <2>2. ASSUME NEW g \in Generations, EvaluateScript(g) PROVE BridgeTypeOK'
      <3>1. seq' \in 0..made' /\ waiting' \in Seq(Calls)
        BY <2>2, BridgeAssumption DEF BridgeTypeOK, EvaluateScript, Forget
      <3>2. fate' \in [Calls -> Fates]
        BY <2>2 DEF BridgeTypeOK, EvaluateScript, Forget, Fates
      <3> QED BY <2>2, <3>1, <3>2 DEF BridgeTypeOK, EvaluateScript, Goto, Steps, Bound
    <2>3. ASSUME NEW g \in Generations, Publish(g) PROVE BridgeTypeOK'
      <3>1. inbox' \in [Generations -> Seq(Messages)]
        <4>1. <<>> \in Seq(Messages)
          OBVIOUS
        <4> QED BY <2>3, <4>1 DEF BridgeTypeOK, Publish
      <3>2. /\ current' \in Generations \cup {NoGeneration}
            /\ pc' \in [Generations -> Steps]
        BY <2>3 DEF BridgeTypeOK, Publish, Goto, Steps, Bound
      <3> QED BY <2>3, <3>1, <3>2 DEF BridgeTypeOK, Publish, callbacks
    <2>4. ASSUME NEW g \in Generations, InstallFails(g) PROVE BridgeTypeOK'
      <3>1. faults' \in 0..MaxFaults
        BY <2>4, BridgeAssumption DEF BridgeTypeOK, InstallFails
      <3> QED BY <2>4, <3>1 DEF BridgeTypeOK, InstallFails, Goto, callbacks, Steps
    <2>5. ASSUME NEW g \in Generations, Enqueue(g) PROVE BridgeTypeOK'
      <3>1. Head(inbox[g]) \in Messages /\ Tail(inbox[g]) \in Seq(Messages)
        BY <2>5 DEF BridgeTypeOK, Enqueue
      <3>2. Head(inbox[g]).call \in Calls
        BY <3>1 DEF Messages
      <3> QED BY <2>5, <3>1, <3>2 DEF BridgeTypeOK, Enqueue, callbacks
    <2>6. ASSUME NEW g \in Generations, Finish(g) PROVE BridgeTypeOK'
      <3> PICK m \in pending[g] :
             /\ pending' = [pending EXCEPT ![g] = @ \ {m}]
             /\ wire' = IF IsCurrent(g) THEN [wire EXCEPT ![g] = Append(@, m)] ELSE wire
        BY <2>6 DEF Finish
      <3>1. m \in Messages
        BY DEF BridgeTypeOK
      <3>2. Append(wire[g], m) \in Seq(Messages)
        BY <3>1 DEF BridgeTypeOK
      <3> QED BY <2>6, <3>2 DEF BridgeTypeOK, Finish, callbacks
    <2>7. ASSUME NEW g \in Generations, CloseSession(g) PROVE BridgeTypeOK'
      BY <2>7 DEF BridgeTypeOK, CloseSession, IsCurrent, Goto, callbacks, Steps
    <2>8. ASSUME NEW g \in Generations, Break(g) PROVE BridgeTypeOK'
      <3>1. faults' \in 0..MaxFaults
        BY <2>8, BridgeAssumption DEF BridgeTypeOK, Break
      <3> QED BY <2>8, <3>1 DEF BridgeTypeOK, Break, Goto, callbacks, Steps
    <2>9. ASSUME NEW g \in Generations, Settle(g) PROVE BridgeTypeOK'
      <3>1. Tail(wire[g]) \in Seq(Messages)
        <4>1. wire[g] \in Seq(Messages) /\ wire[g] # <<>>
          BY <2>9 DEF BridgeTypeOK, Settle
        <4> QED BY <4>1
      <3>2. fate' \in [Calls -> Fates]
        BY <2>9 DEF BridgeTypeOK, Settle, Fates
      <3> QED BY <2>9, <3>1, <3>2 DEF BridgeTypeOK, Settle, callbacks
    <2>10. CASE Call
      <3>1. waiting' \in Seq(Calls)
        <4>1. made' \in Calls /\ waiting \in Seq(Calls)
          BY <2>10, CallMade DEF BridgeTypeOK
        <4>2. Append(waiting, made') \in Seq(Calls)
          BY <4>1
        <4> QED BY <2>10, <4>2 DEF Call
      <3>2. \A g \in Generations : Append(inbox[g], Message(seq', made')) \in Seq(Messages)
        BY <2>10, CallMade DEF BridgeTypeOK
      <3>3. inbox' \in [Generations -> Seq(Messages)]
        BY <2>10, <3>2 DEF BridgeTypeOK, Call
      <3> QED BY <2>10, <3>1, <3>3, CallMade DEF BridgeTypeOK, Call, Fates
    <2>11. CASE Reload
      <3>1. /\ seq' \in 0..made' /\ waiting' \in Seq(Calls) /\ faults' \in 0..MaxFaults
        BY <2>11, BridgeAssumption DEF BridgeTypeOK, Reload, Forget
      <3>2. fate' \in [Calls -> Fates]
        BY <2>11 DEF BridgeTypeOK, Reload, Forget, Fates
      <3> QED BY <2>11, <3>1, <3>2 DEF BridgeTypeOK, Reload, sessions
    <2>12. CASE UNCHANGED bridgeVars
      BY <2>12 DEF BridgeTypeOK, bridgeVars, callbacks, sessions
    <2> QED BY <2>1, <2>2, <2>3, <2>4, <2>5, <2>6, <2>7, <2>8, <2>9, <2>10, <2>11,
               <2>12, BridgeCases
  <1> QED BY <1>1, <1>2, PTL DEF BridgeSpec

-----------------------------------------------------------------------------
(* Why no request is handled twice.  A call made outside a handover        *)
(* reaches sessions that already run: none of them publishes again, so at  *)
(* most the current one of them can take it, and once one took it the      *)
(* others that still hold it are not current and never will be.            *)
Has(s, c) == \E i \in 1..Len(s) : s[i].call = c

OnlyMadeCalls ==
    \A c \in Calls : c > made => /\ handlers[c] = {}
                                 /\ \A g \in Generations : ~Has(inbox[g], c)
ReceivedByRunning ==
    \A c \in Calls \ handover, g \in Generations :
       Has(inbox[g], c) => pc[g] \in {"running", "broken"}
TakenByCurrent ==
    \A c \in Calls \ handover, g \in Generations : \A h \in handlers[c] :
       Has(inbox[g], c) /\ g # h => g # current

CallsInv == BridgeTypeOK /\ OnlyMadeCalls /\ ReceivedByRunning /\ TakenByCurrent /\ HandledOnce

-----------------------------------------------------------------------------
(* What the operations on sequences do to the calls in them.               *)
LEMMA HasNothing == \A c : ~Has(<<>>, c)
  BY DEF Has

LEMMA HasHead ==
    ASSUME NEW s \in Seq(Messages), s # <<>>
    PROVE  Has(s, Head(s).call)
  <1>1. 1 \in 1..Len(s) /\ Head(s) = s[1]
    OBVIOUS
  <1> QED BY <1>1 DEF Has

LEMMA HasTail ==
    ASSUME NEW s \in Seq(Messages), s # <<>>, NEW c, Has(Tail(s), c)
    PROVE  Has(s, c)
  <1>1. PICK i \in 1..Len(Tail(s)) : Tail(s)[i].call = c
    BY DEF Has
  <1>2. i + 1 \in 1..Len(s) /\ Tail(s)[i] = s[i + 1]
    OBVIOUS
  <1> QED BY <1>1, <1>2 DEF Has

LEMMA HasAppend ==
    ASSUME NEW s \in Seq(Messages), NEW m \in Messages, NEW c,
           Has(Append(s, m), c)
    PROVE  Has(s, c) \/ m.call = c
  <1>1. PICK i \in 1..Len(Append(s, m)) : Append(s, m)[i].call = c
    BY DEF Has
  <1>2. CASE i = Len(s) + 1
    <2>1. Append(s, m)[i] = m
      BY <1>2
    <2> QED BY <1>1, <2>1
  <1>3. CASE i # Len(s) + 1
    <2>1. i \in 1..Len(s) /\ Append(s, m)[i] = s[i]
      BY <1>3
    <2> QED BY <1>1, <2>1 DEF Has
  <1> QED BY <1>2, <1>3

(* The invariant holds in every reachable state.                           *)
THEOREM CallsInvariant == BridgeSpec => []CallsInv
  <1>1. BridgeInit => CallsInv
    <2> SUFFICES ASSUME BridgeInit PROVE OnlyMadeCalls /\ ReceivedByRunning
                                   /\ TakenByCurrent /\ HandledOnce
      BY BridgeStarts DEF CallsInv
    <2>1. /\ \A c \in Calls : handlers[c] = {}
          /\ \A g \in Generations : \A c : ~Has(inbox[g], c)
      BY HasNothing DEF BridgeInit
    <2> QED BY <2>1 DEF OnlyMadeCalls, ReceivedByRunning, TakenByCurrent, HandledOnce
  <1>2. CallsInv /\ BridgeTypeOK' /\ [BridgeNext]_bridgeVars => CallsInv'
    <2> SUFFICES ASSUME CallsInv, BridgeTypeOK', [BridgeNext]_bridgeVars
                 PROVE  (OnlyMadeCalls /\ ReceivedByRunning /\ TakenByCurrent
                           /\ HandledOnce)'
      BY DEF CallsInv
    <2> USE DEF CallsInv
    <2>1. ASSUME NEW g \in Generations,
                 Connect(g) \/ AddBinding(g) \/ AddScript(g) \/ EvaluateScript(g)
          PROVE  (OnlyMadeCalls /\ ReceivedByRunning /\ TakenByCurrent /\ HandledOnce)'
      <3>1. /\ pc[g] \notin {"running", "broken"}
            /\ \A h \in Generations : h # g => pc'[h] = pc[h]
            /\ UNCHANGED <<inbox, handlers, handover, made, current>>
        BY <2>1 DEF BridgeTypeOK, Connect, AddBinding, AddScript, EvaluateScript, Goto, sessions
      <3> QED BY <3>1 DEF OnlyMadeCalls, ReceivedByRunning, TakenByCurrent, HandledOnce
    <2>2. ASSUME NEW g \in Generations, Publish(g)
          PROVE  (OnlyMadeCalls /\ ReceivedByRunning /\ TakenByCurrent /\ HandledOnce)'
      <3>1. /\ pc[g] \notin {"running", "broken"}
            /\ \A h \in Generations : h # g => pc'[h] = pc[h] /\ inbox'[h] = inbox[h]
            /\ inbox'[g] = <<>> \/ inbox'[g] = inbox[g]
            /\ current' = g \/ current' = current
            /\ UNCHANGED <<handlers, handover, made>>
        BY <2>2 DEF BridgeTypeOK, Publish, Goto
      <3> QED BY <3>1, HasNothing
              DEF OnlyMadeCalls, ReceivedByRunning, TakenByCurrent, HandledOnce
    <2>3. ASSUME NEW g \in Generations, InstallFails(g) \/ CloseSession(g)
          PROVE  (OnlyMadeCalls /\ ReceivedByRunning /\ TakenByCurrent /\ HandledOnce)'
      <3>1. /\ \A h \in Generations : h # g => pc'[h] = pc[h] /\ inbox'[h] = inbox[h]
            /\ inbox'[g] = <<>>
            /\ current' = NoGeneration \/ current' = current
            /\ UNCHANGED <<handlers, handover, made>>
        BY <2>3 DEF BridgeTypeOK, InstallFails, CloseSession, IsCurrent, Goto
      <3>2. NoGeneration \notin Generations
        BY BridgeAssumption DEF NoGeneration, Generations
      <3> QED BY <3>1, <3>2, HasNothing
              DEF OnlyMadeCalls, ReceivedByRunning, TakenByCurrent, HandledOnce
    <2>4. ASSUME NEW g \in Generations, Enqueue(g)
          PROVE  (OnlyMadeCalls /\ ReceivedByRunning /\ TakenByCurrent /\ HandledOnce)'
      <3> DEFINE taken == Head(inbox[g]).call
      <3>1. /\ inbox[g] \in Seq(Messages) /\ inbox[g] # <<>>
            /\ current = g
            /\ \A h \in Generations : h # g => inbox'[h] = inbox[h]
            /\ inbox'[g] = Tail(inbox[g])
            /\ UNCHANGED <<pc, handover, made, current>>
        BY <2>4 DEF BridgeTypeOK, Enqueue, IsCurrent
      <3>2. Has(inbox[g], taken)
        BY <3>1, HasHead
      <3>3. \A h \in Generations : \A c : Has(inbox'[h], c) => Has(inbox[h], c)
        BY <3>1, HasTail
      <3>4. /\ \A c \in Calls : c # taken => handlers'[c] = handlers[c]
            /\ taken \in Calls => handlers'[taken] = handlers[taken] \cup {g}
        BY <2>4 DEF BridgeTypeOK, Enqueue
      <3>5. taken \in Calls \ handover => \A h \in handlers[taken] : h = g
        BY <3>1, <3>2 DEF TakenByCurrent
      <3>6. taken \in Calls => ~(taken > made)
        BY <3>2 DEF OnlyMadeCalls
      <3>7. OnlyMadeCalls'
        BY <3>1, <3>3, <3>4, <3>6 DEF OnlyMadeCalls
      <3>8. ReceivedByRunning'
        BY <3>1, <3>3 DEF ReceivedByRunning
      <3>9. TakenByCurrent'
        BY <3>1, <3>3, <3>4, <3>5 DEF TakenByCurrent
      <3>10. HandledOnce'
        BY <3>1, <3>4, <3>5 DEF HandledOnce
      <3> QED BY <3>7, <3>8, <3>9, <3>10
    <2>5. ASSUME NEW g \in Generations, Finish(g) \/ Settle(g) \/ Break(g)
          PROVE  (OnlyMadeCalls /\ ReceivedByRunning /\ TakenByCurrent /\ HandledOnce)'
      <3>1. /\ \A h \in Generations : pc'[h] = pc[h] \/ pc'[h] = "broken"
            /\ UNCHANGED <<inbox, handlers, handover, made, current>>
        BY <2>5 DEF BridgeTypeOK, Finish, Settle, Break, Goto
      <3> QED BY <3>1 DEF OnlyMadeCalls, ReceivedByRunning, TakenByCurrent, HandledOnce
    <2>6. CASE Call
      <3>1. /\ UNCHANGED <<pc, current, handlers>> /\ made' = made + 1
            /\ made' \in Calls /\ handover \subseteq handover'
            /\ handover' \subseteq handover \cup {made'}
            /\ made' \notin handover' =>
                 \A g \in Generations : pc[g] \in Bound => pc[g] = "running"
        BY <2>6, CallMade DEF BridgeTypeOK, Call
      <3>2. handlers[made'] = {}
        <4>1. made \in 0..MaxCalls
          BY DEF BridgeTypeOK
        <4>2. made' > made
          BY <3>1, <4>1, BridgeAssumption
        <4> QED BY <3>1, <4>2 DEF OnlyMadeCalls
      <3>3. \A g \in Generations :
               \/ inbox'[g] = inbox[g]
               \/ /\ pc[g] \in Bound
                  /\ inbox'[g] = Append(inbox[g], Message(seq', made'))
        BY <2>6 DEF Call
      <3>4. \A g \in Generations : \A c : Has(inbox'[g], c) =>
                Has(inbox[g], c) \/ (pc[g] \in Bound /\ c = made')
        BY <2>6, <3>3, HasAppend, CallMade DEF BridgeTypeOK
      <3>5. OnlyMadeCalls'
        <4>1. made \in Nat
          BY BridgeAssumption DEF BridgeTypeOK
        <4>2. \A c \in Calls : c > made' => c > made /\ c # made'
          BY <3>1, <4>1 DEF Calls
        <4> QED BY <3>1, <3>4, <4>2 DEF OnlyMadeCalls
      <3>6. ReceivedByRunning'
        BY <3>1, <3>4 DEF ReceivedByRunning
      <3>7. TakenByCurrent'
        BY <3>1, <3>2, <3>4 DEF TakenByCurrent
      <3>8. HandledOnce'
        BY <3>1 DEF HandledOnce
      <3> QED BY <3>5, <3>6, <3>7, <3>8
    <2>7. CASE Reload \/ UNCHANGED bridgeVars
      <3>1. UNCHANGED <<pc, inbox, handlers, handover, made, current>>
        BY <2>7 DEF Reload, bridgeVars, sessions
      <3> QED BY <3>1 DEF OnlyMadeCalls, ReceivedByRunning, TakenByCurrent, HandledOnce
    <2> QED BY <2>1, <2>2, <2>3, <2>4, <2>5, <2>6, <2>7, BridgeCases
  <1> QED BY <1>1, <1>2, BridgeIsTyped, PTL DEF BridgeSpec

(* No request of the page is handled by two sessions, however many         *)
(* installations overlap, unless it was made while one was half done.      *)
THEOREM RequestsHandledOnce == BridgeSpec => []HandledOnce
  BY CallsInvariant, PTL DEF CallsInv

(* The current generation never goes back to an older session that still   *)
(* runs: an installation overtaken by a newer one closes itself.           *)
THEOREM GenerationsAdvance == BridgeSpec => NeverBackToOlder
  <1>1. BridgeTypeOK /\ [BridgeNext]_bridgeVars =>
          [current' < current => current' = NoGeneration /\ pc'[current] = "closed"]_bridgeVars
    <2> SUFFICES ASSUME BridgeTypeOK, BridgeNext, current' < current
                 PROVE  current' = NoGeneration /\ pc'[current] = "closed"
      BY BridgeAssumption DEF BridgeTypeOK, bridgeVars, NoGeneration, Generations
    <2>1. current \in Nat
      BY BridgeAssumption DEF BridgeTypeOK, Generations, NoGeneration
    <2>2. current' # current
      BY <2>1
    <2>3. PICK g \in Generations : Publish(g) \/ CloseSession(g)
      BY <2>2, BridgeCases DEF Connect, AddBinding, AddScript, EvaluateScript, InstallFails,
           Enqueue, Finish, Settle, Break, Call, Reload
    <2>4. ~Publish(g)
      BY <2>1, <2>2 DEF Publish, Superseded, Generations
    <2>5. CloseSession(g)
      BY <2>3, <2>4
    <2> QED BY <2>2, <2>5 DEF CloseSession, IsCurrent, Goto, BridgeTypeOK
  <1> QED BY <1>1, BridgeIsTyped, PTL DEF BridgeSpec, NeverBackToOlder

-------------------------------------------------------------------------------

(* Induction on the natural numbers, for a set of them.                    *)
LEMMA Induction ==
    ASSUME NEW S, 0 \in S, \A n \in Nat : n \in S => n + 1 \in S
    PROVE  \A n \in Nat : n \in S
  <1> DEFINE R == {p \in Nat \X Nat : p[1] < p[2]}
             T == Nat \ S
  <1> SUFFICES ASSUME T # {} PROVE FALSE
    OBVIOUS
  <1>1. IsWellFoundedOn(R, Nat)
    BY NatLessThanWellFounded, Zenon DEF OpToRel
  <1>2. T \subseteq Nat
    OBVIOUS
  <1> HIDE DEF R, T
  <1>3. PICK n \in T : \A k \in T : <<k, n>> \notin R
    BY <1>1, <1>2, WFMin
  <1>4. n \in Nat /\ n # 0 /\ n - 1 \in Nat /\ n - 1 \notin S
    BY <1>2 DEF T
  <1>5. n - 1 \in T /\ <<n - 1, n>> \in R
    BY <1>4 DEF R, T
  <1>6. QED
    BY <1>3, <1>5

(* Below twice n, the remainder takes n away at most once.                 *)
LEMMA Wrap ==
    ASSUME NEW n \in Nat \ {0}, NEW x \in 0..(2 * n - 1)
    PROVE  x % n = IF x < n THEN x ELSE x - n
  OBVIOUS

(* A remainder is below its modulus.                                       *)
LEMMA WrapIn ==
    ASSUME NEW n \in Nat \ {0}, NEW x \in Nat
    PROVE  x % n \in 0..(n - 1)
  OBVIOUS

(* The relays of a list that are available, in its order.                  *)
LEMMA AvailableInUnfolds ==
    ASSUME NEW s, NEW list, Len(list) \in Nat
    PROVE  \E upto : /\ AvailableIn(s, list) = upto[Len(list)]
                     /\ upto[0] = <<>>
                     /\ \A n \in 1..Len(list) : upto[n] =
                           IF Available(s, list[n]) THEN Append(upto[n - 1], list[n])
                           ELSE upto[n - 1]
  <1> DEFINE N == Len(list)
             Step(f, n) == IF n = 0 THEN <<>>
                           ELSE IF Available(s, list[n]) THEN Append(f[n - 1], list[n])
                                ELSE f[n - 1]
             S == {n \in Nat : \E f : f = [i \in 0..n |-> Step(f, i)]}
  <1>1. 0 \in S
    <2>1. [i \in 0..0 |-> <<>>] = [i \in 0..0 |-> Step([j \in 0..0 |-> <<>>], i)]
      OBVIOUS
    <2>2. QED
      BY <2>1
  <1>2. ASSUME NEW n \in Nat, n \in S PROVE n + 1 \in S
    <2>1. PICK f : f = [i \in 0..n |-> Step(f, i)]
      BY <1>2
    <2> DEFINE g == [i \in 0..(n + 1) |-> IF i = n + 1 THEN Step(f, i) ELSE f[i]]
    <2>2. ASSUME NEW i \in 0..(n + 1) PROVE g[i] = Step(g, i)
      <3>1. CASE i = n + 1
        BY <3>1
      <3>2. CASE i # n + 1
        <4>1. i \in 0..n /\ g[i] = f[i] /\ (i # 0 => g[i - 1] = f[i - 1])
          BY <3>2
        <4>2. f[i] = Step(f, i)
          BY <2>1, <4>1
        <4>3. QED
          BY <4>1, <4>2
      <3>3. QED
        BY <3>1, <3>2
    <2>3. g = [i \in 0..(n + 1) |-> Step(g, i)]
      BY <2>2
    <2> HIDE DEF g, Step
    <2>4. \E h : h = [i \in 0..(n + 1) |-> Step(h, i)]
      BY <2>3
    <2>5. QED
      BY <2>4
  <1>3. N \in S
    <2> HIDE DEF S
    <2> QED BY <1>1, <1>2, Induction
  <1>4. PICK f : f = [i \in 0..N |-> Step(f, i)]
    BY <1>3
  <1> DEFINE upto[n \in 0..N] ==
               IF n = 0 THEN <<>>
               ELSE IF Available(s, list[n]) THEN Append(upto[n - 1], list[n]) ELSE upto[n - 1]
  <1>5. upto = [i \in 0..N |-> Step(upto, i)]
    BY <1>4
  <1>6. AvailableIn(s, list) = upto[N]
    BY DEF AvailableIn
  <1> HIDE DEF upto, Step
  <1>7. \A n \in 0..N : upto[n] = Step(upto, n)
    BY <1>5
  <1>8. upto[0] = <<>> /\ \A n \in 1..N : upto[n] = IF Available(s, list[n])
                             THEN Append(upto[n - 1], list[n]) ELSE upto[n - 1]
    BY <1>7 DEF Step
  <1>9. QED
    BY <1>6, <1>8

(* What AvailableIn makes of the first n relays of a list.                 *)
Sifted(s, list, u, n) ==
    /\ \A j \in 1..Len(u) : \E i \in 1..n : u[j] = list[i] /\ Available(s, list[i])
    /\ \A i \in 1..n : Available(s, list[i]) => \E j \in 1..Len(u) : u[j] = list[i]
    /\ IsInjective(list) => IsInjective(u)
    /\ (\A i \in 1..n : Available(s, list[i])) =>
           Len(u) = n /\ \A i \in 1..n : u[i] = list[i]

(* One step further in the list of the relays available.                   *)
LEMMA SiftedOn ==
    ASSUME NEW X, NEW s, NEW list \in Seq(X), NEW n \in 1..Len(list), NEW u \in Seq(X),
           Sifted(s, list, u, n - 1)
    PROVE  LET v == IF Available(s, list[n]) THEN Append(u, list[n]) ELSE u
           IN  v \in Seq(X) /\ Sifted(s, list, v, n)
  <1>1. n \in Nat /\ Len(u) \in Nat /\ \A i \in 1..n : i = n \/ i \in 1..(n - 1)
    OBVIOUS
  <1>2. CASE ~Available(s, list[n])
    BY <1>1, <1>2 DEF Sifted
  <1>3. CASE Available(s, list[n])
    <2> DEFINE v == Append(u, list[n])
    <2>1. /\ v \in Seq(X) /\ Len(v) = Len(u) + 1 /\ v[Len(u) + 1] = list[n]
          /\ \A j \in 1..Len(u) : v[j] = u[j]
      BY <1>1
    <2> HIDE DEF v
    <2>2. \A j \in 1..Len(v) : j = Len(u) + 1 \/ j \in 1..Len(u)
      BY <1>1, <2>1
    <2>3. \A j \in 1..Len(v) : \E i \in 1..n : v[j] = list[i] /\ Available(s, list[i])
      <3> SUFFICES ASSUME NEW j \in 1..Len(v)
                   PROVE  \E i \in 1..n : v[j] = list[i] /\ Available(s, list[i])
        OBVIOUS
      <3>1. CASE j = Len(u) + 1
        BY <1>1, <1>3, <2>1, <3>1
      <3>2. CASE j \in 1..Len(u)
        <4>1. PICK i \in 1..(n - 1) : u[j] = list[i] /\ Available(s, list[i])
          BY <3>2 DEF Sifted
        <4>2. QED
          BY <1>1, <2>1, <3>2, <4>1
      <3>3. QED
        BY <2>2, <3>1, <3>2
    <2>4. \A i \in 1..n : Available(s, list[i]) => \E j \in 1..Len(v) : v[j] = list[i]
      <3> SUFFICES ASSUME NEW i \in 1..n, Available(s, list[i])
                   PROVE  \E j \in 1..Len(v) : v[j] = list[i]
        OBVIOUS
      <3>1. CASE i = n
        BY <1>1, <2>1, <3>1
      <3>2. CASE i \in 1..(n - 1)
        <4>1. PICK j \in 1..Len(u) : u[j] = list[i]
          BY <3>2 DEF Sifted
        <4>2. QED
          BY <1>1, <2>1, <4>1
      <3>3. QED
        BY <1>1, <3>1, <3>2
    <2>5. ASSUME IsInjective(list) PROVE IsInjective(v)
      <3>1. DOMAIN v = 1..Len(v) /\ DOMAIN u = 1..Len(u) /\ DOMAIN list = 1..Len(list)
        BY <2>1
      <3>2. \A j \in 1..Len(u) : u[j] # list[n]
        <4> SUFFICES ASSUME NEW j \in 1..Len(u), u[j] = list[n] PROVE FALSE
          OBVIOUS
        <4>1. PICK i \in 1..(n - 1) : u[j] = list[i]
          BY DEF Sifted
        <4>2. i \in DOMAIN list /\ n \in DOMAIN list /\ i # n
          BY <1>1, <3>1
        <4>3. QED
          BY <2>5, <4>1, <4>2 DEF IsInjective
      <3>3. \A i, j \in 1..Len(u) : u[i] = u[j] => i = j
        BY <2>5, <3>1 DEF Sifted, IsInjective
      <3>4. \A i, j \in 1..Len(v) : v[i] = v[j] => i = j
        BY <2>1, <2>2, <3>2, <3>3
      <3>5. QED
        BY <3>1, <3>4 DEF IsInjective
    <2>6. ASSUME \A i \in 1..n : Available(s, list[i])
          PROVE  Len(v) = n /\ \A i \in 1..n : v[i] = list[i]
      <3>1. Len(u) = n - 1 /\ \A i \in 1..(n - 1) : u[i] = list[i]
        BY <1>1, <2>6 DEF Sifted
      <3>2. QED
        BY <1>1, <2>1, <3>1
    <2>7. Sifted(s, list, v, n)
      BY <2>3, <2>4, <2>5, <2>6 DEF Sifted
    <2>8. QED
      BY <1>3, <2>1, <2>7 DEF v
  <1>4. QED
    BY <1>2, <1>3

(* AvailableIn lists the available relays of a list, each as often as it   *)
(* is there.                                                               *)
LEMMA AvailableInSifts ==
    ASSUME NEW X, NEW s, NEW list \in Seq(X)
    PROVE  /\ AvailableIn(s, list) \in Seq(X)
           /\ Sifted(s, list, AvailableIn(s, list), Len(list))
  <1> DEFINE N == Len(list)
  <1>1. N \in Nat
    OBVIOUS
  <1>2. PICK upto : /\ AvailableIn(s, list) = upto[N]
                    /\ upto[0] = <<>>
                    /\ \A n \in 1..N : upto[n] =
                          IF Available(s, list[n]) THEN Append(upto[n - 1], list[n])
                          ELSE upto[n - 1]
    BY <1>1, AvailableInUnfolds
  <1> DEFINE S == {n \in Nat : n <= N => upto[n] \in Seq(X) /\ Sifted(s, list, upto[n], n)}
  <1>3. 0 \in S
    <2>1. <<>> \in Seq(X) /\ Len(<<>>) = 0 /\ DOMAIN <<>> = {}
      OBVIOUS
    <2>2. Sifted(s, list, <<>>, 0)
      BY <2>1 DEF Sifted, IsInjective
    <2>3. QED
      BY <1>2, <2>1, <2>2
  <1>4. ASSUME NEW n \in Nat, n \in S PROVE n + 1 \in S
    <2> SUFFICES ASSUME n + 1 <= N
                 PROVE  upto[n + 1] \in Seq(X) /\ Sifted(s, list, upto[n + 1], n + 1)
      OBVIOUS
    <2> DEFINE m == n + 1
               u == upto[n]
    <2>1. m \in 1..N /\ m - 1 = n /\ u \in Seq(X) /\ Sifted(s, list, u, n)
      BY <1>1, <1>4
    <2>2. upto[m] = IF Available(s, list[m]) THEN Append(u, list[m]) ELSE u
      BY <1>2, <2>1
    <2> HIDE DEF m, u
    <2>3. upto[m] \in Seq(X) /\ Sifted(s, list, upto[m], m)
      BY <2>1, <2>2, SiftedOn
    <2>4. QED
      BY <2>3 DEF m
  <1>5. N \in S
    <2> HIDE DEF S
    <2> QED BY <1>1, <1>3, <1>4, Induction
  <1>6. QED
    BY <1>1, <1>2, <1>5

-----------------------------------------------------------------------------
(* The turns of the members.                                               *)
Share(a, i) == IF a.strategy = "weightedRoundRobin" THEN Weight(a.members[i]) ELSE 1
Turns(a) == IF a.strategy = "weightedRoundRobin" THEN Schedule(a)
            ELSE [i \in 1..Size(a) |-> a.members[i].relay]

(* Where the turns of each member lie: those of the i-th one are from      *)
(* off[i - 1] + 1 to off[i].                                               *)
Laid(a, off) ==
    /\ off \in [0..Size(a) -> Nat] /\ off[0] = 0
    /\ \A i \in 1..Size(a) : off[i] = off[i - 1] + Share(a, i)
    /\ \A i, j \in 0..Size(a) : i <= j => off[i] <= off[j]
    /\ \A k \in 1..off[Size(a)] : \E i \in 1..Size(a) : off[i - 1] < k /\ k <= off[i]
    /\ Turns(a) \in Seq(Members(a)) /\ Len(Turns(a)) = off[Size(a)]
    /\ \A i \in 1..Size(a) : \A k \in Nat : off[i - 1] < k /\ k <= off[i] =>
           Turns(a)[k] = a.members[i].relay

(* What Proper says of the members of an aggregate.                        *)
LEMMA ProperMembers ==
    ASSUME NEW a, Proper(a)
    PROVE  /\ Size(a) \in Nat /\ DOMAIN a.members = 1..Size(a)
           /\ \A i \in 1..Size(a) : /\ a.members[i].relay \in Relays \cap Members(a)
                                    /\ a.members[i].weight \in Nat
                                    /\ Share(a, i) \in Nat \ {0}
                                    /\ Weight(a.members[i]) \in Nat \ {0}
           /\ \A m \in Members(a) : \E i \in 1..Size(a) : m = a.members[i].relay
           /\ \A i, j \in 1..Size(a) : a.members[i].relay = a.members[j].relay => i = j
  <1>1. Size(a) \in Nat /\ DOMAIN a.members = 1..Size(a)
    BY DEF Proper, Size
  <1>2. \A i \in 1..Size(a) : a.members[i] \in [relay : Relays, weight : Nat]
    <2>1. a.members \in Seq([relay : Relays, weight : Nat])
      BY DEF Proper
    <2>2. QED
      BY <2>1, ElementOfSeq DEF Size
  <1>3. \A i \in 1..Size(a) : /\ a.members[i].relay \in Relays \cap Members(a)
                              /\ a.members[i].weight \in Nat
    BY <1>1, <1>2 DEF Members
  <1>4. \A i \in 1..Size(a) : Weight(a.members[i]) \in Nat \ {0}
    BY <1>3 DEF Weight
  <1>5. \A i \in 1..Size(a) : Share(a, i) \in Nat \ {0}
    BY <1>4 DEF Share
  <1>6. QED
    BY <1>1, <1>3, <1>4, <1>5 DEF Proper, Members

(* FlattenSeq joins the sequences one after the other.                     *)
LEMMA FlattenUnfolds ==
    ASSUME NEW seqs, Len(seqs) \in Nat \ {0}
    PROVE  \E flat : /\ FlattenSeq(seqs) = flat[Len(seqs)]
                     /\ flat[1] = seqs[1]
                     /\ \A n \in 2..Len(seqs) : flat[n] = flat[n - 1] \o seqs[n]
  <1> DEFINE N == Len(seqs)
             Step(f, n) == IF n = 1 THEN seqs[n] ELSE f[n - 1] \o seqs[n]
             S == {n \in Nat : \E f : f = [i \in 1..n |-> Step(f, i)]}
  <1>1. 0 \in S
    <2>1. [i \in 1..0 |-> <<>>] = [i \in 1..0 |-> Step([j \in 1..0 |-> <<>>], i)]
      OBVIOUS
    <2>2. QED
      BY <2>1
  <1>2. ASSUME NEW n \in Nat, n \in S PROVE n + 1 \in S
    <2>1. PICK f : f = [i \in 1..n |-> Step(f, i)]
      BY <1>2
    <2> DEFINE g == [i \in 1..(n + 1) |-> IF i = n + 1 THEN Step(f, i) ELSE f[i]]
    <2>2. ASSUME NEW i \in 1..(n + 1) PROVE g[i] = Step(g, i)
      <3>1. CASE i = n + 1
        <4>1. i = 1 \/ (i - 1 \in 1..(n + 1) /\ i - 1 # n + 1)
          BY <3>1
        <4>2. i = 1 \/ g[i - 1] = f[i - 1]
          BY <4>1
        <4>3. QED
          BY <3>1, <4>2
      <3>2. CASE i # n + 1
        <4>1. i \in 1..n /\ g[i] = f[i] /\ (i # 1 => g[i - 1] = f[i - 1])
          BY <3>2
        <4>2. f[i] = Step(f, i)
          BY <2>1, <4>1
        <4>3. QED
          BY <4>1, <4>2
      <3>3. QED
        BY <3>1, <3>2
    <2>3. g = [i \in 1..(n + 1) |-> Step(g, i)]
      BY <2>2
    <2> HIDE DEF g, Step
    <2>4. \E h : h = [i \in 1..(n + 1) |-> Step(h, i)]
      BY <2>3
    <2>5. QED
      BY <2>4
  <1>3. N \in S
    <2> HIDE DEF S
    <2> QED BY <1>1, <1>2, Induction
  <1>4. PICK f : f = [i \in 1..N |-> Step(f, i)]
    BY <1>3
  <1> DEFINE flat[i \in 1..N] == IF i = 1 THEN seqs[i] ELSE flat[i - 1] \o seqs[i]
  <1>5. flat = [i \in 1..N |-> Step(flat, i)]
    BY <1>4
  <1>6. FlattenSeq(seqs) = flat[N]
    BY DEF FlattenSeq
  <1> HIDE DEF flat, Step
  <1>7. \A n \in 1..N : flat[n] = Step(flat, n)
    BY <1>5
  <1>8. flat[1] = seqs[1] /\ \A n \in 2..N : flat[n] = flat[n - 1] \o seqs[n]
    <2>1. 1 \in 1..N /\ \A n \in 2..N : n \in 1..N /\ n # 1
      OBVIOUS
    <2>2. QED
      BY <1>7, <2>1 DEF Step
  <1>9. QED
    BY <1>6, <1>8

(* The round robin: one turn each.                                         *)
LEMMA RoundLaid ==
    ASSUME NEW a, Proper(a), a.strategy # "weightedRoundRobin"
    PROVE  Laid(a, [i \in 0..Size(a) |-> i])
  <1> DEFINE off == [i \in 0..Size(a) |-> i]
             N == Size(a)
  <1>1. N \in Nat /\ \A i \in 0..N : off[i] = i
    BY ProperMembers
  <1>2. \A i \in 1..N : Share(a, i) = 1
    BY DEF Share
  <1>3. /\ Turns(a) \in Seq(Members(a)) /\ Len(Turns(a)) = N
        /\ \A i \in 1..N : Turns(a)[i] = a.members[i].relay
    BY <1>1, ProperMembers DEF Turns
  <1>4. off \in [0..N -> Nat] /\ off[0] = 0
    BY <1>1
  <1> HIDE DEF off, N
  <1>5. \A k \in 1..N : \E i \in 1..N : off[i - 1] < k /\ k <= off[i]
    <2> SUFFICES ASSUME NEW k \in 1..N PROVE off[k - 1] < k /\ k <= off[k]
      OBVIOUS
    <2> QED BY <1>1
  <1>6. \A i \in 1..N : \A k \in Nat : off[i - 1] < k /\ k <= off[i] => k = i
    BY <1>1
  <1>7. QED
    BY <1>1, <1>2, <1>3, <1>4, <1>5, <1>6 DEF Laid, N, off

(* A block of turns of one member is put behind the others.                *)
LEMMA BlockJoined ==
    ASSUME NEW X, NEW f \in Seq(X), NEW b \in Seq(X), NEW n \in Nat, Len(b) = n,
           NEW r, \A k \in 1..n : b[k] = r
    PROVE  /\ f \o b \in Seq(X) /\ Len(f \o b) = Len(f) + n
           /\ \A k \in 1..Len(f) : (f \o b)[k] = f[k]
           /\ \A k \in Nat : Len(f) < k /\ k <= Len(f) + n => (f \o b)[k] = r
  <1>1. f \o b \in Seq(X) /\ Len(f \o b) = Len(f) + n /\ Len(f) \in Nat
    OBVIOUS
  <1>2. \A k \in 1..Len(f) : (f \o b)[k] = f[k]
    OBVIOUS
  <1>3. ASSUME NEW k \in Nat, Len(f) < k, k <= Len(f) + n PROVE (f \o b)[k] = r
    <2>1. k - Len(f) \in 1..n
      BY <1>1, <1>3
    <2>2. (f \o b)[k] = b[k - Len(f)]
      BY <1>1, <1>3
    <2>3. QED
      BY <2>1, <2>2
  <1>4. QED
    BY <1>1, <1>2, <1>3

(* The schedule of the weighted round robin.                               *)
LEMMA ScheduleLaid ==
    ASSUME NEW a, Proper(a), a.strategy = "weightedRoundRobin", Size(a) # 0
    PROVE  \E off : Laid(a, off)
  <1> DEFINE N == Size(a)
             rel(i) == a.members[i].relay
             w(i) == Weight(a.members[i])
             block(i) == [k \in 1..w(i) |-> rel(i)]
             seqs == [i \in DOMAIN a.members |-> block(i)]
  <1>1. /\ N \in Nat \ {0} /\ DOMAIN a.members = 1..N
        /\ \A i \in 1..N : w(i) \in Nat \ {0} /\ rel(i) \in Members(a)
    BY ProperMembers
  <1>2. Len(seqs) = N /\ \A i \in 1..N : seqs[i] = block(i)
    BY <1>1
  <1>3. \A i \in 1..N : /\ block(i) \in Seq(Members(a)) /\ Len(block(i)) = w(i)
                        /\ \A k \in 1..w(i) : block(i)[k] = rel(i)
    BY <1>1
  <1>4. Schedule(a) = FlattenSeq(seqs)
    BY DEF Schedule
  <1> HIDE DEF seqs, block, rel, w
  <1>5. PICK flat : /\ Schedule(a) = flat[N] /\ flat[1] = block(1)
                    /\ \A n \in 2..N : flat[n] = flat[n - 1] \o block(n)
    <2>1. PICK flat : /\ FlattenSeq(seqs) = flat[Len(seqs)] /\ flat[1] = seqs[1]
                      /\ \A n \in 2..Len(seqs) : flat[n] = flat[n - 1] \o seqs[n]
      BY <1>1, <1>2, FlattenUnfolds
    <2>2. 1 \in 1..N /\ \A n \in 2..N : n \in 1..N
      BY <1>1
    <2>3. /\ Schedule(a) = flat[N] /\ flat[1] = block(1)
          /\ \A n \in 2..N : flat[n] = flat[n - 1] \o block(n)
      BY <1>2, <1>4, <2>1, <2>2
    <2>4. QED
      BY <2>3
  <1> DEFINE off == [i \in 0..N |-> IF i = 0 THEN 0 ELSE Len(flat[i])]
             Ok(n) == /\ flat[n] \in Seq(Members(a)) /\ off[n] \in Nat /\ Len(flat[n]) = off[n]
                      /\ off[n] = off[n - 1] + w(n)
                      /\ \A i \in 0..n : off[i] \in Nat /\ off[i] <= off[n]
                      /\ \A k \in 1..off[n] : \E i \in 1..n : off[i - 1] < k /\ k <= off[i]
                      /\ \A i \in 1..n : \A k \in Nat : off[i - 1] < k /\ k <= off[i] =>
                             flat[n][k] = rel(i)
             S == {n \in Nat : n \in 1..N => Ok(n)}
  <1>6. off[0] = 0 /\ \A i \in 1..N : off[i] = Len(flat[i])
    BY <1>1
  <1>7. DOMAIN off = 0..N
    OBVIOUS
  <1> HIDE DEF off, Ok
  <1>8. ASSUME NEW n \in Nat, n \in S PROVE n + 1 \in S
    <2> SUFFICES ASSUME n + 1 \in 1..N PROVE Ok(n + 1)
      OBVIOUS
    <2>1. CASE n = 0
      <3>1. /\ 1 \in 1..N /\ flat[1] = block(1) /\ off[1] = w(1) /\ off[0] = 0
            /\ w(1) \in Nat \ {0}
        BY <1>1, <1>3, <1>5, <1>6
      <3>2. Ok(1)
        BY <1>3, <3>1 DEF Ok
      <3>3. QED
        BY <2>1, <3>2
    <2>2. CASE n # 0
      <3> DEFINE m == n + 1
      <3>1. m \in 2..N /\ m \in 1..N /\ n \in 1..N /\ m - 1 = n /\ Ok(n)
        BY <1>1, <1>8, <2>2
      <3> HIDE DEF m
      <3>2. PICK b : b = block(m)
        OBVIOUS
      <3>3. PICK r : r = rel(m)
        OBVIOUS
      <3>4. PICK p : p = w(m)
        OBVIOUS
      <3>5. /\ flat[n] \in Seq(Members(a)) /\ off[n] \in Nat /\ Len(flat[n]) = off[n]
            /\ b \in Seq(Members(a)) /\ Len(b) = p /\ p \in Nat
            /\ flat[m] = flat[n] \o b
            /\ \A k \in 1..p : b[k] = r
        BY <1>1, <1>3, <1>5, <3>1, <3>2, <3>3, <3>4 DEF Ok
      <3>6. /\ flat[m] \in Seq(Members(a)) /\ Len(flat[m]) = off[n] + p
            /\ \A k \in 1..off[n] : flat[m][k] = flat[n][k]
            /\ \A k \in Nat : off[n] < k /\ k <= off[n] + p => flat[m][k] = r
        <4>1. /\ flat[n] \o b \in Seq(Members(a)) /\ Len(flat[n] \o b) = off[n] + p
              /\ \A k \in 1..off[n] : (flat[n] \o b)[k] = flat[n][k]
              /\ \A k \in Nat : off[n] < k /\ k <= off[n] + p => (flat[n] \o b)[k] = r
          <5>1. flat[n] \in Seq(Members(a)) /\ b \in Seq(Members(a)) /\ p \in Nat /\ Len(b) = p
            BY <3>5
          <5>2. (\A k \in 1..p : b[k] = r) /\ Len(flat[n]) = off[n]
            BY <3>5
          <5>3. PICK g : g = flat[n]
            OBVIOUS
          <5>4. g \in Seq(Members(a))
            BY <5>1, <5>3, Zenon
          <5>5. /\ g \o b \in Seq(Members(a)) /\ Len(g \o b) = Len(g) + p
                /\ \A k \in 1..Len(g) : (g \o b)[k] = g[k]
                /\ \A k \in Nat : Len(g) < k /\ k <= Len(g) + p => (g \o b)[k] = r
            <6>1. b \in Seq(Members(a)) /\ p \in Nat /\ Len(b) = p /\ \A k \in 1..p : b[k] = r
              BY <5>1, <5>2
            <6>2. QED
              BY <5>4, <6>1, BlockJoined, SMTT(60)
          <5>6. QED
            BY <5>2, <5>3, <5>5
        <4>2. QED
          BY <3>5, <4>1, Zenon
      <3>7. off[m] = off[n] + p
        BY <1>6, <3>1, <3>6
      <3>8. \A i \in 0..m : i = m \/ i \in 0..n
        BY <3>1
      <3>9. \A i \in 1..m : i = m \/ i \in 1..n
        BY <3>1
      <3>10. \A i \in 0..m : off[i] \in Nat /\ off[i] <= off[m]
        <4>1. off[n] <= off[m] /\ off[m] \in Nat
          BY <3>5, <3>7
        <4>2. \A i \in 0..n : off[i] \in Nat /\ off[i] <= off[n]
          BY <3>1 DEF Ok
        <4>3. QED
          BY <3>5, <3>8, <4>1, <4>2
      <3>11. \A k \in 1..off[m] : \E i \in 1..m : off[i - 1] < k /\ k <= off[i]
        <4> SUFFICES ASSUME NEW k \in 1..off[m]
                     PROVE  \E i \in 1..m : off[i - 1] < k /\ k <= off[i]
          OBVIOUS
        <4>1. k \in Nat /\ 1 <= k /\ k <= off[m] /\ off[m] \in Nat
          BY <3>5, <3>7
        <4>2. CASE off[n] < k
          BY <3>1, <4>1, <4>2
        <4>3. CASE k <= off[n]
          <5>1. k \in 1..off[n]
            BY <3>5, <4>1, <4>3
          <5>2. PICK i \in 1..n : off[i - 1] < k /\ k <= off[i]
            BY <3>1, <5>1 DEF Ok
          <5>3. i \in 1..m
            BY <3>1
          <5>4. QED
            BY <5>2, <5>3
        <4>4. QED
          BY <3>5, <4>1, <4>2, <4>3
      <3>12. \A i \in 1..m : \A k \in Nat : off[i - 1] < k /\ k <= off[i] => flat[m][k] = rel(i)
        <4> SUFFICES ASSUME NEW i \in 1..m, NEW k \in Nat, off[i - 1] < k, k <= off[i]
                     PROVE  flat[m][k] = rel(i)
          OBVIOUS
        <4>1. CASE i = m
          BY <3>1, <3>3, <3>5, <3>6, <3>7, <4>1
        <4>2. CASE i \in 1..n
          <5>1. /\ flat[n][k] = rel(i) /\ i \in 0..n /\ i - 1 \in 0..n
            BY <3>1, <4>2 DEF Ok
          <5>2. off[i - 1] \in Nat /\ off[i] <= off[n] /\ off[i] \in Nat
            BY <3>1, <5>1 DEF Ok
          <5>3. 1 <= k /\ k <= off[n]
            BY <3>5, <5>2
          <5>4. QED
            BY <3>6, <5>1, <5>3
        <4>3. QED
          BY <3>9, <4>1, <4>2
      <3>13. Ok(m)
        <4>1. off[m] \in Nat /\ Len(flat[m]) = off[m] /\ off[m] = off[m - 1] + w(m)
          BY <3>1, <3>4, <3>5, <3>6, <3>7
        <4>2. QED
          BY <3>6, <3>10, <3>11, <3>12, <4>1 DEF Ok
      <3>14. QED
        BY <3>13 DEF m
    <2>3. QED
      BY <2>1, <2>2
  <1>9. 0 \in S
    OBVIOUS
  <1>10. \A n \in 1..N : Ok(n)
    <2>1. \A n \in Nat : n \in S
      <3> HIDE DEF S
      <3> QED BY <1>8, <1>9, Induction
    <2>2. QED
      BY <1>1, <2>1
  <1> HIDE DEF S
  <1>11. \A i, j \in 0..N : i <= j => off[i] \in Nat /\ off[j] \in Nat /\ off[i] <= off[j]
    <2> SUFFICES ASSUME NEW i \in 0..N, NEW j \in 0..N, i <= j
                 PROVE  off[i] \in Nat /\ off[j] \in Nat /\ off[i] <= off[j]
      OBVIOUS
    <2>1. CASE j = 0
      BY <1>6, <2>1
    <2>2. CASE j # 0
      <3>1. j \in 1..N /\ i \in 0..j /\ j \in 0..j
        BY <2>2
      <3>2. QED
        BY <1>10, <3>1 DEF Ok
    <2>3. QED
      BY <2>1, <2>2
  <1>12. \A i \in 1..N : off[i] = off[i - 1] + Share(a, i)
    BY <1>10 DEF Share, w, Ok
  <1>13. off \in [0..N -> Nat]
    BY <1>7, <1>11 DEF off
  <1>14. N \in 1..N /\ Ok(N)
    BY <1>1, <1>10
  <1>15. /\ Turns(a) = flat[N] /\ flat[N] \in Seq(Members(a)) /\ Len(flat[N]) = off[N]
    BY <1>5, <1>14 DEF Turns, Ok
  <1>16. /\ \A k \in 1..off[N] : \E i \in 1..N : off[i - 1] < k /\ k <= off[i]
         /\ \A i \in 1..N : \A k \in Nat : off[i - 1] < k /\ k <= off[i] => flat[N][k] = rel(i)
    BY <1>14 DEF Ok
  <1>17. Laid(a, off)
    BY <1>6, <1>11, <1>12, <1>13, <1>15, <1>16 DEF Laid, rel
  <1>18. QED
    BY <1>17

(* The turns of a cycle are the members one after the other, by weight or  *)
(* once each.                                                              *)
LEMMA TurnsLaid ==
    ASSUME NEW a, Proper(a), Size(a) # 0
    PROVE  \E off : Laid(a, off)
  BY RoundLaid, ScheduleLaid

-----------------------------------------------------------------------------
(* The circle of the members.                                              *)
LEMMA MemberAtPosition ==
    ASSUME NEW a, Proper(a), Size(a) # 0
    PROVE  /\ \A i \in Nat : MemberAt(a, i) \in Members(a) \cap Relays
           /\ \A i \in 0..(Size(a) - 1) : MemberAt(a, i) = a.members[i + 1].relay
           /\ \A i \in Size(a)..(2 * Size(a) - 1) :
                  MemberAt(a, i) = a.members[i - Size(a) + 1].relay
           /\ \A i \in 0..(Size(a) - 1) : MemberAt(a, (i + 1) % Size(a)) = MemberAt(a, i + 1)
  <1> DEFINE N == Size(a)
  <1>1. N \in Nat \ {0} /\ \A i \in 1..N : a.members[i].relay \in Members(a) \cap Relays
    BY ProperMembers
  <1>2. \A i \in Nat : i % N \in 0..(N - 1)
    BY <1>1
  <1>3. \A i \in 0..(N - 1) : i % N = i
    BY <1>1
  <1>4. \A i \in N..(2 * N - 1) : i % N = i - N
    BY <1>1, Wrap
  <1>5. \A i \in 0..(N - 1) : (i + 1) % N \in 0..(N - 1)
    BY <1>2
  <1> HIDE DEF N
  <1>6. \A i \in 0..(N - 1) : ((i + 1) % N) % N = (i + 1) % N
    BY <1>3, <1>5
  <1>7. \A i : MemberAt(a, i) = a.members[(i % N) + 1].relay
    BY DEF MemberAt, N
  <1>8. \A i \in Nat : (i % N) + 1 \in 1..N
    BY <1>1, <1>2
  <1>9. \A i \in Nat : MemberAt(a, i) \in Members(a) \cap Relays
    BY <1>1, <1>7, <1>8
  <1>10. \A i \in 0..(N - 1) : MemberAt(a, i) = a.members[i + 1].relay
    BY <1>3, <1>7
  <1>11. \A i \in N..(2 * N - 1) : MemberAt(a, i) = a.members[i - N + 1].relay
    BY <1>4, <1>7
  <1>12. \A i \in 0..(N - 1) : MemberAt(a, (i + 1) % N) = MemberAt(a, i + 1)
    BY <1>6, <1>7
  <1>13. QED
    BY <1>9, <1>10, <1>11, <1>12 DEF N

(* Going round from behind the p-th of n members: each other one once.     *)
LEMMA Around ==
    ASSUME NEW n \in Nat \ {0}, NEW p \in 1..n
    PROVE  LET at == [k \in 1..(n - 1) |-> IF p + k - 1 < n THEN p + k ELSE p + k - n]
           IN  /\ \A k \in 1..(n - 1) : at[k] \in 1..n /\ at[k] # p
               /\ \A j, k \in 1..(n - 1) : at[j] = at[k] => j = k
               /\ \A q \in 1..n : q # p => \E k \in 1..(n - 1) : at[k] = q
  <1> DEFINE at == [k \in 1..(n - 1) |-> IF p + k - 1 < n THEN p + k ELSE p + k - n]
  <1>0. \A k \in 1..(n - 1) : at[k] = IF p + k - 1 < n THEN p + k ELSE p + k - n
    OBVIOUS
  <1> HIDE DEF at
  <1>1. \A k \in 1..(n - 1) : at[k] \in 1..n /\ at[k] # p
    BY <1>0
  <1>2. \A j, k \in 1..(n - 1) : at[j] = at[k] => j = k
    BY <1>0
  <1>3. ASSUME NEW q \in 1..n, q # p PROVE \E k \in 1..(n - 1) : at[k] = q
    <2>1. CASE q > p
      <3>1. q - p \in 1..(n - 1) /\ at[q - p] = q
        BY <1>0, <1>3, <2>1
      <3>2. QED
        BY <3>1
    <2>2. CASE q < p
      <3>1. q - p + n \in 1..(n - 1) /\ at[q - p + n] = q
        BY <1>0, <1>3, <2>2
      <3>2. QED
        BY <3>1
    <2>3. QED
      BY <1>3, <2>1, <2>2
  <1>4. QED
    BY <1>1, <1>2, <1>3 DEF at

(* The relays a request under s that got this one will try, in order.      *)
Candidates(s, relay) == <<relay>> \o Fallbacks(s, relay)

(* The members behind the p-th one, all but that one.                      *)
Behinds(a, p, list) ==
    /\ list \in Seq(Members(a)) /\ Len(list) = Size(a) - 1
    /\ \A k \in 1..(Size(a) - 1) : list[k] = MemberAt(a, p + k - 1)
    /\ IsInjective(list) /\ a.members[p].relay \notin Range(list)
    /\ \A m \in Members(a) : \/ m = a.members[p].relay
                              \/ \E k \in 1..(Size(a) - 1) : list[k] = m

(* The fallbacks are the usable members met on the way round the circle.   *)
LEMMA FallbacksAround ==
    ASSUME NEW s, Proper(s.aggregate), NEW p \in 1..Size(s.aggregate)
    PROVE  \E list : /\ Behinds(s.aggregate, p, list)
                     /\ Fallbacks(s, s.aggregate.members[p].relay) = AvailableIn(s, list)
  <1> DEFINE a == s.aggregate
             n == Size(a)
             relay == a.members[p].relay
             list == [k \in 1..(n - 1) |-> MemberAt(a, p + k - 1)]
             at == {i \in DOMAIN a.members : a.members[i].relay = relay}
             start == IF at = {} THEN 0 ELSE CHOOSE i \in at : \A j \in at : i <= j
             to == [k \in 1..(n - 1) |-> IF p + k - 1 < n THEN p + k ELSE p + k - n]
  <1>1. n \in Nat \ {0} /\ DOMAIN a.members = 1..n
    BY ProperMembers
  <1>2. \A i \in 1..n : a.members[i].relay = relay <=> i = p
    BY ProperMembers
  <1>3. at = {p}
    BY <1>1, <1>2
  <1>4. start = p
    <2> HIDE DEF at
    <2> QED BY <1>1, <1>3
  <1>5. Fallbacks(s, relay) = AvailableIn(s, list)
    <2>1. Fallbacks(s, relay) =
             AvailableIn(s, [k \in 1..(n - 1) |-> MemberAt(a, start + k - 1)])
      BY Zenon DEF Fallbacks, Behind
    <2> HIDE DEF start
    <2>2. QED
      BY <1>4, <2>1, Zenon
  <1> HIDE DEF at, start
  <1>14. /\ \A i \in 0..(n - 1) : MemberAt(a, i) = a.members[i + 1].relay
         /\ \A i \in n..(2 * n - 1) : MemberAt(a, i) = a.members[i - n + 1].relay
    BY <1>1, MemberAtPosition
  <1>6. ASSUME NEW k \in 1..(n - 1)
        PROVE  list[k] = MemberAt(a, p + k - 1) /\ list[k] = a.members[to[k]].relay
    <2>1. list[k] = MemberAt(a, p + k - 1)
      OBVIOUS
    <2>2. PICK x : x = p + k - 1
      OBVIOUS
    <2>3. to[k] = IF x < n THEN x + 1 ELSE x - n + 1
      BY <1>1, <2>2
    <2>4. x \in Nat /\ x \in 0..(2 * n - 1)
      BY <1>1, <2>2
    <2>5. list[k] = MemberAt(a, x)
      BY <2>1, <2>2
    <2> HIDE DEF list, to
    <2>6. CASE x < n
      BY <1>1, <1>14, <2>1, <2>3, <2>4, <2>5, <2>6
    <2>7. CASE ~(x < n)
      <3>1. x \in n..(2 * n - 1)
        BY <1>1, <2>4, <2>7
      <3>2. MemberAt(a, x) = a.members[x - n + 1].relay
        BY <1>14, <3>1
      <3>3. QED
        BY <2>1, <2>3, <2>5, <2>7, <3>2
    <2>8. QED
      BY <2>6, <2>7
  <1>7. /\ \A k \in 1..(n - 1) : to[k] \in 1..n /\ to[k] # p
        /\ \A j, k \in 1..(n - 1) : to[j] = to[k] => j = k
        /\ \A q \in 1..n : q # p => \E k \in 1..(n - 1) : to[k] = q
    BY <1>1, Around, Zenon
  <1>8. DOMAIN list = 1..(n - 1)
    OBVIOUS
  <1> HIDE DEF to
  <1>9. list \in Seq(Members(a)) /\ Len(list) = n - 1
    <2>1. \A k \in 1..(n - 1) : MemberAt(a, p + k - 1) \in Members(a)
      <3>1. \A k \in 1..(n - 1) : p + k - 1 \in Nat
        BY <1>1
      <3>2. \A i \in Nat : MemberAt(a, i) \in Members(a)
        BY <1>1, MemberAtPosition
      <3>3. QED
        BY <3>1, <3>2
    <2>2. n - 1 \in Nat
      BY <1>1
    <2>3. QED
      BY <2>1, <2>2
  <1> HIDE DEF list
  <1>10. IsInjective(list)
    <2> SUFFICES ASSUME NEW i \in 1..(n - 1), NEW j \in 1..(n - 1), list[i] = list[j]
                 PROVE  i = j
      BY <1>8 DEF IsInjective
    <2>1. /\ to[i] \in 1..n /\ to[j] \in 1..n
          /\ a.members[to[i]].relay = a.members[to[j]].relay
      BY <1>6, <1>7
    <2>3. to[i] = to[j]
      BY <2>1, ProperMembers
    <2>2. QED
      BY <1>7, <2>3
  <1>11. relay \notin Range(list)
    <2>1. \A k \in 1..(n - 1) : list[k] # relay
      BY <1>2, <1>6, <1>7
    <2>2. QED
      BY <1>8, <2>1 DEF Range
  <1>12. \A m \in Members(a) : m = relay \/ \E k \in 1..(n - 1) : list[k] = m
    <2> SUFFICES ASSUME NEW m \in Members(a), m # relay PROVE \E k \in 1..(n - 1) : list[k] = m
      OBVIOUS
    <2>1. PICK q \in 1..n : m = a.members[q].relay
      BY ProperMembers
    <2>2. QED
      BY <1>6, <1>7, <2>1
  <1>13. Behinds(a, p, list)
    BY <1>6, <1>9, <1>10, <1>11, <1>12 DEF Behinds
  <1>15. QED
    BY <1>5, <1>13

(* They are the members that can be used, each once.                       *)
LEMMA CandidatesThorough ==
    ASSUME NEW s, Proper(s.aggregate), NEW relay, Available(s, relay)
    PROVE  LET c == Candidates(s, relay) IN
           /\ c \in Seq(Members(s.aggregate)) /\ c # <<>>
           /\ Range(c) = Members(s.aggregate) \cap s.usable
           /\ IsInjective(c)
  <1> DEFINE f == Fallbacks(s, relay)
             c == Candidates(s, relay)
  <1>a. PICK a : a = s.aggregate
    OBVIOUS
  <1>n. PICK n : n = Size(a)
    OBVIOUS
  <1>b. Proper(a) /\ relay \in Members(a)
    BY <1>a DEF Available
  <1>1. PICK p \in 1..n : relay = a.members[p].relay
    BY <1>b, <1>n, ProperMembers
  <1>2. PICK list : /\ Behinds(a, p, list) /\ f = AvailableIn(s, list)
    BY <1>1, <1>a, <1>n, FallbacksAround
  <1>12. /\ list \in Seq(Members(a)) /\ Len(list) = n - 1
         /\ IsInjective(list) /\ relay \notin Range(list)
         /\ \A m \in Members(a) : m = relay \/ \E k \in 1..(n - 1) : list[k] = m
    BY <1>1, <1>2, <1>n DEF Behinds
  <1>3. f \in Seq(Members(a)) /\ Sifted(s, list, f, n - 1)
    BY <1>2, <1>12, AvailableInSifts
  <1>4. relay \in Members(a) /\ relay \in s.usable
    BY <1>a DEF Available
  <1> HIDE DEF f
  <1>5. /\ c \in Seq(Members(a)) /\ c # <<>> /\ Len(c) = Len(f) + 1 /\ c[1] = relay
        /\ \A i \in 1..Len(f) : c[i + 1] = f[i]
        /\ Len(f) \in Nat /\ DOMAIN c = 1..Len(c) /\ DOMAIN f = 1..Len(f)
        /\ DOMAIN list = 1..(n - 1)
    BY <1>3, <1>4, <1>12 DEF Candidates, f
  <1> HIDE DEF c
  <1>6. \A i \in 1..Len(c) : i = 1 \/ (i - 1 \in 1..Len(f) /\ c[i] = f[i - 1])
    BY <1>5
  <1>7. ASSUME NEW i \in 1..Len(f)
        PROVE  f[i] \in Range(list) /\ f[i] # relay /\ Available(s, f[i])
    <2>1. PICK k \in 1..(n - 1) : f[i] = list[k] /\ Available(s, list[k])
      BY <1>3 DEF Sifted
    <2>2. list[k] \in Range(list)
      BY <1>5 DEF Range
    <2>3. QED
      BY <1>12, <2>1, <2>2
  <1>8. IsInjective(c)
    <2> SUFFICES ASSUME NEW i \in 1..Len(c), NEW j \in 1..Len(c), c[i] = c[j] PROVE i = j
      BY <1>5 DEF IsInjective
    <2>1. \A x, y \in 1..Len(f) : f[x] = f[y] => x = y
      BY <1>3, <1>5, <1>12 DEF Sifted, IsInjective
    <2>2. CASE i = 1 \/ j = 1
      BY <1>5, <1>6, <1>7, <2>2
    <2>3. CASE i # 1 /\ j # 1
      <3>1. i - 1 \in 1..Len(f) /\ j - 1 \in 1..Len(f) /\ f[i - 1] = f[j - 1]
        BY <1>6, <2>3
      <3>2. i - 1 = j - 1
        BY <2>1, <3>1
      <3>3. QED
        BY <3>2
    <2>4. QED
      BY <2>2, <2>3
  <1>9. ASSUME NEW m PROVE m \in Range(c) <=> m \in Members(a) /\ m \in s.usable
    <2>1. ASSUME m \in Range(c) PROVE m \in Members(a) /\ m \in s.usable
      <3>1. PICK i \in 1..Len(c) : m = c[i]
        BY <1>5, <2>1 DEF Range
      <3>2. QED
        BY <1>4, <1>5, <1>6, <1>7, <1>a, <3>1 DEF Available
    <2>2. ASSUME m \in Members(a), m \in s.usable PROVE m \in Range(c)
      <3>1. CASE m = relay
        BY <1>5, <3>1 DEF Range
      <3>2. CASE m # relay
        <4>1. PICK k \in 1..(n - 1) : list[k] = m
          BY <1>12, <2>2, <3>2
        <4>2. PICK i \in 1..Len(f) : f[i] = m
          BY <1>a, <1>3, <1>12, <2>2, <4>1 DEF Sifted, Available
        <4>3. i + 1 \in DOMAIN c /\ c[i + 1] = m
          BY <1>5, <4>2
        <4>4. QED
          BY <4>3 DEF Range
      <3>3. QED
        BY <3>1, <3>2
    <2>3. QED
      BY <2>1, <2>2
  <1>10. Range(c) = Members(a) \cap s.usable
    BY <1>9
  <1>11. QED
    BY <1>a, <1>5, <1>8, <1>10 DEF c

-----------------------------------------------------------------------------
(* What a selector is.                                                     *)
SelectorShape(x) ==
    x = [aggregate |-> x.aggregate, failover |-> x.failover, request |-> x.request,
         weighted |-> x.weighted, assigned |-> x.assigned]

Position(x) == IF x.aggregate.strategy = "weightedRoundRobin" THEN x.weighted ELSE x.request

SelectorStates ==
    {NoSelector} \cup
    {x \in [aggregate : {a \in Aggregates : Size(a) # 0}, failover : Nat, request : Nat,
            weighted : Nat, assigned : UNION {[C -> Relays] : C \in SUBSET Convs}] :
        /\ x.failover < Size(x.aggregate) /\ x.request < Size(x.aggregate)
        /\ Position(x) < Len(Turns(x.aggregate))
        /\ \A c \in DOMAIN x.assigned : x.assigned[c] \in Members(x.aggregate)}

(* Every turn is a member's, and every member has one.                     *)
LEMMA TurnsAreMembers ==
    ASSUME NEW a, Proper(a), Size(a) # 0
    PROVE  /\ Len(Turns(a)) \in Nat \ {0}
           /\ \A k \in 1..Len(Turns(a)) : Turns(a)[k] \in Members(a)
           /\ a.strategy = "weightedRoundRobin" => Turns(a) = Schedule(a)
           /\ a.strategy # "weightedRoundRobin" =>
                  /\ Len(Turns(a)) = Size(a)
                  /\ \A i \in 0..(Size(a) - 1) : Turns(a)[i + 1] = MemberAt(a, i)
  <1>1. PICK off : Laid(a, off)
    BY TurnsLaid
  <1>2. /\ Size(a) \in Nat \ {0} /\ Share(a, 1) \in Nat \ {0}
        /\ \A i \in 1..Size(a) : Share(a, i) \in Nat \ {0}
    BY ProperMembers
  <1>3. /\ off[1] = off[0] + Share(a, 1) /\ off[0] = 0 /\ off[1] <= off[Size(a)]
        /\ Len(Turns(a)) = off[Size(a)] /\ off[Size(a)] \in Nat /\ Turns(a) \in Seq(Members(a))
    BY <1>1, <1>2 DEF Laid
  <1>4. Len(Turns(a)) \in Nat \ {0} /\ \A k \in 1..Len(Turns(a)) : Turns(a)[k] \in Members(a)
    BY <1>2, <1>3, ElementOfSeq
  <1>5. ASSUME a.strategy # "weightedRoundRobin"
        PROVE  /\ Len(Turns(a)) = Size(a)
               /\ \A i \in 0..(Size(a) - 1) : Turns(a)[i + 1] = MemberAt(a, i)
    <2>1. Turns(a) = [i \in 1..Size(a) |-> a.members[i].relay]
      BY <1>5 DEF Turns
    <2>2. \A i \in 0..(Size(a) - 1) : MemberAt(a, i) = a.members[i + 1].relay
      BY MemberAtPosition
    <2>3. \A i \in 0..(Size(a) - 1) : i + 1 \in 1..Size(a)
      BY <1>2
    <2>4. QED
      BY <1>2, <2>1, <2>2, <2>3
  <1>6. QED
    BY <1>4, <1>5 DEF Turns

(* The aggregates of the settings are proper.                              *)
LEMMA Aggregated ==
    ASSUME NEW s \in Configs, s.aggregate # NoAggregate
    PROVE  s.aggregate \in Aggregates /\ Proper(s.aggregate)
  BY RotationAssumption DEF Aggregates

(* The selector a request finds or makes.                                  *)
LEMMA CurrentStands ==
    ASSUME selector \in SelectorStates, NEW s \in Configs, s.aggregate # NoAggregate,
           Size(s.aggregate) # 0
    PROVE  /\ Current(s) \in SelectorStates /\ Current(s) # NoSelector
           /\ Current(s).aggregate = s.aggregate
           /\ Current(s) = selector \/ Current(s) = Fresh(s.aggregate)
           /\ selector.aggregate = s.aggregate => Current(s) = selector
  <1>1. s.aggregate \in Aggregates /\ Proper(s.aggregate)
    BY Aggregated
  <1>2. Size(s.aggregate) \in Nat \ {0} /\ Len(Turns(s.aggregate)) \in Nat \ {0}
    BY <1>1, ProperMembers, TurnsAreMembers
  <1>3. Fresh(s.aggregate) \in SelectorStates
    <2> DEFINE x == Fresh(s.aggregate)
    <2>1. [c \in {} |-> NoRelay] \in UNION {[C -> Relays] : C \in SUBSET Convs}
      OBVIOUS
    <2>2. /\ x \in [aggregate : {a \in Aggregates : Size(a) # 0}, failover : Nat,
                    request : Nat, weighted : Nat,
                    assigned : UNION {[C -> Relays] : C \in SUBSET Convs}]
          /\ x.aggregate = s.aggregate /\ x.failover = 0 /\ x.request = 0 /\ x.weighted = 0
          /\ DOMAIN x.assigned = {}
      BY <1>1, <1>2, <2>1 DEF Fresh
    <2> HIDE DEF x
    <2>3. x \in SelectorStates
      BY <1>2, <2>2 DEF SelectorStates, Position
    <2>4. QED
      BY <2>3 DEF x
  <1>4. Fresh(s.aggregate).aggregate = s.aggregate /\ NoSelector.aggregate = NoAggregate
    BY DEF Fresh, NoSelector
  <1>5. QED
    BY <1>3, <1>4 DEF Current

(* The fields of a selector, and where they lie.                           *)
LEMMA SelectorFields ==
    ASSUME NEW x \in SelectorStates, x # NoSelector
    PROVE  /\ x.aggregate \in Aggregates /\ Proper(x.aggregate)
           /\ Size(x.aggregate) \in Nat \ {0} /\ Len(Turns(x.aggregate)) \in Nat \ {0}
           /\ x.failover \in 0..(Size(x.aggregate) - 1)
           /\ x.request \in 0..(Size(x.aggregate) - 1)
           /\ x.weighted \in Nat
           /\ Position(x) \in 0..(Len(Turns(x.aggregate)) - 1)
           /\ DOMAIN x.assigned \subseteq Convs
           /\ \A c \in DOMAIN x.assigned : x.assigned[c] \in Members(x.aggregate)
  <1>1. /\ x.aggregate \in Aggregates /\ Size(x.aggregate) # 0
        /\ x.failover \in Nat /\ x.request \in Nat /\ x.weighted \in Nat
        /\ x.failover < Size(x.aggregate) /\ x.request < Size(x.aggregate)
        /\ Position(x) < Len(Turns(x.aggregate)) /\ Position(x) \in Nat
        /\ \A c \in DOMAIN x.assigned : x.assigned[c] \in Members(x.aggregate)
        /\ DOMAIN x.assigned \subseteq Convs
    BY DEF SelectorStates, Position
  <1>2. Proper(x.aggregate)
    BY <1>1, RotationAssumption
  <1>3. Size(x.aggregate) \in Nat \ {0} /\ Len(Turns(x.aggregate)) \in Nat \ {0}
    BY <1>1, <1>2, ProperMembers, TurnsAreMembers
  <1>4. QED
    BY <1>1, <1>2, <1>3

(* A selector with other positions is a selector.                          *)
LEMMA ConvsKept ==
    ASSUME NEW x \in SelectorStates, x # NoSelector, NEW f, NEW g, NEW w, NEW assigned,
           f \in Nat, g \in Nat, w \in Nat,
           f < Size(x.aggregate), g < Size(x.aggregate),
           x.aggregate.strategy = "weightedRoundRobin" => w < Len(Turns(x.aggregate)),
           x.aggregate.strategy # "weightedRoundRobin" => g < Len(Turns(x.aggregate)),
           DOMAIN assigned \subseteq Convs, assigned = [c \in DOMAIN assigned |-> assigned[c]],
           \A c \in DOMAIN assigned : assigned[c] \in Members(x.aggregate) \cap Relays
    PROVE  LET y == [aggregate |-> x.aggregate, failover |-> f, request |-> g, weighted |-> w,
                     assigned |-> assigned]
           IN  y \in SelectorStates
  <1>1. assigned \in UNION {[C -> Relays] : C \in SUBSET Convs}
    <2>1. assigned \in [DOMAIN assigned -> Relays]
      OBVIOUS
    <2>2. QED
      BY <2>1
  <1>2. x.aggregate \in {a \in Aggregates : Size(a) # 0}
    BY SelectorFields
  <1>3. QED
    BY <1>1, <1>2 DEF SelectorStates, Position

-----------------------------------------------------------------------------
(* What a choice gives, and what it leaves of the selector.                *)
LEMMA MembersAreRelays ==
    ASSUME NEW a, Proper(a)
    PROVE  Members(a) \subseteq Relays
  <1>1. \A m \in Members(a) : \E i \in 1..Size(a) : m = a.members[i].relay
    BY ProperMembers
  <1>2. \A i \in 1..Size(a) : a.members[i].relay \in Relays
    BY ProperMembers
  <1>3. QED
    BY <1>1, <1>2

(* Only the missing selector is of no aggregate.                           *)
LEMMA NoSelectorNoAggregate ==
    ASSUME NEW x \in SelectorStates
    PROVE  x = NoSelector <=> x.aggregate = NoAggregate
  <1>1. NoSelector.aggregate = NoAggregate /\ NoAggregate \notin Aggregates
    BY DEF NoSelector, Fresh, Aggregates
  <1>2. QED
    BY <1>1, SelectorFields

(* A selector is the record of its fields.                                 *)
LEMMA SelectorShaped ==
    ASSUME NEW x \in SelectorStates
    PROVE  SelectorShape(x)
  <1>1. CASE x = NoSelector
    BY <1>1 DEF NoSelector, Fresh, SelectorShape
  <1>2. CASE x # NoSelector
    BY <1>2 DEF SelectorStates, SelectorShape
  <1>3. QED
    BY <1>1, <1>2

(* A route by model leads to a member that is available.                   *)
LEMMA RouteIsAvailable ==
    ASSUME NEW s, Proper(s.aggregate), NEW model, Routed(s, model) # NoRelay
    PROVE  Available(s, Routed(s, model))
  <1> DEFINE list == s.aggregate.routes[model]
             hits == AvailableIn(s, list)
  <1>1. model \in DOMAIN s.aggregate.routes /\ Routed(s, model) = hits[1] /\ hits # <<>>
    BY DEF Routed
  <1>2. list \in Seq(Range(list))
    BY <1>1 DEF Proper
  <1>3. hits \in Seq(Range(list)) /\ Sifted(s, list, hits, Len(list))
    BY <1>2, AvailableInSifts
  <1> HIDE DEF hits, list
  <1>4. 1 \in 1..Len(hits)
    BY <1>1, <1>3
  <1>5. QED
    BY <1>1, <1>3, <1>4 DEF Sifted

(* Whose turn it was, and whose it is next.                                *)
Turned(x, relay, y) ==
    /\ relay = Turns(x.aggregate)[Position(x) + 1]
    /\ Position(y) = (Position(x) + 1) % Len(Turns(x.aggregate))

(* One selector comes after another of the same aggregate.                 *)
Follows(x, y) ==
    /\ y \in SelectorStates /\ y # NoSelector
    /\ y.aggregate = x.aggregate /\ y.failover = x.failover
    /\ \A c \in DOMAIN x.assigned : c \in DOMAIN y.assigned /\ y.assigned[c] = x.assigned[c]

(* next_request takes the next turn of the round robin.                    *)
LEMMA NextRequestTurns ==
    ASSUME NEW x \in SelectorStates, x # NoSelector,
           x.aggregate.strategy # "weightedRoundRobin"
    PROVE  LET next == NextRequest(x) IN
           /\ Follows(x, next.sel) /\ next.sel.assigned = x.assigned
           /\ next.relay \in Members(x.aggregate) \cap Relays
           /\ next = [relay |-> next.relay, turn |-> TRUE, sel |-> next.sel]
           /\ Turned(x, next.relay, next.sel)
  <1> DEFINE next == NextRequest(x)
             a == x.aggregate
             n == Size(a)
             y == [aggregate |-> a, failover |-> x.failover, request |-> (x.request + 1) % n,
                   weighted |-> x.weighted, assigned |-> x.assigned]
  <1>1. /\ Proper(a) /\ n \in Nat \ {0} /\ x.failover \in 0..(n - 1) /\ x.request \in 0..(n - 1)
        /\ x.weighted \in Nat /\ DOMAIN x.assigned \subseteq Convs
        /\ \A c \in DOMAIN x.assigned : x.assigned[c] \in Members(a)
    BY SelectorFields
  <1>2. Len(Turns(a)) = n /\ \A i \in 0..(n - 1) : Turns(a)[i + 1] = MemberAt(a, i)
    BY <1>1, TurnsAreMembers
  <1>3. SelectorShape(x)
    BY SelectorShaped
  <1>4. next.sel = y /\ next.relay = MemberAt(a, x.request) /\ next.turn = TRUE
        /\ next = [relay |-> next.relay, turn |-> TRUE, sel |-> next.sel]
    BY <1>3 DEF NextRequest, SelectorShape
  <1>5. Members(a) \subseteq Relays
    BY <1>1, MembersAreRelays
  <1>6. x.assigned = [c \in DOMAIN x.assigned |-> x.assigned[c]]
    BY DEF SelectorStates
  <1>7. (x.request + 1) % n \in Nat /\ (x.request + 1) % n < n
    <2>1. PICK v \in Nat : v = x.request + 1
      BY <1>1
    <2>2. v % n \in 0..(n - 1)
      BY <1>1, WrapIn
    <2>3. QED
      BY <1>1, <2>1, <2>2
  <1>8. y \in SelectorStates
    <2> DEFINE g == (x.request + 1) % n
    <2>1. g \in Nat /\ g < n
      BY <1>7
    <2> HIDE DEF g
    <2>2. [aggregate |-> a, failover |-> x.failover, request |-> g,
           weighted |-> x.weighted, assigned |-> x.assigned] \in SelectorStates
      BY <1>1, <1>2, <1>5, <1>6, <2>1, ConvsKept
    <2>3. QED
      BY <2>2 DEF g
  <1>9. y.aggregate = a /\ a # NoAggregate
    BY NoSelectorNoAggregate
  <1>10. y # NoSelector
    BY <1>8, <1>9, NoSelectorNoAggregate
  <1>11. Follows(x, y)
    BY <1>8, <1>9, <1>10 DEF Follows
  <1>12. MemberAt(a, x.request) \in Members(a) \cap Relays
    BY <1>1, MemberAtPosition
  <1>13. Turned(x, MemberAt(a, x.request), y)
    BY <1>1, <1>2 DEF Turned, Position
  <1> HIDE DEF next
  <1>14. QED
    BY <1>4, <1>11, <1>12, <1>13 DEF next

(* next_weighted takes the next turn of the weighted cycle.                *)
LEMMA NextWeightedTurns ==
    ASSUME NEW x \in SelectorStates, x # NoSelector,
           x.aggregate.strategy = "weightedRoundRobin"
    PROVE  LET next == NextWeighted(x) IN
           /\ Follows(x, next.sel)
           /\ next.relay \in Members(x.aggregate)
           /\ next = [relay |-> next.relay, turn |-> TRUE, sel |-> next.sel]
           /\ Turned(x, next.relay, next.sel)
  <1> DEFINE next == NextWeighted(x)
             a == x.aggregate
             n == Len(Turns(a))
             w == x.weighted
             y == [aggregate |-> a, failover |-> x.failover, request |-> x.request,
                   weighted |-> (w + 1) % n, assigned |-> x.assigned]
  <1>1. /\ Proper(a) /\ n \in Nat \ {0} /\ Size(a) \in Nat \ {0}
        /\ x.failover \in 0..(Size(a) - 1) /\ x.request \in 0..(Size(a) - 1)
        /\ w \in 0..(n - 1) /\ DOMAIN x.assigned \subseteq Convs
        /\ \A c \in DOMAIN x.assigned : x.assigned[c] \in Members(a)
    BY SelectorFields DEF Position
  <1>2. Turns(a) = Schedule(a) /\ \A k \in 1..n : Turns(a)[k] \in Members(a)
    BY <1>1, TurnsAreMembers
  <1>3. SelectorShape(x)
    BY SelectorShaped
  <1>4. next.sel = y /\ next.relay = Turns(a)[(w % n) + 1] /\ next.turn = TRUE
        /\ next = [relay |-> next.relay, turn |-> TRUE, sel |-> next.sel]
    BY <1>2, <1>3 DEF NextWeighted, SelectorShape
  <1>5. Members(a) \subseteq Relays
    BY <1>1, MembersAreRelays
  <1>6. x.assigned = [c \in DOMAIN x.assigned |-> x.assigned[c]]
    BY DEF SelectorStates
  <1>7. (w + 1) % n \in Nat /\ (w + 1) % n < n
    <2>1. PICK v \in Nat : v = w + 1
      BY <1>1
    <2>2. v % n \in 0..(n - 1)
      BY <1>1, WrapIn
    <2>3. QED
      BY <1>1, <2>1, <2>2
  <1>8. y \in SelectorStates
    <2> DEFINE g == (w + 1) % n
    <2>1. g \in Nat /\ g < n
      BY <1>7
    <2> HIDE DEF g
    <2>2. [aggregate |-> a, failover |-> x.failover, request |-> x.request,
           weighted |-> g, assigned |-> x.assigned] \in SelectorStates
      BY <1>1, <1>2, <1>5, <1>6, <2>1, ConvsKept
    <2>3. QED
      BY <2>2 DEF g
  <1>9. y.aggregate = a /\ a # NoAggregate
    BY NoSelectorNoAggregate
  <1>10. y # NoSelector
    BY <1>8, <1>9, NoSelectorNoAggregate
  <1>11. Follows(x, y)
    BY <1>8, <1>9, <1>10 DEF Follows
  <1>12. w % n = w /\ w + 1 \in 1..n
    BY <1>1
  <1>13. Turned(x, Turns(a)[(w % n) + 1], y)
    BY <1>12 DEF Turned, Position
  <1>14. Turns(a)[(w % n) + 1] \in Members(a)
    BY <1>2, <1>12
  <1> HIDE DEF next
  <1>15. QED
    BY <1>4, <1>11, <1>13, <1>14 DEF next

(* A conversation keeps its member, or is assigned the next turn.          *)
LEMMA ForConversationTurns ==
    ASSUME NEW x \in SelectorStates, x # NoSelector, NEW c \in Convs \cup {NoConv},
           x.aggregate.strategy # "weightedRoundRobin"
    PROVE  LET known == ForConversation(x, c) IN
           /\ Follows(x, known.sel)
           /\ known.relay \in Members(x.aggregate)
           /\ c # NoConv => c \in DOMAIN known.sel.assigned
                            /\ known.sel.assigned[c] = known.relay
           /\ known.turn = FALSE \/ known.turn = TRUE
           /\ known.turn = FALSE => Position(known.sel) = Position(x)
           /\ known.turn = TRUE => Turned(x, known.relay, known.sel)
  <1> DEFINE known == ForConversation(x, c)
             a == x.aggregate
  <1>1. /\ \A d \in DOMAIN x.assigned : x.assigned[d] \in Members(a)
        /\ DOMAIN x.assigned \subseteq Convs /\ Proper(a)
    BY SelectorFields
  <1>2. CASE c \in DOMAIN x.assigned
    BY <1>1, <1>2 DEF ForConversation, Follows
  <1>3. CASE c \notin DOMAIN x.assigned
    <2> DEFINE next == NextRequest(x)
               assigned == [d \in DOMAIN x.assigned \cup ({c} \ {NoConv}) |->
                                IF d = c THEN next.relay ELSE x.assigned[d]]
               y == [aggregate |-> next.sel.aggregate, failover |-> next.sel.failover,
                     request |-> next.sel.request, weighted |-> next.sel.weighted,
                     assigned |-> assigned]
    <2>1. /\ Follows(x, next.sel) /\ next.sel.assigned = x.assigned
          /\ next.relay \in Members(a) \cap Relays /\ next.turn = TRUE
          /\ next = [relay |-> next.relay, turn |-> TRUE, sel |-> next.sel]
          /\ Turned(x, next.relay, next.sel)
      BY NextRequestTurns
    <2>2. known = [next EXCEPT !.sel.assigned = assigned]
      BY <1>3 DEF ForConversation
    <2> HIDE DEF next
    <2>3. known.relay = next.relay /\ known.turn = TRUE
          /\ known.sel = [next.sel EXCEPT !.assigned = assigned]
      BY <2>1, <2>2
    <2>4. next.sel \in SelectorStates /\ next.sel # NoSelector /\ next.sel.aggregate = a
          /\ next.sel.failover = x.failover
      BY <2>1 DEF Follows
    <2>5. known.sel = y
      BY <2>3, <2>4, SelectorShaped DEF SelectorShape
    <2> HIDE DEF known
    <2>6. /\ DOMAIN assigned \subseteq Convs /\ assigned = [d \in DOMAIN assigned |-> assigned[d]]
          /\ \A d \in DOMAIN assigned : assigned[d] \in Members(a) \cap Relays
      <3>1. Members(a) \subseteq Relays
        BY <1>1, MembersAreRelays
      <3>2. QED
        BY <1>1, <2>1, <3>1
    <2>7. /\ \A d \in DOMAIN x.assigned : d \in DOMAIN assigned /\ assigned[d] = x.assigned[d]
          /\ c # NoConv => c \in DOMAIN assigned /\ assigned[c] = next.relay
      BY <1>3
    <2> HIDE DEF assigned
    <2>8. y \in SelectorStates
      <3>1. /\ next.sel.failover \in Nat /\ next.sel.request \in Nat /\ next.sel.weighted \in Nat
            /\ next.sel.failover < Size(next.sel.aggregate)
            /\ next.sel.request < Size(next.sel.aggregate)
            /\ next.sel.request < Len(Turns(next.sel.aggregate))
        BY <2>4, SelectorFields DEF Position
      <3>2. QED
        BY <2>4, <2>6, <3>1, ConvsKept
    <2>9. /\ y.aggregate = a /\ y.failover = x.failover /\ y.assigned = assigned
          /\ Position(y) = Position(next.sel)
      BY <2>4 DEF Position
    <2>10. y # NoSelector
      BY <2>4, <2>8, <2>9, NoSelectorNoAggregate
    <2>11. Follows(x, y)
      BY <2>7, <2>8, <2>9, <2>10 DEF Follows
    <2>12. Turned(x, next.relay, y)
      BY <2>1, <2>9 DEF Turned
    <2> HIDE DEF y
    <2>13. QED
      BY <2>1, <2>3, <2>5, <2>7, <2>9, <2>11, <2>12 DEF known
  <1>4. QED
    BY <1>2, <1>3

(* A choice is a member; it takes one turn or leaves the position alone.   *)
LEMMA ChoiceMade ==
    ASSUME selector \in SelectorStates, NEW s \in Configs, s.aggregate # NoAggregate,
           Size(s.aggregate) # 0, NEW conv \in Convs \cup {NoConv}, NEW model
    PROVE  LET choice == Choice(s, conv, model)
               sel == Current(s)
           IN
           /\ Follows(sel, choice.sel)
           /\ choice.relay \in Members(s.aggregate)
           /\ choice.turn = FALSE \/ choice.turn = TRUE
           /\ choice.turn = FALSE => Position(choice.sel) = Position(sel)
           /\ choice.turn = TRUE => Turned(sel, choice.relay, choice.sel)
           /\ s.aggregate.strategy = "failover" /\ Routed(s, model) = NoRelay =>
                  choice.relay = MemberAt(s.aggregate, sel.failover)
           /\ s.aggregate.strategy = "conversationRoundRobin" /\ Routed(s, model) = NoRelay =>
                  choice = ForConversation(sel, conv)
           /\ /\ s.aggregate.strategy = "conversationRoundRobin" /\ Routed(s, model) = NoRelay
              /\ conv # NoConv
              => /\ conv \in DOMAIN choice.sel.assigned
                 /\ choice.sel.assigned[conv] = choice.relay
  <1> DEFINE choice == Choice(s, conv, model)
             sel == Current(s)
             strategy == s.aggregate.strategy
             routed == Routed(s, model)
  <1>1. /\ sel \in SelectorStates /\ sel # NoSelector /\ sel.aggregate = s.aggregate
        /\ Proper(s.aggregate)
    BY CurrentStands, Aggregated
  <1>2. sel.failover \in 0..(Size(s.aggregate) - 1) /\ strategy \in Strategies
    BY <1>1, SelectorFields DEF Proper
  <1>3. Follows(sel, sel)
    BY <1>1 DEF Follows
  <1> HIDE DEF sel
  <1>4. CASE routed # NoRelay
    <2>1. choice = [relay |-> routed, turn |-> FALSE, sel |-> sel]
      BY <1>4 DEF Choice, sel
    <2>2. routed \in Members(s.aggregate)
      BY <1>1, <1>4, RouteIsAvailable DEF Available
    <2> HIDE DEF choice, routed
    <2>3. QED
      BY <1>3, <1>4, <2>1, <2>2 DEF choice, sel, routed
  <1>5. CASE routed = NoRelay /\ strategy = "failover"
    <2>1. choice = [relay |-> MemberAt(s.aggregate, sel.failover), turn |-> FALSE, sel |-> sel]
      BY <1>5 DEF Choice, sel
    <2>2. MemberAt(s.aggregate, sel.failover) \in Members(s.aggregate)
      <3>1. sel.failover \in Nat
        BY <1>1, SelectorFields
      <3>2. QED
        BY <1>1, <3>1, MemberAtPosition
    <2> HIDE DEF choice
    <2>3. QED
      BY <1>3, <1>5, <2>1, <2>2 DEF choice, sel
  <1>6. CASE routed = NoRelay /\ strategy = "conversationRoundRobin"
    <2> DEFINE known == ForConversation(sel, conv)
    <2>1. choice = known
      BY <1>6 DEF Choice, sel
    <2>2. /\ Follows(sel, known.sel)
          /\ known.relay \in Members(s.aggregate)
          /\ conv # NoConv => conv \in DOMAIN known.sel.assigned
                              /\ known.sel.assigned[conv] = known.relay
          /\ known.turn = FALSE \/ known.turn = TRUE
          /\ known.turn = FALSE => Position(known.sel) = Position(sel)
          /\ known.turn = TRUE => Turned(sel, known.relay, known.sel)
      BY <1>1, <1>6, ForConversationTurns
    <2>3. QED
      BY <1>6, <2>1, <2>2, Zenon DEF sel
  <1>7. CASE routed = NoRelay /\ strategy = "requestRoundRobin"
    <2> DEFINE next == NextRequest(sel)
    <2>1. choice = next
      BY <1>7 DEF Choice, sel
    <2>2. /\ Follows(sel, next.sel)
          /\ next.relay \in Members(s.aggregate)
          /\ next = [relay |-> next.relay, turn |-> TRUE, sel |-> next.sel]
          /\ Turned(sel, next.relay, next.sel)
      BY <1>1, <1>7, NextRequestTurns
    <2> HIDE DEF choice, next
    <2>3. QED
      BY <1>7, <2>1, <2>2 DEF sel, choice
  <1>8. CASE routed = NoRelay /\ strategy = "weightedRoundRobin"
    <2> DEFINE next == NextWeighted(sel)
    <2>1. choice = next
      BY <1>8 DEF Choice, sel
    <2>2. /\ Follows(sel, next.sel)
          /\ next.relay \in Members(s.aggregate)
          /\ next = [relay |-> next.relay, turn |-> TRUE, sel |-> next.sel]
          /\ Turned(sel, next.relay, next.sel)
      BY <1>1, <1>8, NextWeightedTurns
    <2> HIDE DEF choice, next
    <2>3. QED
      BY <1>8, <2>1, <2>2 DEF sel, choice
  <1>9. QED
    BY <1>2, <1>4, <1>5, <1>6, <1>7, <1>8 DEF Strategies

(* What a probe sees of the rotation.                                      *)
LEMMA PeekedIsMember ==
    ASSUME selector \in SelectorStates, NEW s \in Configs, s.aggregate # NoAggregate,
           Size(s.aggregate) # 0
    PROVE  Peeked(s) \in Members(s.aggregate)
  <1> DEFINE a == s.aggregate
             sel == Current(s)
  <1>1. /\ sel \in SelectorStates /\ sel # NoSelector /\ sel.aggregate = a /\ Proper(a)
    BY CurrentStands, Aggregated
  <1>2. /\ sel.failover \in Nat /\ sel.request \in Nat /\ Len(Turns(a)) \in Nat \ {0}
        /\ Position(sel) \in 0..(Len(Turns(a)) - 1)
    BY <1>1, SelectorFields
  <1> HIDE DEF sel
  <1>3. \A i \in Nat : MemberAt(a, i) \in Members(a)
    BY <1>1, MemberAtPosition
  <1>4. CASE a.strategy = "weightedRoundRobin"
    <2>1. /\ Turns(a) = Schedule(a) /\ Position(sel) = sel.weighted
          /\ \A k \in 1..Len(Turns(a)) : Turns(a)[k] \in Members(a)
      BY <1>1, <1>4, TurnsAreMembers DEF Position
    <2>2. Peeked(s) = Turns(a)[(sel.weighted % Len(Turns(a))) + 1]
      BY <1>4, <2>1 DEF Peeked, sel
    <2>3. (sel.weighted % Len(Turns(a))) + 1 \in 1..Len(Turns(a))
      BY <1>2, <2>1
    <2>4. QED
      BY <2>1, <2>2, <2>3
  <1>5. CASE a.strategy # "weightedRoundRobin"
    <2>1. Peeked(s) = MemberAt(a, sel.failover) \/ Peeked(s) = MemberAt(a, sel.request)
      BY <1>5 DEF Peeked, sel
    <2>2. QED
      BY <1>2, <1>3, <2>1
  <1>6. QED
    BY <1>4, <1>5

-----------------------------------------------------------------------------
(* What a request is, wherever it stands.                                  *)
Trying(s, kind, list) ==
    /\ \A m \in Range(list) : Available(s, m)
    /\ IsInjective(list)
    /\ kind # "probe" => Members(s.aggregate) \cap s.usable \subseteq Range(list)

RequestStands(q) ==
    /\ q \in RequestStates
    /\ q.pc # "idle" => q.settings \in Configs /\ q.result = "none"
    /\ q.pc = "select" => q.tried = <<>>
    /\ q.pc = "try" => q.queue # <<>>
    /\ q.pc = "record" => q.kind # "probe"
    /\ q.pc \in {"try", "record"} /\ q.settings.aggregate # NoAggregate =>
           Trying(q.settings, q.kind, q.tried \o q.queue)

Standing ==
    /\ disk \in Configs
    /\ req \in [Requests -> RequestStates]
    /\ \A r \in Requests : RequestStands(req[r])
    /\ selector \in SelectorStates
    /\ picks \in [Relays -> Nat] /\ home \in [Convs -> Relays \cup {NoRelay}]
    /\ arrived \in 0..MaxRequests /\ edits \in 0..MaxEdits
    /\ mixed \in BOOLEAN /\ solo \in BOOLEAN

(* A request that ended stands.                                            *)
LEMMA IdleStands ==
    ASSUME NEW result \in {"none", "served", "failed", "refused"}
    PROVE  LET q == [Idle EXCEPT !.result = result]
           IN  RequestStands(q) /\ q.pc = "idle" /\ q.result = result
  <1>1. Idle \in RequestStates /\ Idle.pc = "idle"
    BY DEF RequestStates, Idle
  <1>2. QED
    BY <1>1 DEF RequestStands, RequestStates

(* So does one that has just arrived.                                      *)
LEMMA ArrivedStands ==
    ASSUME NEW s \in Configs, NEW kind \in {"response", "compact", "probe"},
           NEW conv \in Convs \cup {NoConv}, NEW model \in Models \cup {NoModel}
    PROVE  LET q == [Idle EXCEPT !.pc = "select", !.settings = s, !.kind = kind,
                                 !.conv = conv, !.model = model]
           IN  RequestStands(q) /\ q.pc = "select" /\ q.settings = s
  <1> DEFINE q == [Idle EXCEPT !.pc = "select", !.settings = s, !.kind = kind,
                               !.conv = conv, !.model = model]
  <1>1. Idle \in RequestStates /\ Idle.tried = <<>> /\ Idle.result = "none"
    BY DEF RequestStates, Idle
  <1>2. q \in RequestStates
    BY <1>1 DEF RequestStates
  <1>3. /\ q.pc = "select" /\ q.settings = s /\ q.tried = <<>> /\ q.result = "none"
    BY <1>1 DEF RequestStates
  <1> HIDE DEF q
  <1>4. QED
    BY <1>2, <1>3 DEF RequestStands, q

(* A request that has chosen stands before its first relay.                *)
LEMMA ChosenStands ==
    ASSUME NEW q, RequestStands(q), q.pc = "select", NEW list \in Seq(Relays), list # <<>>,
           q.settings.aggregate # NoAggregate => Trying(q.settings, q.kind, list)
    PROVE  LET p == [q EXCEPT !.pc = "try", !.queue = list]
           IN  /\ RequestStands(p) /\ p.pc = "try" /\ p.queue = list /\ p.tried = <<>>
               /\ p.settings = q.settings /\ p.kind = q.kind /\ p.model = q.model
  <1> DEFINE p == [q EXCEPT !.pc = "try", !.queue = list]
  <1>1. /\ p \in RequestStates /\ p.pc = "try" /\ p.queue = list /\ p.tried = <<>>
        /\ p.settings = q.settings /\ p.kind = q.kind /\ p.result = q.result /\ p.model = q.model
    BY DEF RequestStands, RequestStates
  <1>2. p.tried \o p.queue = list
    BY <1>1
  <1> HIDE DEF p
  <1>3. RequestStands(p)
    BY <1>1, <1>2 DEF RequestStands
  <1>4. QED
    BY <1>1, <1>3 DEF p

(* The relay it was sent to goes from the ones to try to the tried.        *)
LEMMA Handed ==
    ASSUME NEW X, NEW t \in Seq(X), NEW u \in Seq(X), u # <<>>
    PROVE  /\ Append(t, u[1]) \in Seq(X) /\ Tail(u) \in Seq(X)
           /\ Append(t, u[1]) \o Tail(u) = t \o u
  OBVIOUS

(* The head of a queue becomes the last of what was tried.                 *)
LEMMA HandedLast ==
    ASSUME NEW X, NEW t \in Seq(X), NEW u \in Seq(X), u # <<>>
    PROVE  /\ Last(Append(t, u[1])) = u[1]
           /\ Len(Tail(u)) = Len(u) - 1 /\ \A j \in 1..(Len(u) - 1) : Tail(u)[j] = u[j + 1]
  BY DEF Last

(* An attempt moves one candidate from the queue to what was tried.        *)
LEMMA SentStands ==
    ASSUME NEW q, RequestStands(q), q.pc = "try", q.kind # "probe", NEW ok \in BOOLEAN
    PROVE  LET p == [q EXCEPT !.pc = "record", !.ok = ok,
                              !.tried = Append(q.tried, q.queue[1]), !.queue = Tail(@)]
           IN  /\ RequestStands(p) /\ p.pc = "record" /\ p.settings = q.settings
               /\ p.tried = Append(q.tried, q.queue[1]) /\ p.queue = Tail(q.queue)
               /\ p.model = q.model
  <1> DEFINE p == [q EXCEPT !.pc = "record", !.ok = ok,
                            !.tried = Append(q.tried, q.queue[1]), !.queue = Tail(@)]
             t == Append(q.tried, q.queue[1])
             u == Tail(q.queue)
  <1>1. /\ q \in RequestStates /\ q.tried \in Seq(Relays)
        /\ q.queue \in Seq(Relays) /\ q.queue # <<>>
    BY DEF RequestStands, RequestStates
  <1>2. t \in Seq(Relays) /\ u \in Seq(Relays) /\ t \o u = q.tried \o q.queue
    BY <1>1, Handed
  <1>3. p = [q EXCEPT !.pc = "record", !.ok = ok, !.tried = t, !.queue = u]
    BY <1>1 DEF RequestStates
  <1> HIDE DEF p, t, u
  <1>4. /\ p \in RequestStates /\ p.pc = "record" /\ p.tried = t /\ p.queue = u
        /\ p.settings = q.settings /\ p.kind = q.kind /\ p.result = q.result /\ p.model = q.model
    BY <1>1, <1>2, <1>3 DEF RequestStates
  <1>5. p.tried \o p.queue = q.tried \o q.queue
    BY <1>2, <1>4
  <1>6. RequestStands(p)
    BY <1>4, <1>5 DEF RequestStands
  <1>7. QED
    BY <1>4, <1>6 DEF p, t, u

(* After a failure was recorded the rest of the queue is tried.            *)
LEMMA RetriedStands ==
    ASSUME NEW q, RequestStands(q), q.pc = "record", q.queue # <<>>
    PROVE  LET p == [q EXCEPT !.pc = "try"]
           IN  /\ RequestStands(p) /\ p.pc = "try" /\ p.queue = q.queue /\ p.tried = q.tried
               /\ p.settings = q.settings /\ p.kind = q.kind /\ p.model = q.model
  <1> DEFINE p == [q EXCEPT !.pc = "try"]
  <1>1. /\ p \in RequestStates /\ p.pc = "try" /\ p.queue = q.queue /\ p.tried = q.tried
        /\ p.settings = q.settings /\ p.kind = q.kind /\ p.result = q.result /\ p.model = q.model
    BY DEF RequestStands, RequestStates
  <1> HIDE DEF p
  <1>2. RequestStands(p)
    BY <1>1 DEF RequestStands
  <1>3. QED
    BY <1>1, <1>2 DEF p

(* One request goes on; the others stay as they are.                       *)
LEMMA OthersStand ==
    ASSUME req \in [Requests -> RequestStates], \A r \in Requests : RequestStands(req[r]),
           NEW r \in Requests, NEW q, RequestStands(q), Put(r, q)
    PROVE  /\ req' \in [Requests -> RequestStates]
           /\ \A p \in Requests : RequestStands(req'[p])
           /\ \A p \in Requests : req'[p] = IF p = r THEN q ELSE req[p]
  <1>1. q \in RequestStates /\ req' = [req EXCEPT ![r] = q]
    BY DEF RequestStands, Put
  <1>2. /\ req' \in [Requests -> RequestStates]
        /\ \A p \in Requests : req'[p] = IF p = r THEN q ELSE req[p]
    BY <1>1
  <1>3. QED
    BY <1>2

(* What the candidates of a chosen member are.                             *)
LEMMA CandidatesStand ==
    ASSUME NEW s, Proper(s.aggregate), NEW relay, Available(s, relay), NEW kind
    PROVE  LET c == <<relay>> \o Fallbacks(s, relay)
           IN  c \in Seq(Relays) /\ c # <<>> /\ Trying(s, kind, c)
  <1> DEFINE c == Candidates(s, relay)
  <1>1. /\ c \in Seq(Members(s.aggregate)) /\ c # <<>>
        /\ Range(c) = Members(s.aggregate) \cap s.usable
        /\ IsInjective(c)
    BY CandidatesThorough
  <1>2. Members(s.aggregate) \subseteq Relays
    BY MembersAreRelays
  <1> HIDE DEF c
  <1>3. c \in Seq(Relays)
    BY <1>1, <1>2
  <1>4. Trying(s, kind, c)
    BY <1>1 DEF Trying, Available
  <1>5. QED
    BY <1>1, <1>3, <1>4 DEF c, Candidates

(* A probe has its member as its only candidate.                           *)
LEMMA ProbeStands ==
    ASSUME NEW s, NEW relay \in Members(s.aggregate), relay \in s.usable, relay \in Relays
    PROVE  <<relay>> \in Seq(Relays) /\ <<relay>> # <<>> /\ Trying(s, "probe", <<relay>>)
  BY DEF Trying, Available, Range, IsInjective

-----------------------------------------------------------------------------
(* A missing selector is a selector state.                                 *)
LEMMA NoSelectorStands == NoSelector \in SelectorStates
  BY DEF SelectorStates

(* A request that ends leaves every other one where it is.                 *)
LEMMA EndStands ==
    ASSUME req \in [Requests -> RequestStates], \A r \in Requests : RequestStands(req[r]),
           NEW r \in Requests, NEW result \in {"none", "served", "failed", "refused"},
           End(r, result)
    PROVE  /\ req' \in [Requests -> RequestStates]
           /\ \A p \in Requests : RequestStands(req'[p])
           /\ \A p \in Requests : p # r => req'[p] = req[p]
           /\ req'[r].pc = "idle" /\ req'[r].result = result
  <1> DEFINE q == [Idle EXCEPT !.result = result]
  <1>1. RequestStands(q) /\ q.pc = "idle" /\ q.result = result
    BY IdleStands
  <1>2. Put(r, q)
    BY DEF End
  <1> HIDE DEF q
  <1>3. QED
    BY <1>1, <1>2, OthersStand

(* The invariant holds at first; the lemmas after it take one action each. *)
LEMMA StandingStarts == RotationInit => Standing
  <1> SUFFICES ASSUME RotationInit PROVE Standing
    OBVIOUS
  <1>1. Idle \in RequestStates /\ Idle.pc = "idle"
    BY DEF RequestStates, Idle
  <1>2. \A r \in Requests : req[r] = Idle
    BY DEF RotationInit
  <1>3. RequestStands(Idle)
    BY <1>1 DEF RequestStands
  <1>4. req \in [Requests -> RequestStates] /\ \A r \in Requests : RequestStands(req[r])
    BY <1>1, <1>2, <1>3 DEF RotationInit
  <1>5. selector \in SelectorStates
    BY NoSelectorStands DEF RotationInit
  <1>6. /\ disk \in Configs /\ picks \in [Relays -> Nat]
        /\ home \in [Convs -> Relays \cup {NoRelay}]
        /\ mixed \in BOOLEAN /\ solo \in BOOLEAN
    BY DEF RotationInit
  <1>7. arrived \in 0..MaxRequests /\ edits \in 0..MaxEdits
    BY RotationAssumption DEF RotationInit
  <1>8. QED
    BY <1>4, <1>5, <1>6, <1>7 DEF Standing

(* Arrive keeps the invariant.                                             *)
LEMMA ArriveStands ==
    ASSUME Standing, NEW r \in Requests, Arrive(r)
    PROVE  Standing'
  <1>1. PICK kind \in {"response", "compact", "probe"}, conv \in Convs \cup {NoConv},
             model \in Models \cup {NoModel} :
                 Put(r, [Idle EXCEPT !.pc = "select", !.settings = disk,
                                     !.kind = kind, !.conv = conv, !.model = model])
    BY DEF Arrive
  <1> DEFINE q == [Idle EXCEPT !.pc = "select", !.settings = disk, !.kind = kind,
                               !.conv = conv, !.model = model]
  <1>2. RequestStands(q)
    BY ArrivedStands DEF Standing
  <1>3. Put(r, q)
    BY <1>1
  <1> HIDE DEF q
  <1>4. req' \in [Requests -> RequestStates] /\ \A p \in Requests : RequestStands(req'[p])
    BY <1>2, <1>3, OthersStand DEF Standing
  <1>5. arrived' \in 0..MaxRequests /\ UNCHANGED <<disk, selector, edits, picks, home, mixed>>
    BY RotationAssumption DEF Arrive, Standing
  <1>6. solo' \in BOOLEAN
    BY Zenon DEF Arrive
  <1>7. QED
    BY <1>4, <1>5, <1>6 DEF Standing

(* SelectRegular keeps it.                                                 *)
LEMMA SelectRegularStands ==
    ASSUME Standing, NEW r \in Requests, SelectRegular(r)
    PROVE  Standing'
  <1> DEFINE q == req[r]
             s == q.settings
  <1>1. /\ q.pc = "select" /\ s.aggregate = NoAggregate
        /\ UNCHANGED <<disk, arrived, edits, picks, home, mixed, solo>>
    BY DEF SelectRegular
  <1>2. s \in Configs /\ RequestStands(q) /\ q \in RequestStates
    BY <1>1 DEF Standing, RequestStands
  <1>3. CASE End(r, "refused") /\ selector' = selector
    <2>1. req' \in [Requests -> RequestStates] /\ \A x \in Requests : RequestStands(req'[x])
      BY <1>3, EndStands DEF Standing
    <2>2. QED
      BY <1>1, <1>3, <2>1 DEF Standing
  <1>4. CASE ~(End(r, "refused") /\ selector' = selector)
    <2>1. PICK relay : /\ relay = s.active
                          \/ (q.model \in DOMAIN s.modelRoutes /\ relay = s.modelRoutes[q.model])
                       /\ Put(r, [q EXCEPT !.pc = "try", !.queue = <<relay>>])
                       /\ selector' = selector \/ selector' = NoSelector
      BY <1>4 DEF SelectRegular
    <2>2. relay \in Relays
      <3>1. relay \in s.usable \cup {s.active} \cup Range(s.modelRoutes)
        BY <2>1 DEF Range
      <3>2. QED
        BY <1>2, <3>1 DEF Relays
    <2> DEFINE p == [q EXCEPT !.pc = "try", !.queue = <<relay>>]
    <2>3. RequestStands(p)
      <3>1. <<relay>> \in Seq(Relays) /\ <<relay>> # <<>>
        BY <2>2
      <3>2. PICK list \in Seq(Relays) : list = <<relay>> /\ list # <<>>
        BY <3>1
      <3>3. QED
        BY <1>1, <1>2, <3>2, ChosenStands
    <2>4. Put(r, p)
      BY <2>1
    <2> HIDE DEF p
    <2>5. req' \in [Requests -> RequestStates] /\ \A x \in Requests : RequestStands(req'[x])
      BY <2>3, <2>4, OthersStand DEF Standing
    <2>6. selector' \in SelectorStates
      BY <2>1, NoSelectorStands DEF Standing
    <2>7. QED
      BY <1>1, <2>5, <2>6 DEF Standing
  <1>5. QED
    BY <1>3, <1>4

(* SelectMember keeps it.                                                  *)
LEMMA SelectMemberStands ==
    ASSUME Standing, NEW r \in Requests, SelectMember(r)
    PROVE  Standing'
  <1> DEFINE q == req[r]
             s == q.settings
             choice == Choice(s, q.conv, q.model)
             before == IF Current(s) = selector THEN picks ELSE [m \in Relays |-> 0]
  <1>1. /\ q.pc = "select" /\ s.aggregate # NoAggregate /\ q.kind # "probe"
        /\ UNCHANGED <<disk, arrived, edits, mixed, solo>>
    BY DEF SelectMember
  <1>2. s \in Configs /\ RequestStands(q) /\ q.conv \in Convs \cup {NoConv} /\ Proper(s.aggregate)
    BY <1>1, Aggregated DEF Standing, RequestStands, RequestStates
  <1>3. CASE Size(s.aggregate) = 0
    <2>1. End(r, "refused") /\ UNCHANGED <<selector, picks, home>>
      BY <1>3 DEF SelectMember
    <2>2. req' \in [Requests -> RequestStates] /\ \A x \in Requests : RequestStands(req'[x])
      BY <2>1, EndStands DEF Standing
    <2>3. QED
      BY <1>1, <2>1, <2>2 DEF Standing
  <1>4. CASE Size(s.aggregate) # 0
    <2>1. /\ selector' = choice.sel
          /\ picks' = [before EXCEPT ![choice.relay] = @ + (IF choice.turn THEN 1 ELSE 0)]
          /\ home' = IF s = disk /\ q.conv # NoConv /\ Routed(s, q.model) = NoRelay
                        /\ home[q.conv] = NoRelay
                     THEN [home EXCEPT ![q.conv] = choice.relay] ELSE home
          /\ IF choice.relay \in s.usable
             THEN Put(r, [q EXCEPT !.pc = "try",
                                   !.queue = <<choice.relay>> \o Fallbacks(s, choice.relay)])
             ELSE End(r, "refused")
      BY <1>4 DEF SelectMember
    <2>2. Follows(Current(s), choice.sel) /\ choice.relay \in Members(s.aggregate)
      BY <1>1, <1>2, <1>4, ChoiceMade DEF Standing
    <2>3. choice.relay \in Relays
      BY <1>2, <2>2, MembersAreRelays
    <2>4. selector' \in SelectorStates
      BY <2>1, <2>2 DEF Follows
    <2>5. before \in [Relays -> Nat]
      BY DEF Standing
    <2>6. PICK relay \in Relays : relay = choice.relay
      BY <2>3
    <2>7. PICK more \in Nat : more = IF choice.turn THEN 1 ELSE 0
      OBVIOUS
    <2> HIDE DEF choice, before
    <2>8. picks' \in [Relays -> Nat]
      BY <2>1, <2>5, <2>6, <2>7
    <2>9. home' \in [Convs -> Relays \cup {NoRelay}]
      BY <2>1, <2>6 DEF Standing
    <2>10. req' \in [Requests -> RequestStates] /\ \A x \in Requests : RequestStands(req'[x])
      <3>1. CASE relay \in s.usable
        <4> DEFINE list == <<relay>> \o Fallbacks(s, relay)
                   p == [q EXCEPT !.pc = "try", !.queue = list]
        <4>1. list \in Seq(Relays) /\ list # <<>> /\ Trying(s, q.kind, list)
          BY <1>2, <2>2, <2>6, <3>1, CandidatesStand DEF Available
        <4> HIDE DEF list
        <4>2. RequestStands(p)
          BY <1>1, <1>2, <4>1, ChosenStands
        <4>3. Put(r, p)
          BY <2>1, <2>6, <3>1 DEF list
        <4> HIDE DEF p
        <4>4. QED
          BY <4>2, <4>3, OthersStand DEF Standing
      <3>2. CASE relay \notin s.usable
        BY <2>1, <2>6, <3>2, EndStands DEF Standing
      <3>3. QED
        BY <3>1, <3>2
    <2>11. QED
      BY <1>1, <2>4, <2>8, <2>9, <2>10 DEF Standing
  <1>5. QED
    BY <1>3, <1>4

(* PeekMember keeps it.                                                    *)
LEMMA PeekMemberStands ==
    ASSUME Standing, NEW r \in Requests, PeekMember(r)
    PROVE  Standing'
  <1> DEFINE q == req[r]
             s == q.settings
  <1>1. /\ q.pc = "select" /\ s.aggregate # NoAggregate /\ q.kind = "probe"
        /\ UNCHANGED <<disk, arrived, edits, home, mixed, solo>>
    BY DEF PeekMember
  <1>2. s \in Configs /\ RequestStands(q) /\ Proper(s.aggregate)
    BY <1>1, Aggregated DEF Standing, RequestStands, RequestStates
  <1>3. CASE Size(s.aggregate) = 0
    <2>1. End(r, "refused") /\ UNCHANGED <<selector, picks>>
      BY <1>3 DEF PeekMember
    <2>2. req' \in [Requests -> RequestStates] /\ \A x \in Requests : RequestStands(req'[x])
      BY <2>1, EndStands DEF Standing
    <2>3. QED
      BY <1>1, <2>1, <2>2 DEF Standing
  <1>4. CASE Size(s.aggregate) # 0
    <2>1. /\ selector' = Current(s)
          /\ picks' = IF Current(s) = selector THEN picks ELSE [m \in Relays |-> 0]
          /\ IF Peeked(s) \in s.usable
             THEN Put(r, [q EXCEPT !.pc = "try", !.queue = <<Peeked(s)>>])
             ELSE End(r, "refused")
      BY <1>4 DEF PeekMember
    <2>2. selector' \in SelectorStates /\ Peeked(s) \in Members(s.aggregate)
      BY <1>1, <1>2, <1>4, <2>1, CurrentStands, PeekedIsMember DEF Standing
    <2>3. picks' \in [Relays -> Nat]
      BY <2>1 DEF Standing
    <2>4. PICK relay : relay = Peeked(s) /\ relay \in Members(s.aggregate) /\ relay \in Relays
      BY <1>2, <2>2, MembersAreRelays
    <2>5. req' \in [Requests -> RequestStates] /\ \A x \in Requests : RequestStands(req'[x])
      <3>1. CASE relay \in s.usable
        <4> DEFINE list == <<relay>>
                   p == [q EXCEPT !.pc = "try", !.queue = list]
        <4>1. list \in Seq(Relays) /\ list # <<>> /\ Trying(s, q.kind, list)
          BY <1>1, <2>4, <3>1, ProbeStands
        <4>2. Put(r, p)
          BY <2>1, <2>4, <3>1
        <4> HIDE DEF list
        <4>3. RequestStands(p)
          BY <1>1, <1>2, <4>1, ChosenStands
        <4> HIDE DEF p
        <4>4. QED
          BY <4>2, <4>3, OthersStand DEF Standing
      <3>2. CASE relay \notin s.usable
        BY <2>1, <2>4, <3>2, EndStands DEF Standing
      <3>3. QED
        BY <3>1, <3>2
    <2>6. QED
      BY <1>1, <2>2, <2>3, <2>5 DEF Standing
  <1>5. QED
    BY <1>3, <1>4

(* Send keeps it: a request that fails has tried every candidate.          *)
LEMMA SendStands ==
    ASSUME Standing, NEW r \in Requests, Send(r)
    PROVE  Standing'
  <1> DEFINE q == req[r]
  <1>1. /\ q.pc = "try" /\ RequestStands(q)
        /\ UNCHANGED <<disk, selector, arrived, edits, picks, home, mixed, solo>>
    BY DEF Send, Standing
  <1>2. req' \in [Requests -> RequestStates] /\ \A x \in Requests : RequestStands(req'[x])
    <2>1. PICK ok \in BOOLEAN :
            IF q.kind = "probe"
            THEN End(r, IF ok THEN "served" ELSE "failed")
            ELSE Put(r, [q EXCEPT !.pc = "record", !.ok = ok,
                                  !.tried = Append(q.tried, q.queue[1]), !.queue = Tail(@)])
      BY DEF Send
    <2>2. CASE q.kind = "probe"
      <3>1. End(r, "served") \/ End(r, "failed")
        BY <2>1, <2>2
      <3>2. QED
        BY <3>1, EndStands DEF Standing
    <2>3. CASE q.kind # "probe"
      <3> DEFINE p == [q EXCEPT !.pc = "record", !.ok = ok,
                                !.tried = Append(q.tried, q.queue[1]), !.queue = Tail(@)]
      <3>1. RequestStands(p)
        BY <1>1, <2>3, SentStands
      <3>2. Put(r, p)
        BY <2>1, <2>3
      <3> HIDE DEF p
      <3>3. QED
        BY <3>1, <3>2, OthersStand DEF Standing
    <2>4. QED
      BY <2>2, <2>3
  <1>3. QED
    BY <1>1, <1>2 DEF Standing

(* The failover index moves round the members.                             *)
LEMMA RecordedStands ==
    ASSUME selector \in SelectorStates, selector # NoSelector, NEW ok \in BOOLEAN
    PROVE  LET y == Recorded(selector, ok)
               a == selector.aggregate
           IN  /\ y \in SelectorStates /\ y.aggregate = a /\ y.request = selector.request
               /\ y.weighted = selector.weighted /\ y.assigned = selector.assigned
               /\ y.failover = IF ok \/ a.strategy # "failover" THEN selector.failover
                               ELSE (selector.failover + 1) % Size(a)
               /\ ok \/ a.strategy # "failover" => y = selector
  <1> DEFINE x == selector
             a == x.aggregate
             n == Size(a)
             moved == (x.failover + 1) % n
             z == [aggregate |-> a, failover |-> moved, request |-> x.request,
                   weighted |-> x.weighted, assigned |-> x.assigned]
             y == Recorded(selector, ok)
  <1>1. CASE ok \/ a.strategy # "failover"
    BY <1>1 DEF Recorded
  <1>2. CASE ~ok /\ a.strategy = "failover"
    <2>1. y = z
      BY <1>2, SelectorShaped DEF Recorded, SelectorShape
    <2>2. /\ n \in Nat \ {0} /\ x.failover \in 0..(n - 1) /\ x.request \in 0..(n - 1)
          /\ x.weighted \in Nat /\ Position(x) \in 0..(Len(Turns(a)) - 1)
          /\ DOMAIN x.assigned \subseteq Convs /\ Len(Turns(a)) \in Nat
          /\ \A c \in DOMAIN x.assigned : x.assigned[c] \in Members(a)
          /\ Proper(a)
      BY SelectorFields
    <2>3. moved \in Nat /\ moved < n
      <3>1. PICK v \in Nat : v = x.failover + 1
        BY <2>2
      <3>2. v % n \in 0..(n - 1)
        BY <2>2, WrapIn
      <3>3. QED
        BY <2>2, <3>1, <3>2
    <2>4. Members(a) \subseteq Relays
      BY <2>2, MembersAreRelays
    <2>5. x.assigned = [c \in DOMAIN x.assigned |-> x.assigned[c]]
      BY DEF SelectorStates
    <2> HIDE DEF moved
    <2>6. z \in SelectorStates
      BY <2>2, <2>3, <2>4, <2>5, ConvsKept DEF Position
    <2>7. QED
      BY <1>2, <2>1, <2>6 DEF moved
  <1>3. QED
    BY <1>1, <1>2

(* Record keeps it.                                                        *)
LEMMA RecordStands ==
    ASSUME Standing, NEW r \in Requests, Record(r)
    PROVE  Standing'
  <1> DEFINE q == req[r]
  <1>1. /\ q.pc = "record" /\ RequestStands(q) /\ q.ok \in BOOLEAN
        /\ UNCHANGED <<disk, arrived, edits, picks, home, mixed, solo>>
    BY DEF Record, Standing, RequestStands, RequestStates
  <1>2. selector' = NoSelector
        \/ (selector # NoSelector /\ selector' = Recorded(selector, q.ok))
    BY DEF Record
  <1>3. selector' \in SelectorStates
    BY <1>1, <1>2, NoSelectorStands, RecordedStands DEF Standing
  <1>4. req' \in [Requests -> RequestStates] /\ \A x \in Requests : RequestStands(req'[x])
    <2>1. CASE q.ok \/ q.queue = <<>>
      <3>1. End(r, "served") \/ End(r, "failed")
        BY <2>1 DEF Record
      <3>2. QED
        BY <3>1, EndStands DEF Standing
    <2>2. CASE ~(q.ok \/ q.queue = <<>>)
      <3> DEFINE p == [q EXCEPT !.pc = "try"]
      <3>1. RequestStands(p)
        BY <1>1, <2>2, RetriedStands
      <3>2. Put(r, p)
        BY <2>2 DEF Record
      <3> HIDE DEF p
      <3>3. QED
        BY <3>1, <3>2, OthersStand DEF Standing
    <2>3. QED
      BY <2>1, <2>2
  <1>5. QED
    BY <1>1, <1>3, <1>4 DEF Standing

(* SaveSettings keeps it: requests in flight hold the settings they read.  *)
LEMMA SaveStands ==
    ASSUME Standing, SaveSettings
    PROVE  Standing'
  <1>1. /\ disk' \in Configs /\ edits' \in 0..MaxEdits /\ home' = [c \in Convs |-> NoRelay]
        /\ solo' = FALSE /\ UNCHANGED <<selector, req, arrived, picks>>
    BY RotationAssumption DEF SaveSettings, Standing
  <1>2. mixed' \in BOOLEAN
    BY Zenon DEF SaveSettings
  <1>3. QED
    BY <1>1, <1>2 DEF Standing

(* Every step keeps it.                                                    *)
LEMMA StandingSteps == Standing /\ [RotationNext]_rotationVars => Standing'
  <1> SUFFICES ASSUME Standing, [RotationNext]_rotationVars PROVE Standing'
    OBVIOUS
  <1>1. ASSUME NEW r \in Requests, GiveUp(r) PROVE Standing'
    <2>1. End(r, "refused")
          /\ UNCHANGED <<disk, selector, arrived, edits, picks, home, mixed, solo>>
      BY <1>1 DEF GiveUp
    <2>2. req' \in [Requests -> RequestStates] /\ \A x \in Requests : RequestStands(req'[x])
      BY <2>1, EndStands DEF Standing
    <2>3. QED
      BY <2>1, <2>2 DEF Standing
  <1>2. CASE UNCHANGED rotationVars
    BY <1>2 DEF rotationVars, Standing
  <1>3. QED
    BY <1>1, <1>2, ArriveStands, SelectRegularStands, SelectMemberStands, PeekMemberStands,
       SendStands, RecordStands, SaveStands DEF RotationNext, Proceed

-----------------------------------------------------------------------------
(* A step is one request's, or it saves the settings.                      *)
LEMMA OneRequestMoves ==
    ASSUME NEW r \in Requests, Arrive(r) \/ Proceed(r), req \in [Requests -> RequestStates]
    PROVE  \A p \in Requests : p # r => req'[p] = req[p]
  <1>1. \E q : Put(r, q)
    <2>1. CASE Arrive(r)
      BY <2>1 DEF Arrive
    <2>2. CASE SelectRegular(r)
      BY <2>2 DEF SelectRegular, End
    <2>3. CASE SelectMember(r)
      BY <2>3 DEF SelectMember, End
    <2>4. CASE PeekMember(r)
      BY <2>4 DEF PeekMember, End
    <2>5. CASE GiveUp(r)
      BY <2>5 DEF GiveUp, End
    <2>6. CASE Send(r)
      BY <2>6 DEF Send, End
    <2>7. CASE Record(r)
      BY <2>7 DEF Record, End
    <2>8. QED
      BY <2>1, <2>2, <2>3, <2>4, <2>5, <2>6, <2>7 DEF Proceed
  <1>2. QED
    BY <1>1 DEF Put

(* A request that failed at one member goes on only by recording that.     *)
LEMMA OnlyRecords ==
    ASSUME Standing, [RotationNext]_rotationVars, NEW r \in Requests, req[r].pc = "record"
    PROVE  req'[r] = req[r] \/ Record(r)
  <1>1. CASE RotationNext
    <2>1. CASE SaveSettings
      BY <2>1 DEF SaveSettings
    <2>2. CASE \E p \in Requests : Arrive(p) \/ Proceed(p)
      <3>1. PICK p \in Requests : Arrive(p) \/ Proceed(p)
        BY <2>2
      <3>2. CASE p = r
        BY <3>1, <3>2 DEF Proceed, Arrive, SelectRegular, SelectMember, PeekMember, GiveUp, Send
      <3>3. CASE p # r
        BY <3>1, <3>3, OneRequestMoves DEF Standing
      <3>4. QED
        BY <3>2, <3>3
    <2>3. QED
      BY <1>1, <2>1, <2>2 DEF RotationNext
  <1>2. CASE UNCHANGED rotationVars
    BY <1>2 DEF rotationVars
  <1>3. QED
    BY <1>1, <1>2

(* The invariant holds in every reachable state.                           *)
LEMMA StandingHolds == RotationSpec => []Standing
  BY StandingStarts, StandingSteps, PTL DEF RotationSpec

(* The state of the rotation is well formed: the selector's indexes lie    *)
(* within the aggregate it was made for, and it assigns conversations to   *)
(* members of that aggregate only.                                         *)
THEOREM RotationIsTyped == RotationSpec => []RotationTypeOK
  <1>1. ASSUME Standing PROVE RotationTypeOK
    <2>1. selector = NoSelector \/
            /\ selector.aggregate \in Aggregates
            /\ {selector.failover, selector.request} \subseteq
                  0..(Size(selector.aggregate) - 1)
            /\ selector.weighted \in Nat
            /\ Range(selector.assigned) \subseteq Members(selector.aggregate)
            /\ DOMAIN selector.assigned \subseteq Convs
      BY <1>1, SelectorFields DEF Standing, Range
    <2>2. QED
      BY <1>1, <2>1 DEF Standing, RotationTypeOK
  <1>2. QED
    BY <1>1, StandingHolds, PTL

(* Failover tries the usable members of the aggregate of the settings the  *)
(* request read, each of them once and none before it reports a failure,   *)
(* whatever other requests and edits do to the selector meanwhile.         *)
THEOREM FailsOverThoroughly == RotationSpec => FailoverIsThorough
  <1>1. ASSUME Standing PROVE TriesOwnMembers
    <2> SUFFICES ASSUME NEW r \in Requests, req[r].pc \in {"try", "record"},
                        req[r].settings.aggregate # NoAggregate
                 PROVE  /\ \A m \in Range(req[r].tried \o req[r].queue) :
                               Available(req[r].settings, m)
                        /\ IsInjective(req[r].tried \o req[r].queue)
      BY DEF TriesOwnMembers
    <2>1. Trying(req[r].settings, req[r].kind, req[r].tried \o req[r].queue)
      BY <1>1 DEF Standing, RequestStands
    <2>2. QED
      BY <2>1 DEF Trying
  <1>2. ASSUME Standing, [RotationNext]_rotationVars, NEW r \in Requests, req[r].pc = "record",
               req'[r].result = "failed", req[r].settings.aggregate # NoAggregate,
               NEW m \in Members(req[r].settings.aggregate), Available(req[r].settings, m)
        PROVE  m \in Range(req[r].tried)
    <2> DEFINE q == req[r]
    <2>1. /\ q \in RequestStates /\ q.result = "none" /\ q.kind # "probe"
          /\ Trying(q.settings, q.kind, q.tried \o q.queue)
      BY <1>2 DEF Standing, RequestStands
    <2>2. Record(r)
      BY <1>2, <2>1, OnlyRecords
    <2>3. CASE q.ok
      <3>1. End(r, "served")
        BY <2>2, <2>3 DEF Record
      <3>2. req'[r].result = "served"
        BY <1>2, <3>1, EndStands DEF Standing
      <3>3. QED
        BY <1>2, <3>2
    <2>4. CASE q.queue # <<>> /\ ~q.ok
      <3>1. Put(r, [q EXCEPT !.pc = "try"])
        BY <2>2, <2>4 DEF Record
      <3>2. req'[r].result = "none"
        BY <1>2, <2>1, <3>1 DEF Put, Standing, RequestStates
      <3>3. QED
        BY <1>2, <3>2
    <2>5. CASE q.queue = <<>>
      <3>1. q.tried \o q.queue = q.tried
        BY <2>1, <2>5 DEF RequestStates
      <3>2. QED
        BY <1>2, <2>1, <3>1 DEF Trying, Available
    <2>6. QED
      BY <2>3, <2>4, <2>5
  <1>3. Standing /\ [RotationNext]_rotationVars =>
        \A r \in Requests :
            LET s == req[r].settings IN
            /\ req[r].pc = "record" /\ req'[r].result = "failed"
            /\ s.aggregate # NoAggregate
            => \A m \in Members(s.aggregate) : Available(s, m) => m \in Range(req[r].tried)
    BY <1>2
  <1>4. QED
    BY <1>1, <1>3, StandingHolds, RotationIsTyped, PTL
       DEF RotationSpec, FailoverIsThorough, FailsOnlyWhenAllFailed

-----------------------------------------------------------------------------
(* The settings are those every request in flight has read.                *)
Quiet == ~mixed => \A r \in Requests : req[r].pc # "idle" => req[r].settings = disk

ByConversation(s) ==
    /\ s.aggregate # NoAggregate /\ Size(s.aggregate) # 0
    /\ s.aggregate.strategy = "conversationRoundRobin"

(* The selector remembers, for its aggregate, the home of a conversation.  *)
Remembers(x, s, c, m) ==
    /\ x.aggregate = s.aggregate /\ c \in DOMAIN x.assigned /\ x.assigned[c] = m

Remembered ==
    ~mixed /\ ByConversation(disk) =>
       \A c \in Convs : home[c] # NoRelay => Remembers(selector, disk, c, home[c])

(* A request reads the settings once, on its arrival.                      *)
LEMMA SettingsKept ==
    ASSUME Standing, NEW r \in Requests, Arrive(r) \/ Proceed(r)
    PROVE  \/ req'[r].pc = "idle"
           \/ req[r].pc = "idle" /\ req'[r].settings = disk /\ req'[r].pc = "select"
           \/ /\ req[r].pc # "idle" /\ req'[r].settings = req[r].settings
              /\ req'[r].model = req[r].model
  <1> DEFINE q == req[r]
  <1>1. q \in RequestStates /\ \A p : Put(r, p) => req'[r] = p
    BY DEF Standing, Put
  <1>2. CASE Arrive(r)
    <2>1. PICK kind \in {"response", "compact", "probe"}, conv \in Convs \cup {NoConv},
               model \in Models \cup {NoModel} :
                   Put(r, [Idle EXCEPT !.pc = "select", !.settings = disk,
                                       !.kind = kind, !.conv = conv, !.model = model])
      BY <1>2 DEF Arrive
    <2> DEFINE p == [Idle EXCEPT !.pc = "select", !.settings = disk, !.kind = kind,
                                 !.conv = conv, !.model = model]
    <2>2. p.settings = disk /\ p.pc = "select"
      <3>1. Idle \in RequestStates
        BY DEF RequestStates, Idle
      <3>2. QED
        BY <3>1 DEF RequestStates
    <2>3. Put(r, p)
      BY <2>1
    <2> HIDE DEF p
    <2>4. req'[r] = p
      BY <1>1, <2>3
    <2>5. QED
      BY <1>2, <2>2, <2>4 DEF Arrive
  <1>3. CASE \E result \in {"none", "served", "failed", "refused"} : End(r, result)
    BY <1>3, EndStands DEF Standing
  <1>4. CASE q.pc # "idle" /\ \E queue : Put(r, [q EXCEPT !.pc = "try", !.queue = queue])
    BY <1>1, <1>4 DEF RequestStates
  <1>5. CASE q.pc # "idle" /\ Put(r, [q EXCEPT !.pc = "try"])
    BY <1>1, <1>5 DEF RequestStates
  <1>6. CASE SelectRegular(r)
    BY <1>3, <1>4, <1>6 DEF SelectRegular
  <1>7. CASE SelectMember(r)
    BY <1>3, <1>4, <1>7 DEF SelectMember
  <1>8. CASE PeekMember(r)
    BY <1>3, <1>4, <1>8 DEF PeekMember
  <1>9. CASE GiveUp(r)
    BY <1>3, <1>9 DEF GiveUp
  <1>10. CASE Send(r)
    <2>1. PICK ok \in BOOLEAN :
            IF q.kind = "probe"
            THEN End(r, IF ok THEN "served" ELSE "failed")
            ELSE Put(r, [q EXCEPT !.pc = "record", !.ok = ok,
                                  !.tried = Append(q.tried, q.queue[1]), !.queue = Tail(@)])
      BY <1>10 DEF Send
    <2>2. CASE q.kind = "probe"
      <3>1. End(r, "served") \/ End(r, "failed")
        BY <2>1, <2>2
      <3>2. QED
        BY <1>3, <3>1
    <2>3. CASE q.kind # "probe"
      <3> DEFINE p == [q EXCEPT !.pc = "record", !.ok = ok,
                                !.tried = Append(q.tried, q.queue[1]), !.queue = Tail(@)]
      <3>1. p.settings = q.settings /\ p.model = q.model
        BY <1>1 DEF RequestStates
      <3>2. Put(r, p)
        BY <2>1, <2>3
      <3> HIDE DEF p
      <3>3. QED
        BY <1>1, <1>10, <3>1, <3>2 DEF Send
    <2>4. QED
      BY <2>2, <2>3
  <1>11. CASE Record(r)
    BY <1>3, <1>5, <1>11 DEF Record
  <1>12. QED
    BY <1>2, <1>6, <1>7, <1>8, <1>9, <1>10, <1>11 DEF Proceed

(* Until the settings change under a request, all have read the same.      *)
LEMMA QuietSteps ==
    ASSUME Standing, Quiet, [RotationNext]_rotationVars
    PROVE  Quiet'
  <1>1. ASSUME NEW r \in Requests, Arrive(r) \/ Proceed(r) PROVE Quiet'
    <2>1. mixed' = mixed /\ disk' = disk
      BY <1>1 DEF Arrive, Proceed, SelectRegular, SelectMember, PeekMember, GiveUp, Send, Record
    <2>2. \A p \in Requests : p # r => req'[p] = req[p]
      BY <1>1, OneRequestMoves DEF Standing
    <2>3. \/ req'[r].pc = "idle"
          \/ req'[r].settings = disk
          \/ req[r].pc # "idle" /\ req'[r].settings = req[r].settings
      BY <1>1, SettingsKept
    <2>4. QED
      BY <2>1, <2>2, <2>3 DEF Quiet
  <1>2. CASE SaveSettings
    BY <1>2 DEF SaveSettings, Quiet, InFlight
  <1>3. CASE UNCHANGED rotationVars
    BY <1>3 DEF rotationVars, Quiet
  <1>4. QED
    BY <1>1, <1>2, <1>3 DEF RotationNext

(* A choice by conversation remembers the member it made.                  *)
LEMMA ChoiceRemembers ==
    ASSUME selector \in SelectorStates, NEW s \in Configs, ByConversation(s),
           NEW conv \in Convs \cup {NoConv}, NEW model,
           Routed(s, model) = NoRelay, conv # NoConv
    PROVE  Remembers(Choice(s, conv, model).sel, s, conv, Choice(s, conv, model).relay)
  <1>1. s.aggregate # NoAggregate /\ Size(s.aggregate) # 0
    BY DEF ByConversation
  <1>2. Current(s).aggregate = s.aggregate
    BY <1>1, CurrentStands
  <1>3. Follows(Current(s), Choice(s, conv, model).sel)
    BY <1>1, ChoiceMade
  <1>4. /\ conv \in DOMAIN Choice(s, conv, model).sel.assigned
        /\ Choice(s, conv, model).sel.assigned[conv] = Choice(s, conv, model).relay
    BY <1>1, ChoiceMade DEF ByConversation
  <1>5. QED
    BY <1>2, <1>3, <1>4 DEF Remembers, Follows

(* No step makes the selector forget a conversation before the settings    *)
(* are mixed.                                                              *)
LEMMA RememberedSteps ==
    ASSUME Standing, Quiet, Remembered, [RotationNext]_rotationVars
    PROVE  Remembered'
  <1>1. ASSUME NEW r \in Requests, Arrive(r) \/ GiveUp(r) \/ Send(r) PROVE Remembered'
    BY <1>1 DEF Arrive, GiveUp, Send, Remembered
  <1>2. ASSUME NEW r \in Requests, SelectRegular(r) PROVE Remembered'
    <2>1. /\ req[r].pc = "select" /\ req[r].settings.aggregate = NoAggregate
          /\ UNCHANGED <<disk, home, mixed>>
      BY <1>2 DEF SelectRegular
    <2>2. ~mixed => disk.aggregate = NoAggregate
      BY <2>1 DEF Quiet
    <2>3. QED
      BY <2>1, <2>2 DEF Remembered, ByConversation
  <1>3. ASSUME NEW r \in Requests, SelectMember(r) PROVE Remembered'
    <2> DEFINE q == req[r]
               s == q.settings
               choice == Choice(s, q.conv, q.model)
    <2>1. /\ q.pc = "select" /\ s.aggregate # NoAggregate /\ s \in Configs
          /\ q.conv \in Convs \cup {NoConv} /\ UNCHANGED <<disk, mixed>>
      BY <1>3 DEF SelectMember, Standing, RequestStands, RequestStates
    <2> SUFFICES ASSUME ~mixed, ByConversation(disk), NEW c \in Convs, home'[c] # NoRelay
                 PROVE  Remembers(selector', disk, c, home'[c])
      BY <2>1 DEF Remembered
    <2>2. s = disk /\ Size(s.aggregate) # 0 /\ s.aggregate.strategy = "conversationRoundRobin"
      BY <2>1 DEF Quiet, ByConversation
    <2>3. /\ selector' = choice.sel
          /\ home' = IF s = disk /\ q.conv # NoConv /\ Routed(s, q.model) = NoRelay
                        /\ home[q.conv] = NoRelay
                     THEN [home EXCEPT ![q.conv] = choice.relay] ELSE home
      BY <1>3, <2>2 DEF SelectMember
    <2>4. /\ Follows(Current(s), choice.sel)
          /\ Routed(s, q.model) = NoRelay /\ q.conv # NoConv =>
                 Remembers(choice.sel, s, q.conv, choice.relay)
      <3>1. Follows(Current(s), choice.sel)
        BY <2>1, <2>2, ChoiceMade DEF Standing
      <3>2. ASSUME Routed(s, q.model) = NoRelay, q.conv # NoConv
            PROVE  Remembers(choice.sel, s, q.conv, choice.relay)
        BY <2>1, <2>2, <3>2, ChoiceRemembers DEF Standing
      <3>3. QED
        BY <3>1, <3>2
    <2>5. /\ Current(s).aggregate = s.aggregate
          /\ selector.aggregate = s.aggregate => Current(s) = selector
      BY <2>1, <2>2, CurrentStands DEF Standing
    <2> HIDE DEF choice
    <2>6. CASE home[c] # NoRelay
      <3>1. home'[c] = home[c] /\ Remembers(selector, disk, c, home[c])
        BY <2>3, <2>6 DEF Standing, Remembered
      <3>2. QED
        BY <2>2, <2>3, <2>4, <2>5, <3>1 DEF Remembers, Follows
    <2>7. CASE home[c] = NoRelay
      <3>1. /\ q.conv = c /\ home'[c] = choice.relay /\ q.conv # NoConv
            /\ Routed(s, q.model) = NoRelay
        BY <2>3, <2>7 DEF Standing
      <3>2. QED
        BY <2>2, <2>3, <2>4, <2>5, <3>1 DEF Remembers, Follows
    <2>8. QED
      BY <2>6, <2>7
  <1>4. ASSUME NEW r \in Requests, PeekMember(r) PROVE Remembered'
    <2> DEFINE s == req[r].settings
    <2>1. /\ req[r].pc = "select" /\ s.aggregate # NoAggregate /\ s \in Configs
          /\ UNCHANGED <<disk, home, mixed>>
      BY <1>4 DEF PeekMember, Standing, RequestStands
    <2> SUFFICES ASSUME ~mixed, ByConversation(disk), NEW c \in Convs, home[c] # NoRelay
                 PROVE  Remembers(selector', disk, c, home[c])
      BY <2>1 DEF Remembered
    <2>2. s = disk /\ Remembers(selector, disk, c, home[c])
      BY <2>1 DEF Quiet, Remembered
    <2>3. selector' = selector
      BY <1>4, <2>1, <2>2, CurrentStands DEF PeekMember, Remembers, Standing, ByConversation
    <2>4. QED
      BY <2>2, <2>3
  <1>5. ASSUME NEW r \in Requests, Record(r) PROVE Remembered'
    <2>1. /\ req[r].pc = "record" /\ req[r].ok \in BOOLEAN
          /\ UNCHANGED <<disk, home, mixed>>
      BY <1>5 DEF Record, Standing, RequestStates
    <2> SUFFICES ASSUME ~mixed, ByConversation(disk), NEW c \in Convs, home[c] # NoRelay
                 PROVE  Remembers(selector', disk, c, home[c])
      BY <2>1 DEF Remembered
    <2>2. req[r].settings = disk /\ Remembers(selector, disk, c, home[c])
      BY <2>1 DEF Quiet, Remembered
    <2>3. selector # NoSelector /\ disk.aggregate # NoAggregate
      BY <2>2, NoSelectorNoAggregate DEF Standing, Remembers, ByConversation
    <2>4. selector' = Recorded(selector, req[r].ok)
      BY <1>5, <2>2, <2>3 DEF Record
    <2>5. selector'.aggregate = selector.aggregate /\ selector'.assigned = selector.assigned
      BY <2>1, <2>3, <2>4, RecordedStands DEF Standing
    <2>6. QED
      BY <2>2, <2>5 DEF Remembers
  <1>6. CASE SaveSettings
    BY <1>6 DEF SaveSettings, Remembered
  <1>7. CASE UNCHANGED rotationVars
    BY <1>7 DEF rotationVars, Remembered
  <1>8. QED
    BY <1>1, <1>2, <1>3, <1>4, <1>5, <1>6, <1>7 DEF RotationNext, Proceed

(* A conversation keeps its member for as long as the settings stay, if no *)
(* request was in flight when they were saved: whatever probes, routed     *)
(* requests, failures and other conversations do to the selector.          *)
THEOREM ConversationsAreKept == RotationSpec => []ConversationKeepsMember
  <1>1. RotationInit => Quiet /\ Remembered
    BY DEF RotationInit, Quiet, Remembered, Idle
  <1>2. Standing /\ Quiet /\ Remembered /\ [RotationNext]_rotationVars => Quiet' /\ Remembered'
    BY QuietSteps, RememberedSteps
  <1>3. ASSUME Standing, Quiet, Remembered PROVE ConversationKeepsMember
    <2> SUFFICES ASSUME ~mixed, NEW r \in Requests, Strays(r) PROVE FALSE
      BY DEF ConversationKeepsMember
    <2> DEFINE q == req[r]
               known == ForConversation(Current(disk), q.conv)
    <2>1. /\ q.settings = disk /\ ByConversation(disk) /\ q.conv # NoConv
          /\ Routed(disk, q.model) = NoRelay /\ q.conv \in Convs
          /\ home[q.conv] # NoRelay /\ home[q.conv] # Chosen(r)
      <3>1. q.conv \in Convs \cup {NoConv}
        BY <1>3 DEF Standing, RequestStates
      <3>2. Size(disk.aggregate) > 0 => Size(disk.aggregate) # 0
        OBVIOUS
      <3>3. QED
        BY <3>1, <3>2 DEF Strays, ByConversation
    <2>2. Remembers(selector, disk, q.conv, home[q.conv])
      BY <1>3, <2>1 DEF Remembered
    <2>3. Current(disk) = selector
      BY <1>3, <2>1, <2>2, CurrentStands DEF Remembers, Standing, ByConversation
    <2>4. Chosen(r) = known.relay
      BY <2>1 DEF Chosen, Choice, ByConversation
    <2>5. known.relay = home[q.conv]
      BY <2>2, <2>3 DEF Remembers, ForConversation
    <2>6. QED
      BY <2>1, <2>4, <2>5
  <1>4. QED
    BY <1>1, <1>2, <1>3, StandingHolds, PTL DEF RotationSpec

-----------------------------------------------------------------------------
(* The turns the i-th member has had in a cycle that has come to p.        *)
Served(off, i, p) == IF p <= off[i - 1] THEN 0
                     ELSE IF p <= off[i] THEN p - off[i - 1] ELSE off[i] - off[i - 1]

DealtIn(a, off, cycles, count, p) ==
    \A i \in 1..Size(a) : count[a.members[i].relay] = cycles * Share(a, i) + Served(off, i, p)

Dealt(a, count, p) ==
    \E off : Laid(a, off) /\ \E cycles \in Nat : DealtIn(a, off, cycles, count, p)

(* Another cycle adds the weight once more.                                *)
LEMMA Multiples ==
    ASSUME NEW n \in Nat, NEW w \in Nat
    PROVE  n * w \in Nat /\ (n + 1) * w = n * w + w /\ (w # 0 => n <= n * w) /\ 0 * w = 0
  OBVIOUS

(* The bounds of the layout of the turns.                                  *)
LEMMA LaidFacts ==
    ASSUME NEW a, Proper(a), Size(a) # 0, NEW off, Laid(a, off)
    PROVE  /\ Size(a) \in Nat \ {0} /\ Size(a) \in 1..Size(a)
           /\ off[Size(a)] = Len(Turns(a)) /\ off[0] = 0
           /\ \A i \in 0..Size(a) : off[i] \in Nat /\ off[i] <= off[Size(a)]
           /\ \A i \in 1..Size(a) : /\ Share(a, i) \in Nat \ {0} /\ i - 1 \in 0..Size(a)
                                    /\ off[i] = off[i - 1] + Share(a, i)
                                    /\ off[i - 1] \in Nat /\ off[i] \in Nat
           /\ \A i, j \in 0..Size(a) : i <= j => off[i] <= off[j]
  <1>1. Size(a) \in Nat \ {0} /\ \A i \in 1..Size(a) : Share(a, i) \in Nat \ {0}
    BY ProperMembers
  <1>2. \A i \in 0..Size(a) : off[i] \in Nat
    BY DEF Laid
  <1>3. \A i \in 1..Size(a) : i \in 0..Size(a) /\ i - 1 \in 0..Size(a)
    BY <1>1
  <1>4. /\ off[Size(a)] = Len(Turns(a)) /\ off[0] = 0
        /\ \A i \in 1..Size(a) : off[i] = off[i - 1] + Share(a, i)
        /\ \A i, j \in 0..Size(a) : i <= j => off[i] <= off[j]
    BY DEF Laid
  <1>5. \A i \in 0..Size(a) : i <= Size(a) /\ Size(a) \in 0..Size(a)
    BY <1>1
  <1>6. \A i \in 0..Size(a) : off[i] <= off[Size(a)]
    BY <1>4, <1>5
  <1>7. Size(a) \in 1..Size(a)
    BY <1>1
  <1>8. QED
    BY <1>1, <1>2, <1>3, <1>4, <1>6, <1>7

(* In a cycle a member has had between none and all of its turns.          *)
LEMMA ServedBounds ==
    ASSUME NEW a, Proper(a), Size(a) # 0, NEW off, Laid(a, off),
           NEW i \in 1..Size(a), NEW p \in Nat
    PROVE  /\ Served(off, i, p) \in 0..Share(a, i)
           /\ Served(off, i, 0) = 0
           /\ Served(off, i, off[Size(a)]) = Share(a, i)
  <1>1. /\ Share(a, i) \in Nat \ {0} /\ off[i] = off[i - 1] + Share(a, i)
        /\ off[i - 1] \in Nat /\ off[i] \in Nat /\ off[Size(a)] \in Nat
        /\ off[i] <= off[Size(a)]
    <2>1. i \in 0..Size(a) /\ Size(a) \in 0..Size(a)
      BY LaidFacts
    <2>2. QED
      BY <2>1, LaidFacts
  <1>2. QED
    BY <1>1 DEF Served

(* The turn that comes next is one more for its member, and for no other.  *)
LEMMA ServedNext ==
    ASSUME NEW a, Proper(a), Size(a) # 0, NEW off, Laid(a, off),
           NEW p \in 0..(Len(Turns(a)) - 1), NEW i \in 1..Size(a)
    PROVE  Served(off, i, p + 1) = Served(off, i, p)
              + (IF a.members[i].relay = Turns(a)[p + 1] THEN 1 ELSE 0)
  <1> DEFINE N == Size(a)
  <1>1. off[N] = Len(Turns(a)) /\ off[N] \in Nat /\ N \in Nat \ {0}
    <2>1. N \in 0..N
      BY LaidFacts
    <2>2. QED
      BY <2>1, LaidFacts
  <1>2. p \in Nat /\ p + 1 \in 1..off[N]
    BY <1>1
  <1>3. PICK j \in 1..N : off[j - 1] < p + 1 /\ p + 1 <= off[j]
    BY <1>2 DEF Laid
  <1>4. Turns(a)[p + 1] = a.members[j].relay
    BY <1>2, <1>3 DEF Laid
  <1>5. a.members[i].relay = a.members[j].relay <=> i = j
    BY ProperMembers
  <1>6. /\ off[i - 1] \in Nat /\ off[i] \in Nat /\ off[j - 1] \in Nat /\ off[j] \in Nat
        /\ off[i - 1] <= off[i] /\ off[j - 1] <= off[j]
    BY LaidFacts
  <1>7. CASE i = j
    BY <1>2, <1>3, <1>4, <1>6, <1>7 DEF Served
  <1>8. CASE i < j
    <2>1. off[i] <= off[j - 1]
      <3>1. i \in 0..N /\ j - 1 \in 0..N /\ i <= j - 1
        BY <1>1, <1>8
      <3>2. QED
        BY <3>1, LaidFacts
    <2>2. Served(off, i, p + 1) = Served(off, i, p)
      BY <1>2, <1>3, <1>6, <2>1 DEF Served
    <2>3. Served(off, i, p) \in Nat /\ i # j
      BY <1>2, <1>6, <1>8 DEF Served
    <2>4. QED
      BY <1>4, <1>5, <2>2, <2>3
  <1>9. CASE i > j
    <2>1. off[j] <= off[i - 1]
      <3>1. i - 1 \in 0..N /\ j \in 0..N /\ j <= i - 1
        BY <1>1, <1>9
      <3>2. QED
        BY <3>1, LaidFacts
    <2>2. Served(off, i, p + 1) = 0 /\ Served(off, i, p) = 0 /\ i # j
      BY <1>2, <1>3, <1>6, <1>9, <2>1 DEF Served
    <2>3. QED
      BY <1>4, <1>5, <2>2
  <1>10. QED
    BY <1>1, <1>7, <1>8, <1>9

(* A new selector has dealt no turns.                                      *)
LEMMA DealtStarts ==
    ASSUME NEW a, Proper(a), Size(a) # 0, NEW count, \A m \in Members(a) : count[m] = 0
    PROVE  Dealt(a, count, 0)
  <1>1. PICK off : Laid(a, off)
    BY TurnsLaid
  <1>2. ASSUME NEW i \in 1..Size(a)
        PROVE  count[a.members[i].relay] = 0 * Share(a, i) + Served(off, i, 0)
    <2>1. Share(a, i) \in Nat /\ a.members[i].relay \in Members(a)
      BY ProperMembers
    <2>2. Served(off, i, 0) = 0
      BY <1>1, ServedBounds
    <2>3. 0 * Share(a, i) = 0
      BY <2>1, Multiples
    <2>4. QED
      BY <2>1, <2>2, <2>3
  <1>3. DealtIn(a, off, 0, count, 0)
    BY <1>2 DEF DealtIn
  <1>4. QED
    BY <1>1, <1>3 DEF Dealt

(* A turn more keeps the counts those of the position.                     *)
LEMMA DealtTurns ==
    ASSUME NEW a, Proper(a), Size(a) # 0, NEW count, NEW p \in 0..(Len(Turns(a)) - 1),
           \A m \in Members(a) : count[m] \in Nat, Dealt(a, count, p), NEW after,
           \A m \in Members(a) :
               after[m] = count[m] + (IF m = Turns(a)[p + 1] THEN 1 ELSE 0)
    PROVE  Dealt(a, after, (p + 1) % Len(Turns(a)))
  <1>1. PICK off : Laid(a, off) /\ \E cycles \in Nat : DealtIn(a, off, cycles, count, p)
    BY DEF Dealt
  <1>2. PICK cycles \in Nat : DealtIn(a, off, cycles, count, p)
    BY <1>1
  <1> DEFINE n == Len(Turns(a))
  <1>3. off[Size(a)] = n /\ n \in Nat \ {0} /\ p \in Nat
    BY <1>1, LaidFacts, TurnsAreMembers
  <1>4. ASSUME NEW i \in 1..Size(a)
        PROVE  /\ after[a.members[i].relay] = cycles * Share(a, i) + Served(off, i, p + 1)
               /\ Share(a, i) \in Nat /\ Served(off, i, p + 1) \in Nat
    <2> DEFINE m == a.members[i].relay
               more == IF m = Turns(a)[p + 1] THEN 1 ELSE 0
    <2>1. m \in Members(a) /\ Share(a, i) \in Nat \ {0}
      BY ProperMembers
    <2>2. /\ count[m] = cycles * Share(a, i) + Served(off, i, p)
          /\ after[m] = count[m] + more
      BY <1>2, <2>1 DEF DealtIn
    <2>3. Served(off, i, p + 1) = Served(off, i, p) + more
      BY <1>1, ServedNext
    <2>4. Served(off, i, p) \in Nat /\ cycles * Share(a, i) \in Nat /\ more \in Nat
      <3>1. Served(off, i, p) \in 0..Share(a, i)
        BY <1>1, <1>3, ServedBounds
      <3>2. QED
        BY <1>2, <2>1, <3>1, Multiples
    <2> HIDE DEF more, m
    <2>5. QED
      BY <2>1, <2>2, <2>3, <2>4 DEF m
  <1>5. CASE p + 1 < n
    <2>1. (p + 1) % n = p + 1
      BY <1>3, <1>5
    <2>2. DealtIn(a, off, cycles, after, p + 1)
      BY <1>4 DEF DealtIn
    <2>3. QED
      BY <1>1, <2>1, <2>2 DEF Dealt
  <1>6. CASE p + 1 = n
    <2>1. (p + 1) % n = 0
      BY <1>3, <1>6
    <2>2. ASSUME NEW i \in 1..Size(a)
          PROVE  after[a.members[i].relay] = (cycles + 1) * Share(a, i) + Served(off, i, 0)
      <3>1. Served(off, i, p + 1) = Share(a, i) /\ Served(off, i, 0) = 0
        BY <1>1, <1>3, <1>6, ServedBounds
      <3>2. /\ (cycles + 1) * Share(a, i) = cycles * Share(a, i) + Share(a, i)
            /\ cycles * Share(a, i) \in Nat
        BY <1>4, Multiples
      <3>3. QED
        BY <1>4, <3>1, <3>2
    <2>3. DealtIn(a, off, cycles + 1, after, 0)
      BY <2>2 DEF DealtIn
    <2>4. cycles + 1 \in Nat
      OBVIOUS
    <2>5. QED
      BY <1>1, <2>1, <2>3, <2>4 DEF Dealt
  <1>7. QED
    BY <1>3, <1>5, <1>6

-----------------------------------------------------------------------------
Fair == selector # NoSelector => Dealt(selector.aggregate, picks, Position(selector))

(* Requests that have yet to choose: their turns are still to come.        *)
Choosing == {r \in Requests : req[r].pc = "select"}
Counted == \A m \in Relays : picks[m] + Cardinality(Choosing) <= arrived

(* The turns under the selector a request finds or makes.                  *)
LEMMA FoundFair ==
    ASSUME Standing, Fair, NEW s \in Configs, s.aggregate # NoAggregate, Size(s.aggregate) # 0
    PROVE  LET before == IF Current(s) = selector THEN picks ELSE [m \in Relays |-> 0]
           IN  /\ Dealt(s.aggregate, before, Position(Current(s)))
               /\ before \in [Relays -> Nat] /\ \A m \in Relays : before[m] <= picks[m]
  <1> DEFINE before == IF Current(s) = selector THEN picks ELSE [m \in Relays |-> 0]
  <1>1. /\ Current(s) # NoSelector /\ Current(s).aggregate = s.aggregate
        /\ Current(s) = selector \/ Current(s) = Fresh(s.aggregate)
        /\ Proper(s.aggregate)
    BY CurrentStands, Aggregated DEF Standing
  <1>2. before \in [Relays -> Nat] /\ \A m \in Relays : before[m] <= picks[m]
    BY DEF Standing
  <1>3. CASE Current(s) = selector
    BY <1>1, <1>2, <1>3 DEF Fair
  <1>4. CASE Current(s) # selector
    <2>1. \A m \in Members(s.aggregate) : before[m] = 0
      BY <1>1, <1>4, MembersAreRelays
    <2>2. Position(Current(s)) = 0
      BY <1>1, <1>4 DEF Position, Fresh
    <2> HIDE DEF before
    <2>3. Dealt(s.aggregate, before, 0)
      BY <1>1, <2>1, DealtStarts
    <2>4. QED
      BY <1>2, <2>2, <2>3 DEF before
  <1>5. QED
    BY <1>3, <1>4

(* What a choice does to the turns.                                        *)
LEMMA ChoiceDeals ==
    ASSUME Standing, Fair, NEW r \in Requests, SelectMember(r),
           Size(req[r].settings.aggregate) # 0
    PROVE  Fair' /\ \A m \in Relays : picks'[m] <= picks[m] + 1
  <1> DEFINE q == req[r]
             s == q.settings
             a == s.aggregate
             choice == Choice(s, q.conv, q.model)
             sel == Current(s)
             before == IF Current(s) = selector THEN picks ELSE [m \in Relays |-> 0]
  <1>1. /\ a # NoAggregate /\ s \in Configs /\ q.conv \in Convs \cup {NoConv}
        /\ selector' = choice.sel
        /\ picks' = [before EXCEPT ![choice.relay] = @ + (IF choice.turn THEN 1 ELSE 0)]
    BY DEF SelectMember, Standing, RequestStands, RequestStates
  <1>2. /\ Dealt(a, before, Position(sel)) /\ before \in [Relays -> Nat]
        /\ \A m \in Relays : before[m] <= picks[m]
    BY <1>1, FoundFair
  <1>3. /\ sel \in SelectorStates /\ sel # NoSelector /\ sel.aggregate = a /\ Proper(a)
    BY <1>1, CurrentStands, Aggregated DEF Standing
  <1>4. /\ Follows(sel, choice.sel) /\ choice.relay \in Members(a)
        /\ choice.turn = FALSE \/ choice.turn = TRUE
        /\ choice.turn = FALSE => Position(choice.sel) = Position(sel)
        /\ choice.turn = TRUE => Turned(sel, choice.relay, choice.sel)
    BY <1>1, ChoiceMade DEF Standing
  <1>5. choice.relay \in Relays /\ Members(a) \subseteq Relays
    BY <1>3, <1>4, MembersAreRelays
  <1>6. selector'.aggregate = a
    BY <1>1, <1>3, <1>4 DEF Follows
  <1> HIDE DEF choice, before, sel
  <1>7. CASE choice.turn = FALSE
    <2>1. picks' = before /\ Position(choice.sel) = Position(sel)
      BY <1>1, <1>2, <1>4, <1>5, <1>7
    <2>2. Dealt(selector'.aggregate, picks', Position(selector'))
      BY <1>1, <1>2, <1>6, <2>1
    <2>3. QED
      BY <1>2, <2>1, <2>2 DEF Fair, Standing
  <1>8. CASE choice.turn = TRUE
    <2>1. /\ choice.relay = Turns(a)[Position(sel) + 1]
          /\ Position(choice.sel) = (Position(sel) + 1) % Len(Turns(a))
      BY <1>3, <1>4, <1>8 DEF Turned
    <2>2. \A m \in Relays : picks'[m] = before[m] + (IF m = choice.relay THEN 1 ELSE 0)
      BY <1>1, <1>2, <1>5, <1>8
    <2>3. \A m \in Members(a) :
              picks'[m] = before[m] + (IF m = Turns(a)[Position(sel) + 1] THEN 1 ELSE 0)
      BY <1>5, <2>1, <2>2
    <2>4. Position(sel) \in 0..(Len(Turns(a)) - 1)
      BY <1>3, SelectorFields
    <2>5. \A m \in Members(a) : before[m] \in Nat
      BY <1>2, <1>5
    <2>6. Dealt(a, picks', (Position(sel) + 1) % Len(Turns(a)))
      <3>1. PICK x : x = a /\ Proper(x) /\ Size(x) # 0
        BY <1>3
      <3>2. PICK p \in 0..(Len(Turns(x)) - 1) : p = Position(sel)
        BY <2>4, <3>1
      <3>3. PICK after : after = picks'
        OBVIOUS
      <3>4. /\ \A m \in Members(x) : before[m] \in Nat
            /\ \A m \in Members(x) :
                   after[m] = before[m] + (IF m = Turns(x)[p + 1] THEN 1 ELSE 0)
            /\ Dealt(x, before, p)
        BY <1>2, <2>3, <2>5, <3>1, <3>2, <3>3
      <3>5. Dealt(x, after, (p + 1) % Len(Turns(x)))
        BY <3>1, <3>4, DealtTurns
      <3>6. QED
        BY <3>1, <3>2, <3>3, <3>5
    <2>7. Dealt(selector'.aggregate, picks', Position(selector'))
      BY <1>1, <1>6, <2>1, <2>6
    <2>8. Fair'
      BY <2>7 DEF Fair
    <2>9. \A m \in Relays : picks'[m] <= picks[m] + 1
      BY <1>2, <2>2 DEF Standing
    <2>10. QED
      BY <2>8, <2>9
  <1>9. QED
    BY <1>4, <1>7, <1>8

(* Every step keeps the counts of the picks those of the selector.         *)
LEMMA FairSteps ==
    ASSUME Standing, Fair, [RotationNext]_rotationVars
    PROVE  Fair'
  <1>1. ASSUME selector' = selector, picks' = picks PROVE Fair'
    BY <1>1 DEF Fair
  <1>2. ASSUME NEW r \in Requests, SelectRegular(r) PROVE Fair'
    <2>1. selector' = selector \/ selector' = NoSelector
      BY <1>2 DEF SelectRegular
    <2>2. picks' = picks
      BY <1>2 DEF SelectRegular
    <2>3. QED
      BY <2>1, <2>2 DEF Fair
  <1>3. ASSUME NEW r \in Requests, SelectMember(r) PROVE Fair'
    <2>1. CASE Size(req[r].settings.aggregate) = 0
      BY <1>1, <1>3, <2>1 DEF SelectMember
    <2>2. CASE Size(req[r].settings.aggregate) # 0
      BY <1>3, <2>2, ChoiceDeals
    <2>3. QED
      BY <2>1, <2>2
  <1>4. ASSUME NEW r \in Requests, PeekMember(r) PROVE Fair'
    <2> DEFINE s == req[r].settings
    <2>1. s.aggregate # NoAggregate /\ s \in Configs
      BY <1>4 DEF PeekMember, Standing, RequestStands
    <2>2. CASE Size(s.aggregate) = 0
      BY <1>1, <1>4, <2>2 DEF PeekMember
    <2>3. CASE Size(s.aggregate) # 0
      <3>1. /\ selector' = Current(s)
            /\ picks' = IF Current(s) = selector THEN picks ELSE [m \in Relays |-> 0]
        BY <1>4, <2>3 DEF PeekMember
      <3>2. /\ Dealt(s.aggregate, picks', Position(Current(s)))
            /\ Current(s).aggregate = s.aggregate
        BY <2>1, <2>3, <3>1, FoundFair, CurrentStands DEF Standing
      <3>3. Dealt(selector'.aggregate, picks', Position(selector'))
        BY <3>1, <3>2
      <3>4. QED
        BY <3>3 DEF Fair
    <2>4. QED
      BY <2>2, <2>3
  <1>5. ASSUME NEW r \in Requests, Record(r) PROVE Fair'
    <2>1. /\ selector' = NoSelector
             \/ (selector # NoSelector /\ selector' = Recorded(selector, req[r].ok))
          /\ picks' = picks /\ req[r].ok \in BOOLEAN
      BY <1>5 DEF Record, Standing, RequestStates
    <2>2. CASE selector' = NoSelector
      BY <2>2 DEF Fair
    <2>3. CASE selector # NoSelector /\ selector' = Recorded(selector, req[r].ok)
      <3>1. /\ selector'.aggregate = selector.aggregate /\ selector'.request = selector.request
            /\ selector'.weighted = selector.weighted
        BY <2>1, <2>3, RecordedStands DEF Standing
      <3>2. Position(selector') = Position(selector)
        BY <3>1 DEF Position
      <3>3. Dealt(selector'.aggregate, picks', Position(selector'))
        BY <2>1, <2>3, <3>1, <3>2 DEF Fair
      <3>4. QED
        BY <3>3 DEF Fair
    <2>4. QED
      BY <2>1, <2>2, <2>3
  <1>6. ASSUME NEW r \in Requests, Arrive(r) \/ GiveUp(r) \/ Send(r) PROVE Fair'
    BY <1>1, <1>6 DEF Arrive, GiveUp, Send
  <1>7. CASE SaveSettings
    BY <1>1, <1>7 DEF SaveSettings
  <1>8. CASE UNCHANGED rotationVars
    BY <1>1, <1>8 DEF rotationVars
  <1>9. QED
    BY <1>2, <1>3, <1>4, <1>5, <1>6, <1>7, <1>8 DEF RotationNext, Proceed

(* Counting the requests that have yet to choose.                          *)
LEMMA ChoosingFinite ==
    ASSUME NEW S \in SUBSET Requests, NEW r \in Requests
    PROVE  /\ IsFiniteSet(S) /\ Cardinality(S) \in Nat
           /\ r \notin S => Cardinality(S \cup {r}) = Cardinality(S) + 1
           /\ r \in S => Cardinality(S \ {r}) = Cardinality(S) - 1
  <1>1. IsFiniteSet(S)
    BY RotationAssumption, FS_Subset
  <1>2. QED
    BY <1>1, FS_CardinalityType, FS_AddElement, FS_RemoveElement

(* Send takes no turn, and leaves the selector or moves its failover       *)
(* index.                                                                  *)
LEMMA SendMoves ==
    ASSUME Standing, NEW r \in Requests, Send(r)
    PROVE  req'[r].pc # "select"
  <1> DEFINE q == req[r]
  <1>1. PICK ok \in BOOLEAN :
          IF q.kind = "probe"
          THEN End(r, IF ok THEN "served" ELSE "failed")
          ELSE Put(r, [q EXCEPT !.pc = "record", !.ok = ok,
                                !.tried = Append(q.tried, q.queue[1]), !.queue = Tail(@)])
    BY DEF Send
  <1>2. CASE q.kind = "probe"
    <2>1. End(r, "served") \/ End(r, "failed")
      BY <1>1, <1>2
    <2>2. QED
      BY <2>1, EndStands DEF Standing
  <1>3. CASE q.kind # "probe"
    <2> DEFINE p == [q EXCEPT !.pc = "record", !.ok = ok,
                              !.tried = Append(q.tried, q.queue[1]), !.queue = Tail(@)]
    <2>1. p.pc = "record"
      BY DEF Standing, RequestStates
    <2>2. Put(r, p)
      BY <1>1, <1>3
    <2> HIDE DEF p
    <2>3. req'[r] = p
      BY <2>2 DEF Put, Standing
    <2>4. QED
      BY <2>1, <2>3
  <1>4. QED
    BY <1>2, <1>3

(* Every pick is of a request that arrived since the selector was made.    *)
LEMMA CountedSteps ==
    ASSUME Standing, Fair, Counted, [RotationNext]_rotationVars
    PROVE  Counted'
  <1>0. Choosing \in SUBSET Requests
    BY DEF Choosing
  <1>1. ASSUME NEW r \in Requests, Arrive(r) PROVE Counted'
    <2>1. /\ req[r].pc = "idle" /\ req'[r].pc = "select"
          /\ \A p \in Requests : p # r => req'[p] = req[p]
          /\ arrived' = arrived + 1 /\ picks' = picks
      <3>1. req[r].pc = "idle" /\ arrived' = arrived + 1 /\ picks' = picks
        BY <1>1 DEF Arrive
      <3>2. PICK kind \in {"response", "compact", "probe"}, conv \in Convs \cup {NoConv},
                 model \in Models \cup {NoModel} :
                     Put(r, [Idle EXCEPT !.pc = "select", !.settings = disk,
                                         !.kind = kind, !.conv = conv, !.model = model])
        BY <1>1 DEF Arrive
      <3> DEFINE p == [Idle EXCEPT !.pc = "select", !.settings = disk, !.kind = kind,
                                   !.conv = conv, !.model = model]
      <3>3. p.pc = "select"
        <4>1. Idle \in RequestStates
          BY DEF RequestStates, Idle
        <4>2. QED
          BY <4>1 DEF RequestStates
      <3>4. Put(r, p)
        BY <3>2
      <3> HIDE DEF p
      <3>5. req'[r].pc = "select"
        BY <3>3, <3>4 DEF Put, Standing
      <3>6. QED
        BY <1>1, <3>1, <3>5, OneRequestMoves DEF Standing
    <2>2. Choosing' = Choosing \cup {r} /\ r \notin Choosing
      BY <2>1 DEF Choosing
    <2>3. Cardinality(Choosing') = Cardinality(Choosing) + 1 /\ Cardinality(Choosing) \in Nat
      BY <1>0, <2>2, ChoosingFinite
    <2>4. QED
      BY <2>1, <2>3 DEF Counted, Standing
  <1>2. ASSUME NEW r \in Requests, req[r].pc = "select", req'[r].pc # "select",
               Proceed(r), arrived' = arrived, \A m \in Relays : picks'[m] <= picks[m] + 1,
               \A m \in Relays : picks'[m] \in Nat
        PROVE  Counted'
    <2>1. \A p \in Requests : p # r => req'[p] = req[p]
      BY <1>2, OneRequestMoves DEF Standing
    <2>2. Choosing' = Choosing \ {r} /\ r \in Choosing
      BY <1>2, <2>1 DEF Choosing
    <2>3. Cardinality(Choosing') = Cardinality(Choosing) - 1 /\ Cardinality(Choosing) \in Nat
      BY <1>0, <2>2, ChoosingFinite
    <2>4. QED
      BY <1>2, <2>3 DEF Counted, Standing
  <1>3. ASSUME NEW r \in Requests, req[r].pc # "select", req'[r].pc # "select",
               Proceed(r), arrived' = arrived, picks' = picks
        PROVE  Counted'
    <2>1. \A p \in Requests : p # r => req'[p] = req[p]
      BY <1>3, OneRequestMoves DEF Standing
    <2>2. Choosing' = Choosing
      BY <1>3, <2>1 DEF Choosing
    <2>3. QED
      BY <1>3, <2>2 DEF Counted
  <1>4. ASSUME NEW r \in Requests, Proceed(r) PROVE req'[r].pc # "select"
    <2>1. \A p : Put(r, p) => req'[r] = p
      BY DEF Standing, Put
    <2>2. CASE \E result \in {"none", "served", "failed", "refused"} : End(r, result)
      BY <2>2, EndStands DEF Standing
    <2>3. req[r] \in RequestStates
      BY DEF Standing
    <2>4. CASE \E queue : Put(r, [req[r] EXCEPT !.pc = "try", !.queue = queue])
      BY <2>1, <2>3, <2>4 DEF RequestStates
    <2>5. CASE Put(r, [req[r] EXCEPT !.pc = "try"])
      BY <2>1, <2>3, <2>5 DEF RequestStates
    <2>7. CASE SelectRegular(r)
      BY <2>2, <2>4, <2>7 DEF SelectRegular
    <2>8. CASE SelectMember(r)
      BY <2>2, <2>4, <2>8 DEF SelectMember
    <2>9. CASE PeekMember(r)
      BY <2>2, <2>4, <2>9 DEF PeekMember
    <2>10. CASE GiveUp(r)
      BY <2>2, <2>10 DEF GiveUp
    <2>11. CASE Send(r)
      BY <2>11, SendMoves
    <2>12. CASE Record(r)
      BY <2>2, <2>5, <2>12 DEF Record
    <2>13. QED
      BY <1>4, <2>7, <2>8, <2>9, <2>10, <2>11, <2>12 DEF Proceed
  <1>5. ASSUME NEW r \in Requests, SelectRegular(r) \/ SelectMember(r) \/ PeekMember(r)
        PROVE  Counted'
    <2>1. req[r].pc = "select" /\ arrived' = arrived /\ Proceed(r)
      BY <1>5 DEF SelectRegular, SelectMember, PeekMember, Proceed
    <2>2. \A m \in Relays : picks'[m] <= picks[m] + 1
      <3>1. CASE SelectRegular(r)
        BY <3>1 DEF SelectRegular, Standing
      <3>2. CASE PeekMember(r)
        <4>1. picks' = picks \/ picks' = [m \in Relays |-> 0]
          BY <3>2 DEF PeekMember
        <4>2. QED
          BY <4>1 DEF Standing
      <3>3. CASE SelectMember(r) /\ Size(req[r].settings.aggregate) = 0
        BY <3>3 DEF SelectMember, Standing
      <3>4. CASE SelectMember(r) /\ Size(req[r].settings.aggregate) # 0
        BY <3>4, ChoiceDeals
      <3>5. QED
        BY <1>5, <3>1, <3>2, <3>3, <3>4
    <2>3. Standing'
      BY StandingSteps
    <2>4. \A m \in Relays : picks'[m] \in Nat
      BY <2>3 DEF Standing
    <2>5. QED
      BY <1>2, <1>4, <2>1, <2>2, <2>4
  <1>6. ASSUME NEW r \in Requests, GiveUp(r) \/ Send(r) \/ Record(r)
        PROVE  Counted'
    <2>1. req[r].pc # "select" /\ arrived' = arrived /\ picks' = picks /\ Proceed(r)
      BY <1>6 DEF GiveUp, Send, Record, Proceed
    <2>2. QED
      BY <1>3, <1>4, <2>1
  <1>7. CASE SaveSettings
    <2>1. req' = req /\ arrived' = arrived /\ picks' = picks
      BY <1>7 DEF SaveSettings
    <2>2. QED
      BY <2>1 DEF Counted, Choosing
  <1>8. CASE UNCHANGED rotationVars
    BY <1>8 DEF rotationVars, Counted, Choosing
  <1>9. QED
    BY <1>1, <1>5, <1>6, <1>7, <1>8 DEF RotationNext, Proceed

(* The counts of a selector put the shares within one cycle of each other. *)
LEMMA RotationIsFair ==
    ASSUME Standing, Fair, Counted
    PROVE  FairShare
  <1> SUFFICES ASSUME selector # NoSelector
               PROVE  \E cycles \in 0..MaxRequests :
                         \A i \in DOMAIN selector.aggregate.members :
                            picks[selector.aggregate.members[i].relay] \in
                               (cycles * Share(selector.aggregate, i))
                                  ..((cycles + 1) * Share(selector.aggregate, i))
    BY DEF FairShare, Share
  <1> DEFINE a == selector.aggregate
             p == Position(selector)
  <1>1. /\ Proper(a) /\ Size(a) \in Nat \ {0} /\ p \in Nat
        /\ DOMAIN a.members = 1..Size(a)
    BY SelectorFields, ProperMembers DEF Standing
  <1>2. PICK off : Laid(a, off) /\ \E cycles \in Nat : DealtIn(a, off, cycles, picks, p)
    BY DEF Fair, Dealt
  <1>3. PICK cycles \in Nat : DealtIn(a, off, cycles, picks, p)
    BY <1>2
  <1> HIDE DEF a, p
  <1>4. ASSUME NEW i \in 1..Size(a)
        PROVE  /\ a.members[i].relay \in Relays /\ Share(a, i) \in Nat \ {0}
               /\ picks[a.members[i].relay] \in
                     (cycles * Share(a, i))..((cycles + 1) * Share(a, i))
               /\ cycles <= picks[a.members[i].relay]
    <2>1. a.members[i].relay \in Relays /\ Share(a, i) \in Nat \ {0}
      BY <1>1, ProperMembers
    <2>2. Served(off, i, p) \in 0..Share(a, i)
      BY <1>1, <1>2, ServedBounds
    <2>3. picks[a.members[i].relay] = cycles * Share(a, i) + Served(off, i, p)
      BY <1>3 DEF DealtIn
    <2>4. /\ cycles * Share(a, i) \in Nat /\ cycles <= cycles * Share(a, i)
          /\ (cycles + 1) * Share(a, i) = cycles * Share(a, i) + Share(a, i)
      BY <2>1, Multiples
    <2>5. QED
      BY <2>1, <2>2, <2>3, <2>4
  <1>5. cycles \in 0..MaxRequests
    <2>1. 1 \in 1..Size(a)
      BY <1>1
    <2>2. PICK m \in Relays : cycles <= picks[m]
      BY <1>4, <2>1
    <2>3. Choosing \in SUBSET Requests
      BY DEF Choosing
    <2>4. IsFiniteSet(Choosing)
      BY <2>3, RotationAssumption, FS_Subset
    <2>5. Cardinality(Choosing) \in Nat
      BY <2>4, FS_CardinalityType
    <2>6. picks[m] + Cardinality(Choosing) <= arrived
      BY DEF Counted
    <2>7. picks[m] \in Nat /\ arrived \in Nat /\ arrived <= MaxRequests /\ MaxRequests \in Nat
      BY RotationAssumption DEF Standing
    <2>8. QED
      BY <2>2, <2>5, <2>6, <2>7
  <1>6. \A i \in 1..Size(a) : picks[a.members[i].relay] \in
                                 (cycles * Share(a, i))..((cycles + 1) * Share(a, i))
    BY <1>4
  <1>7. QED
    BY <1>1, <1>5, <1>6 DEF a

(* A rotation is fair however requests interleave, whichever of them are   *)
(* routed past it, repeat a conversation or are refused: members get their *)
(* turns in equal numbers, or in the proportion of their weights, up to    *)
(* the cycle that is under way.                                            *)
THEOREM TurnsAreShared == RotationSpec => []FairShare
  <1>1. RotationInit => Fair /\ Counted
    <2> SUFFICES ASSUME RotationInit PROVE Fair /\ Counted
      OBVIOUS
    <2>1. Choosing = {}
      BY DEF RotationInit, Choosing, Idle
    <2>2. Cardinality(Choosing) = 0
      BY <2>1, FS_EmptySet
    <2>3. QED
      BY <2>2 DEF RotationInit, Fair, Counted
  <1>2. Standing /\ Fair /\ Counted /\ [RotationNext]_rotationVars => Fair' /\ Counted'
    BY FairSteps, CountedSteps
  <1>3. Standing /\ Fair /\ Counted => FairShare
    BY RotationIsFair
  <1>4. QED
    BY <1>1, <1>2, <1>3, StandingHolds, PTL DEF RotationSpec

-----------------------------------------------------------------------------
(* With every member usable, the candidates are all the members, in the    *)
(* order of the circle.                                                    *)
LEMMA CandidatesRound ==
    ASSUME NEW s, Proper(s.aggregate), Members(s.aggregate) \subseteq s.usable,
           NEW f \in 0..(Size(s.aggregate) - 1), NEW relay, relay = MemberAt(s.aggregate, f)
    PROVE  LET c == <<relay>> \o Fallbacks(s, relay) IN
           /\ Len(c) = Size(s.aggregate)
           /\ \A j \in 1..Len(c) : c[j] = MemberAt(s.aggregate, f + j - 1)
  <1> DEFINE g == Fallbacks(s, relay)
             c == <<relay>> \o g
  <1>1. PICK a : a = s.aggregate
    OBVIOUS
  <1>2. PICK n : n = Size(a)
    OBVIOUS
  <1>3. n \in Nat \ {0} /\ f \in Nat /\ f + 1 \in 1..n
    BY <1>1, <1>2, ProperMembers
  <1>4. PICK p \in 1..n : p = f + 1
    BY <1>3
  <1>5. relay = a.members[p].relay
    BY <1>1, <1>2, <1>3, <1>4, MemberAtPosition
  <1>6. PICK list : Behinds(a, p, list) /\ g = AvailableIn(s, list)
    BY <1>1, <1>2, <1>5, FallbacksAround
  <1>7. /\ list \in Seq(Members(a)) /\ Len(list) = n - 1
        /\ \A k \in 1..(n - 1) : list[k] = MemberAt(a, p + k - 1)
    BY <1>2, <1>6 DEF Behinds
  <1>8. \A k \in 1..(n - 1) : Available(s, list[k])
    BY <1>1, <1>7, ElementOfSeq DEF Available
  <1>9. g \in Seq(Members(a)) /\ Len(g) = n - 1 /\ \A k \in 1..(n - 1) : g[k] = list[k]
    <2>1. g \in Seq(Members(a)) /\ Sifted(s, list, g, Len(list))
      BY <1>6, <1>7, AvailableInSifts
    <2> HIDE DEF g
    <2>2. QED
      BY <1>7, <1>8, <2>1 DEF Sifted
  <1> HIDE DEF g
  <1>10. /\ Len(c) = n /\ c[1] = relay
         /\ \A j \in 2..n : c[j] = g[j - 1]
    BY <1>3, <1>9
  <1> HIDE DEF c
  <1>11. ASSUME NEW j \in 1..n PROVE c[j] = MemberAt(a, f + j - 1)
    <2>1. CASE j = 1
      <3>1. f + j - 1 = f
        BY <1>3, <2>1
      <3>2. QED
        BY <1>1, <1>10, <2>1, <3>1
    <2>2. CASE j # 1
      <3>1. PICK k \in 1..(n - 1) : k = j - 1
        BY <1>3, <2>2
      <3>2. c[j] = list[k] /\ p + k - 1 = f + j - 1
        BY <1>3, <1>4, <1>9, <1>10, <2>2, <3>1
      <3>3. QED
        BY <1>7, <3>2
    <2>3. QED
      BY <2>1, <2>2
  <1>12. QED
    BY <1>1, <1>2, <1>10, <1>11 DEF c, g

(* Taking the index one on, the circle is read from the next member.       *)
LEMMA MoveRound ==
    ASSUME NEW a, Proper(a), Size(a) # 0, NEW f \in 0..(Size(a) - 1),
           NEW j \in 1..(Size(a) - 1)
    PROVE  MemberAt(a, f + j) = MemberAt(a, ((f + 1) % Size(a)) + j - 1)
  <1> DEFINE n == Size(a)
  <1>1. n \in Nat \ {0} /\ f \in Nat
    BY ProperMembers
  <1>2. CASE f + 1 < n
    <2>1. (f + 1) % n = f + 1
      BY <1>1, <1>2
    <2>2. (f + 1) + j - 1 = f + j
      BY <1>1
    <2>3. QED
      BY <2>1, <2>2
  <1>3. CASE f + 1 = n
    <2>1. (f + 1) % n = 0 /\ 0 + j - 1 = j - 1
      BY <1>1, <1>3
    <2>2. PICK x \in n..(2 * n - 1) : x = f + j
      BY <1>1, <1>3
    <2>3. MemberAt(a, x) = a.members[x - n + 1].relay /\ x - n + 1 = j
      BY <1>1, <1>3, <2>2, MemberAtPosition
    <2>4. PICK y \in 0..(n - 1) : y = j - 1
      BY <1>1
    <2>5. MemberAt(a, y) = a.members[y + 1].relay /\ y + 1 = j
      BY <1>1, <2>4, MemberAtPosition
    <2>6. QED
      BY <2>1, <2>2, <2>3, <2>4, <2>5
  <1>4. QED
    BY <1>1, <1>2, <1>3

-----------------------------------------------------------------------------
(* Where failover goes: the candidates left are the members from the index *)
(* on.                                                                     *)
Unrouted(q) ==
    /\ q.kind # "probe" /\ q.settings.aggregate # NoAggregate
    /\ q.settings.aggregate.strategy = "failover"
    /\ Members(q.settings.aggregate) \subseteq q.settings.usable
    /\ Routed(q.settings, q.model) = NoRelay

Aligned(q, a, f) ==
    /\ Len(q.queue) <= (IF q.pc = "try" THEN Size(a) ELSE Size(a) - 1)
    /\ q.pc = "try" => \A j \in 1..Len(q.queue) : q.queue[j] = MemberAt(a, f + j - 1)
    /\ q.pc = "record" => /\ Last(q.tried) = MemberAt(a, f)
                          /\ \A j \in 1..Len(q.queue) : q.queue[j] = MemberAt(a, f + j)

Heads(q, x) ==
    q.pc \in {"try", "record"} /\ Unrouted(q) =>
        /\ x.aggregate = q.settings.aggregate
        /\ Aligned(q, x.aggregate, x.failover)

Settled ==
    solo => \A r \in Requests : req[r].pc # "idle" =>
               /\ \A p \in Requests : req[p].pc # "idle" => p = r
               /\ Heads(req[r], selector)

(* The candidates a request begins with start at the index.                *)
LEMMA SelectMemberSettles ==
    ASSUME Standing, NEW r \in Requests, SelectMember(r), req'[r].pc # "idle"
    PROVE  Heads(req'[r], selector')
  <1> DEFINE q == req[r]
             s == q.settings
             choice == Choice(s, q.conv, q.model)
             sel == Current(s)
  <1>1. /\ q.pc = "select" /\ s.aggregate # NoAggregate /\ s \in Configs /\ RequestStands(q)
        /\ q.conv \in Convs \cup {NoConv} /\ Proper(s.aggregate)
    BY Aggregated DEF SelectMember, Standing, RequestStands, RequestStates
  <1>2. Size(s.aggregate) # 0
    <2>1. Size(s.aggregate) = 0 => End(r, "refused")
      BY DEF SelectMember
    <2>2. End(r, "refused") => req'[r].pc = "idle"
      BY EndStands DEF Standing
    <2>3. QED
      BY <2>1, <2>2
  <1>3. /\ selector' = choice.sel
        /\ IF choice.relay \in s.usable
           THEN Put(r, [q EXCEPT !.pc = "try",
                                 !.queue = <<choice.relay>> \o Fallbacks(s, choice.relay)])
           ELSE End(r, "refused")
    BY <1>2 DEF SelectMember
  <1>4. /\ Follows(sel, choice.sel) /\ choice.relay \in Members(s.aggregate)
        /\ s.aggregate.strategy = "failover" /\ Routed(s, q.model) = NoRelay =>
               choice.relay = MemberAt(s.aggregate, sel.failover)
    BY <1>1, <1>2, ChoiceMade DEF Standing
  <1>5. sel \in SelectorStates /\ sel # NoSelector /\ sel.aggregate = s.aggregate
    BY <1>1, <1>2, CurrentStands DEF Standing
  <1>6. sel.failover \in 0..(Size(s.aggregate) - 1)
    BY <1>5, SelectorFields
  <1>7. selector'.aggregate = s.aggregate /\ selector'.failover = sel.failover
    BY <1>3, <1>4, <1>5 DEF Follows
  <1>8. PICK relay : relay = choice.relay
    OBVIOUS
  <1> HIDE DEF choice, sel
  <1>9. relay \in s.usable
    <2>1. End(r, "refused") => req'[r].pc = "idle"
      BY EndStands DEF Standing
    <2>2. QED
      BY <1>3, <1>8, <2>1
  <1> DEFINE list == <<relay>> \o Fallbacks(s, relay)
             p == [q EXCEPT !.pc = "try", !.queue = list]
  <1>10. list \in Seq(Relays) /\ list # <<>> /\ Trying(s, q.kind, list)
    BY <1>1, <1>4, <1>8, <1>9, CandidatesStand DEF Available
  <1>11. Put(r, p)
    BY <1>3, <1>8, <1>9
  <1>12. ASSUME s.aggregate.strategy = "failover", Members(s.aggregate) \subseteq s.usable,
                Routed(s, q.model) = NoRelay
         PROVE  /\ Len(list) = Size(s.aggregate)
                /\ \A j \in 1..Len(list) : list[j] = MemberAt(s.aggregate, sel.failover + j - 1)
    <2>1. PICK f \in 0..(Size(s.aggregate) - 1) : f = sel.failover
      BY <1>6
    <2>2. relay = MemberAt(s.aggregate, f)
      BY <1>4, <1>8, <1>12, <2>1
    <2>3. /\ Len(list) = Size(s.aggregate)
          /\ \A j \in 1..Len(list) : list[j] = MemberAt(s.aggregate, f + j - 1)
      BY <1>1, <1>12, <2>2, CandidatesRound
    <2>4. QED
      BY <2>1, <2>3
  <1> HIDE DEF list
  <1>13. /\ p.pc = "try" /\ p.queue = list /\ p.settings = s /\ p.kind = q.kind
         /\ p.model = q.model
    BY <1>1, <1>10 DEF RequestStands, RequestStates
  <1>14. req'[r] = p
    BY <1>11 DEF Put, Standing
  <1> HIDE DEF p
  <1>15. Size(s.aggregate) \in Nat
    BY <1>1, ProperMembers
  <1>16. ASSUME Unrouted(p) PROVE Aligned(p, s.aggregate, sel.failover)
    <2>1. /\ Len(list) = Size(s.aggregate)
          /\ \A j \in 1..Len(list) : list[j] = MemberAt(s.aggregate, sel.failover + j - 1)
      BY <1>12, <1>13, <1>16 DEF Unrouted
    <2>2. QED
      BY <1>13, <1>15, <2>1 DEF Aligned
  <1>17. QED
    BY <1>7, <1>13, <1>14, <1>16 DEF Heads

(* An attempt that fails leaves the index at the member that failed.       *)
LEMMA SendSettles ==
    ASSUME Standing, NEW r \in Requests, Send(r), req'[r].pc # "idle",
           Heads(req[r], selector)
    PROVE  Heads(req'[r], selector')
  <1> DEFINE q == req[r]
             a == q.settings.aggregate
             f == selector.failover
  <1>1. q.pc = "try" /\ RequestStands(q) /\ selector' = selector
    BY DEF Send, Standing
  <1>2. PICK ok \in BOOLEAN :
          IF q.kind = "probe"
          THEN End(r, IF ok THEN "served" ELSE "failed")
          ELSE Put(r, [q EXCEPT !.pc = "record", !.ok = ok,
                                !.tried = Append(q.tried, q.queue[1]), !.queue = Tail(@)])
    BY DEF Send
  <1>3. q.kind # "probe"
    <2>1. q.kind = "probe" => End(r, "served") \/ End(r, "failed")
      BY <1>2
    <2>2. End(r, "served") \/ End(r, "failed") => req'[r].pc = "idle"
      BY EndStands DEF Standing
    <2>3. QED
      BY <2>1, <2>2
  <1> DEFINE p == [q EXCEPT !.pc = "record", !.ok = ok,
                            !.tried = Append(q.tried, q.queue[1]), !.queue = Tail(@)]
  <1>4. /\ p.pc = "record" /\ p.settings = q.settings /\ p.model = q.model
        /\ p.tried = Append(q.tried, q.queue[1]) /\ p.queue = Tail(q.queue)
    BY <1>1, <1>3, SentStands
  <1>5. Put(r, p)
    BY <1>2, <1>3
  <1> HIDE DEF p
  <1>6. req'[r] = p
    BY <1>5 DEF Put, Standing
  <1>7. /\ q.tried \in Seq(Relays) /\ q.queue \in Seq(Relays) /\ q.queue # <<>>
    BY <1>1 DEF RequestStands, RequestStates
  <1>8. /\ Last(p.tried) = q.queue[1] /\ Len(p.queue) = Len(q.queue) - 1
        /\ \A j \in 1..(Len(q.queue) - 1) : p.queue[j] = q.queue[j + 1]
        /\ Len(q.queue) \in Nat \ {0}
    BY <1>4, <1>7, HandedLast
  <1>9. ASSUME Unrouted(p)
        PROVE  selector.aggregate = a /\ Aligned(p, a, f)
    <2>1. selector.aggregate = a /\ Aligned(q, a, f)
      BY <1>1, <1>3, <1>4, <1>9 DEF Unrouted, Heads
    <2>2. selector # NoSelector
      BY <1>4, <1>9, <2>1, NoSelectorNoAggregate DEF Standing, Unrouted
    <2>3. Size(a) \in Nat \ {0} /\ f \in Nat
      BY <2>1, <2>2, SelectorFields DEF Standing
    <2>4. /\ Len(q.queue) <= Size(a)
          /\ \A j \in 1..Len(q.queue) : q.queue[j] = MemberAt(a, f + j - 1)
      BY <1>1, <2>1 DEF Aligned
    <2>5. Last(p.tried) = MemberAt(a, f)
      <3>1. q.queue[1] = MemberAt(a, f + 1 - 1) /\ f + 1 - 1 = f
        BY <1>8, <2>3, <2>4
      <3>2. QED
        BY <1>8, <3>1
    <2>6. \A j \in 1..Len(p.queue) : p.queue[j] = MemberAt(a, f + j)
      <3> SUFFICES ASSUME NEW j \in 1..Len(p.queue) PROVE p.queue[j] = MemberAt(a, f + j)
        OBVIOUS
      <3>1. j + 1 \in 1..Len(q.queue) /\ f + (j + 1) - 1 = f + j
        BY <1>8, <2>3
      <3>2. q.queue[j + 1] = MemberAt(a, f + (j + 1) - 1)
        BY <2>4, <3>1
      <3>3. QED
        BY <1>8, <3>1, <3>2
    <2>7. QED
      BY <1>4, <1>8, <2>1, <2>3, <2>4, <2>5, <2>6 DEF Aligned
  <1>10. QED
    BY <1>1, <1>4, <1>6, <1>9 DEF Heads

(* Recording the failure takes the index to the next candidate.            *)
LEMMA RecordSettles ==
    ASSUME Standing, NEW r \in Requests, Record(r), req'[r].pc # "idle",
           Heads(req[r], selector)
    PROVE  Heads(req'[r], selector')
  <1> DEFINE q == req[r]
             a == q.settings.aggregate
             f == selector.failover
             p == [q EXCEPT !.pc = "try"]
  <1>1. q.pc = "record" /\ RequestStands(q) /\ q.kind # "probe" /\ q \in RequestStates
    BY DEF Record, Standing, RequestStands
  <1>2. ~q.ok /\ q.queue # <<>>
    <2>1. q.ok \/ q.queue = <<>> => End(r, "served") \/ End(r, "failed")
      BY DEF Record
    <2>2. End(r, "served") \/ End(r, "failed") => req'[r].pc = "idle"
      BY EndStands DEF Standing
    <2>3. QED
      BY <2>1, <2>2
  <1>3. Put(r, p)
    BY <1>2 DEF Record
  <1>4. /\ p.pc = "try" /\ p.queue = q.queue /\ p.tried = q.tried
        /\ p.settings = q.settings /\ p.kind = q.kind /\ p.model = q.model
    BY <1>1, <1>2, RetriedStands
  <1> HIDE DEF p
  <1>5. req'[r] = p
    BY <1>3 DEF Put, Standing
  <1>6. ASSUME Unrouted(p)
        PROVE  selector'.aggregate = a /\ Aligned(p, a, selector'.failover)
    <2>1. selector.aggregate = a /\ Aligned(q, a, f) /\ a # NoAggregate /\ a.strategy = "failover"
      BY <1>1, <1>4, <1>6 DEF Unrouted, Heads
    <2>2. selector # NoSelector
      BY <2>1, NoSelectorNoAggregate DEF Standing
    <2>3. Proper(a) /\ Size(a) \in Nat \ {0} /\ f \in 0..(Size(a) - 1)
      BY <2>1, <2>2, SelectorFields DEF Standing
    <2>4. selector' = Recorded(selector, q.ok)
      BY <2>1, <2>2 DEF Record
    <2>5. selector'.aggregate = a /\ selector'.failover = (f + 1) % Size(a)
      BY <1>1, <1>2, <2>1, <2>2, <2>4, RecordedStands DEF Standing, RequestStates
    <2>6. /\ Len(q.queue) <= Size(a) - 1 /\ Len(q.queue) \in Nat
          /\ \A j \in 1..Len(q.queue) : q.queue[j] = MemberAt(a, f + j)
      BY <1>1, <2>1 DEF Aligned, RequestStates
    <2>7. ASSUME NEW j \in 1..Len(q.queue)
          PROVE  q.queue[j] = MemberAt(a, ((f + 1) % Size(a)) + j - 1)
      <3>1. j \in 1..(Size(a) - 1)
        BY <2>3, <2>6
      <3>2. QED
        BY <2>3, <2>6, <3>1, MoveRound
    <2>8. QED
      BY <1>4, <2>3, <2>5, <2>6, <2>7 DEF Aligned
  <1>7. QED
    BY <1>4, <1>5, <1>6 DEF Heads

(* Every step keeps index and candidates aligned, for a request alone.     *)
LEMMA SettledSteps ==
    ASSUME Standing, Settled, [RotationNext]_rotationVars
    PROVE  Settled'
  <1>1. ASSUME NEW r \in Requests, solo, Proceed(r), solo' = solo,
               req'[r].pc # "idle" => Heads(req'[r], selector')
        PROVE  Settled'
    <2>1. req[r].pc # "idle" /\ \A p \in Requests : p # r => req'[p] = req[p]
      BY <1>1, OneRequestMoves
         DEF Standing, Proceed, SelectRegular, SelectMember, PeekMember, GiveUp, Send, Record
    <2>2. \A p \in Requests : p # r => req'[p].pc = "idle"
      BY <1>1, <2>1 DEF Settled
    <2>3. QED
      BY <1>1, <2>2 DEF Settled
  <1>2. ASSUME NEW r \in Requests, Arrive(r) PROVE Settled'
    <2>1. /\ solo' = (InFlight = {}) /\ req[r].pc = "idle"
          /\ \A p \in Requests : p # r => req'[p] = req[p]
      BY <1>2, OneRequestMoves DEF Arrive, Standing
    <2>2. \/ req'[r].pc = "idle" \/ req'[r].pc = "select"
      BY <1>2, <2>1, SettingsKept
    <2>3. Heads(req'[r], selector')
      BY <2>2 DEF Heads
    <2>4. ASSUME solo' PROVE \A p \in Requests : p # r => req'[p].pc = "idle"
      BY <2>1, <2>4 DEF InFlight
    <2>5. QED
      BY <2>3, <2>4 DEF Settled
  <1>3. ASSUME NEW r \in Requests, Proceed(r) PROVE Settled'
    <2>1. solo' = solo
      BY <1>3 DEF Proceed, SelectRegular, SelectMember, PeekMember, GiveUp, Send, Record
    <2>2. CASE ~solo
      BY <2>1, <2>2 DEF Settled
    <2>3. CASE solo
      <3>0. req[r].pc # "idle" /\ Heads(req[r], selector)
        BY <1>3, <2>3
           DEF Settled, Proceed, SelectRegular, SelectMember, PeekMember, GiveUp, Send, Record
      <3>1. CASE SelectRegular(r)
        <4>1. req'[r].pc = "idle" \/ req'[r].settings.aggregate = NoAggregate
          BY <1>3, <3>0, <3>1, SettingsKept DEF SelectRegular
        <4>2. req'[r].pc # "idle" => Heads(req'[r], selector')
          BY <4>1 DEF Heads, Unrouted
        <4>3. QED
          BY <1>1, <1>3, <2>1, <2>3, <4>2
      <3>2. CASE SelectMember(r)
        BY <1>1, <1>3, <2>1, <2>3, <3>2, SelectMemberSettles
      <3>3. CASE PeekMember(r)
        <4>1. CASE \E result \in {"none", "served", "failed", "refused"} : End(r, result)
          <5>1. req'[r].pc = "idle"
            BY <4>1, EndStands DEF Standing
          <5>2. QED
            BY <1>1, <1>3, <2>1, <2>3, <5>1
        <4>2. CASE \E queue : Put(r, [req[r] EXCEPT !.pc = "try", !.queue = queue])
          <5>1. req'[r].kind = "probe"
            BY <3>3, <4>2 DEF Put, Standing, RequestStates, PeekMember
          <5>2. Heads(req'[r], selector')
            BY <5>1 DEF Heads, Unrouted
          <5>3. QED
            BY <1>1, <1>3, <2>1, <2>3, <5>2
        <4>3. QED
          BY <3>3, <4>1, <4>2 DEF PeekMember
      <3>4. CASE GiveUp(r)
        <4>1. req'[r].pc = "idle"
          BY <3>4, EndStands DEF GiveUp, Standing
        <4>2. QED
          BY <1>1, <1>3, <2>1, <2>3, <4>1
      <3>5. CASE Send(r)
        BY <1>1, <1>3, <2>1, <2>3, <3>0, <3>5, SendSettles
      <3>6. CASE Record(r)
        BY <1>1, <1>3, <2>1, <2>3, <3>0, <3>6, RecordSettles
      <3>7. QED
        BY <1>3, <3>1, <3>2, <3>3, <3>4, <3>5, <3>6 DEF Proceed
    <2>4. QED
      BY <2>2, <2>3
  <1>4. CASE SaveSettings
    BY <1>4 DEF SaveSettings, Settled
  <1>5. CASE UNCHANGED rotationVars
    BY <1>5 DEF rotationVars, Settled
  <1>6. QED
    BY <1>2, <1>3, <1>4, <1>5 DEF RotationNext

(* Failover settles on the member that served: for a request that had the  *)
(* selector to itself and was not routed, in an aggregate whose members    *)
(* are all usable, the index the selector keeps is that member's.          *)
THEOREM FailoverSettles == RotationSpec => FailoverFollowsServer
  <1>1. RotationInit => Settled
    BY DEF RotationInit, Settled
  <1>2. Standing /\ Settled /\ [RotationNext]_rotationVars => Settled'
    BY SettledSteps
  <1>3. ASSUME Standing, Settled, [RotationNext]_rotationVars, NEW r \in Requests,
               req[r].pc = "record", req[r].ok, solo,
               req[r].settings.aggregate # NoAggregate,
               req[r].settings.aggregate.strategy = "failover",
               Members(req[r].settings.aggregate) \subseteq req[r].settings.usable,
               Routed(req[r].settings, req[r].model) = NoRelay
        PROVE  MemberAt(req[r].settings.aggregate, selector'.failover) = Last(req[r].tried)
    <2> DEFINE q == req[r]
               a == q.settings.aggregate
    <2>1. q.kind # "probe" /\ q.ok \in BOOLEAN
      BY <1>3 DEF Standing, RequestStands, RequestStates
    <2>2. Heads(q, selector) /\ \A p \in Requests : req[p].pc # "idle" => p = r
      BY <1>3 DEF Settled
    <2>3. selector.aggregate = a /\ Last(q.tried) = MemberAt(a, selector.failover)
      BY <1>3, <2>1, <2>2 DEF Heads, Unrouted, Aligned
    <2>4. selector # NoSelector
      BY <1>3, <2>3, NoSelectorNoAggregate DEF Standing
    <2>5. selector' = selector
      <3>1. CASE UNCHANGED rotationVars \/ SaveSettings \/ \E p \in Requests : Arrive(p)
        BY <3>1 DEF rotationVars, SaveSettings, Arrive
      <3>2. CASE \E p \in Requests : Proceed(p)
        <4>1. PICK p \in Requests : Proceed(p)
          BY <3>2
        <4>2. p = r
          BY <2>2, <4>1
             DEF Proceed, SelectRegular, SelectMember, PeekMember, GiveUp, Send, Record
        <4>3. Record(r)
          BY <1>3, <4>1, <4>2
             DEF Proceed, SelectRegular, SelectMember, PeekMember, GiveUp, Send
        <4>4. selector' = Recorded(selector, q.ok)
          BY <1>3, <2>4, <4>3 DEF Record
        <4>5. QED
          BY <1>3, <2>1, <2>4, <4>4, RecordedStands DEF Standing
      <3>3. QED
        BY <1>3, <3>1, <3>2 DEF RotationNext
    <2>6. QED
      BY <2>3, <2>5
  <1>4. Standing /\ Settled /\ [RotationNext]_rotationVars =>
        \A r \in Requests :
            LET q == req[r]  s == q.settings IN
            /\ q.pc = "record" /\ q.ok /\ solo
            /\ s.aggregate # NoAggregate /\ s.aggregate.strategy = "failover"
            /\ Members(s.aggregate) \subseteq s.usable
            /\ Routed(s, q.model) = NoRelay
            => MemberAt(s.aggregate, selector'.failover) = Last(q.tried)
    BY <1>3
  <1>5. QED
    BY <1>1, <1>2, <1>4, StandingHolds, PTL DEF RotationSpec, FailoverFollowsServer
===============================================================================
