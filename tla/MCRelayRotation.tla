--------------------------- MODULE MCRelayRotation ---------------------------
(***************************************************************************)
(* Small instances of RelayRotation: settings a user switches between.     *)
(***************************************************************************)
EXTENDS RelayRotation, TLC

CONSTANTS ra, rb, rc, m1, r1, r2, c1, c2

Member(r, w) == [relay |-> r, weight |-> w]
NoRoutes == [m \in {} |-> <<>>]

Aggregate(strategy, routes) ==
    [strategy |-> strategy, routes |-> routes,
     members |-> IF strategy = "weightedRoundRobin"
                 THEN <<Member(ra, 0), Member(rb, 2)>>
                 ELSE <<Member(ra, 1), Member(rb, 1), Member(rc, 1)>>]

Settings(aggregate, usable) ==
    [aggregate |-> aggregate, active |-> ra, usable |-> usable,
     modelRoutes |-> m1 :> rc]

Regular == Settings(NoAggregate, {ra, rb, rc})
Misrouted == [Regular EXCEPT !.modelRoutes = m1 :> rb]
ToC == m1 :> <<rb, rc>>

(* Every strategy, a rule whose first target is unusable, a member without *)
(* a key, and the return to a regular relay, with a model route that is    *)
(* good and one that is refused.                                           *)
AllConfigs ==
    { Regular, Misrouted,
      Settings(Aggregate("failover", ToC), {ra, rb, rc}),
      Settings(Aggregate("failover", ToC), {ra, rc}),
      Settings(Aggregate("conversationRoundRobin", NoRoutes), {ra, rb, rc}),
      Settings(Aggregate("requestRoundRobin", ToC), {rb, rc}),
      Settings(Aggregate("weightedRoundRobin", NoRoutes), {ra, rb, rc}) }

Sticky == { Regular, Settings(Aggregate("conversationRoundRobin", NoRoutes), {ra, rb, rc}) }
RequestSymmetry == Permutations(Requests)
OneKeyMissing == { Settings(Aggregate("failover", NoRoutes), {ra, rc}) }
=============================================================================
