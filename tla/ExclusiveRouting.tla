-------------------------- MODULE ExclusiveRouting --------------------------
(***************************************************************************)
(* What the control plane promises to the data path.  Every slot has an    *)
(* owner, the one server that may answer requests for its keys, and while  *)
(* it is moving a source, from which its keys are pulled.  Proxies learn   *)
(* both one by one, at different times, and may forget them; yet a proxy   *)
(* that routes a slot routes it to its owner and pulls from its source,    *)
(* because these change only while nobody routes the slot.  Proxies may    *)
(* learn late that a slot has moved; it settles when nobody pulls.         *)
(***************************************************************************)
CONSTANTS Slots, Servers, Proxies, None

VARIABLES
    owner,      \* the server of every slot
    source,     \* where a moving slot comes from
    phase,      \* "settled", "moving", or "moved" and not yet settled
    routes      \* what every proxy knows

controlVars == <<owner, source, phase>>
routingVars == <<controlVars, routes>>

Address == Servers \cup {None}
Route   == [to: Address, from: Address]
NoRoute == [to |-> None, from |-> None]
Phases  == {"settled", "moving", "moved"}

Owned   == [Slots -> Address]
Phased  == [Slots -> Phases]
Routed  == [Proxies -> [Slots -> Route]]

(* A route that agrees with the owner and the source of its slot, or none. *)
Fits(r, s) ==
    \/ r = NoRoute
    \/ /\ r.to = owner[s]
       /\ phase[s] = "settled" => r.from = None
       /\ phase[s] = "moving"  => r.from = source[s]

Unrouted(s) == \A p \in Proxies : routes[p][s] = NoRoute

RoutingInit ==
    /\ owner \in Owned
    /\ source = [s \in Slots |-> None]
    /\ phase = [s \in Slots |-> "settled"]
    /\ routes \in Routed
    /\ \A p \in Proxies, s \in Slots : Fits(routes[p][s], s)

(* A proxy learns the routes of some slots and forgets others.             *)
Reroute(p) ==
    \E r \in [Slots -> Route] :
        /\ \A s \in Slots : Fits(r[s], s)
        /\ routes' = [routes EXCEPT ![p] = r]
        /\ UNCHANGED controlVars

(* A slot that nobody routes begins to move to the server a.               *)
Begin(s, a) ==
    /\ phase[s] = "settled"
    /\ Unrouted(s)
    /\ phase'  = [phase EXCEPT ![s] = "moving"]
    /\ source' = [source EXCEPT ![s] = owner[s]]
    /\ owner'  = [owner EXCEPT ![s] = a]
    /\ UNCHANGED routes

(* Its keys have moved.                                                    *)
Finish(s) ==
    /\ phase[s] = "moving"
    /\ phase'  = [phase EXCEPT ![s] = "moved"]
    /\ source' = [source EXCEPT ![s] = None]
    /\ UNCHANGED <<owner, routes>>

(* Nobody pulls its keys any more.                                         *)
Settle(s) ==
    /\ phase[s] = "moved"
    /\ \A p \in Proxies : routes[p][s].from = None
    /\ phase' = [phase EXCEPT ![s] = "settled"]
    /\ UNCHANGED <<owner, source, routes>>

(* Other servers take over slots that nobody routes (a promotion).         *)
Switch ==
    /\ owner' \in Owned
    /\ source' \in Owned
    /\ \A s \in Slots :
          /\ owner'[s] # owner[s] \/ source'[s] # source[s] => Unrouted(s)
          /\ phase[s] # "moving" => source'[s] = source[s]
    /\ UNCHANGED <<phase, routes>>

RoutingNext ==
    \/ \E p \in Proxies : Reroute(p)
    \/ \E s \in Slots : Finish(s) \/ Settle(s) \/ \E a \in Address : Begin(s, a)
    \/ Switch

RoutingSpec == RoutingInit /\ [][RoutingNext]_routingVars
=============================================================================
