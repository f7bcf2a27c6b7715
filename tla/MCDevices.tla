----------------------------- MODULE MCDevices ------------------------------
(***************************************************************************)
(* What the devices of one user, or of two, do together: labels on two     *)
(* devices and what that implements when the user works on the first only, *)
(* shared apps, calls, location streaming and the relays of an account.    *)
(* Each behaviour runs one of them, the others rest in a first state.      *)
(***************************************************************************)
EXTENDS LabelSync, Webxdc, Calls, Locations, Transports

VARIABLE part    \* the one that runs

\* How often a behaviour does what.
MCXdcBudgets == {[updates |-> 2, acts |-> 1, deaths |-> 0], [updates |-> 1, acts |-> 1, deaths |-> 1],
                 [updates |-> 0, acts |-> 3, deaths |-> 0]}
MCUserOf == [d \in {"a", "b", "c"} |-> IF d = "a" THEN "caller" ELSE "callee"]
MCCallBudgets == {[acts |-> 2, deaths |-> 0, safe |-> TRUE], [acts |-> 1, deaths |-> 1, safe |-> FALSE]}
LocBudget(c, s, m, p, d, o, f, x) ==
    [calls |-> c, sets |-> s, mails |-> m, posts |-> p, deletes |-> d, olds |-> o, fails |-> f, deaths |-> x]
MCLocBudgets ==
    {LocBudget(1, 2, 1, 0, 0, 0, 0, 0), LocBudget(2, 2, 0, 0, 0, 0, 0, 0), LocBudget(1, 1, 0, 0, 0, 0, 1, 1),
     LocBudget(1, 1, 0, 0, 0, 1, 0, 0), LocBudget(0, 0, 0, 2, 3, 0, 0, 1)}
MCRelayBudgets ==
    {[acts |-> 3, ticks |-> 1, deaths |-> 0, calls |-> 1], [acts |-> 2, ticks |-> 1, deaths |-> 1, calls |-> 2]}

devicesVars == <<part, vars, xdcVars, callVars, locVars, relayVars>>

Rests(p, v, S) == part = p \/ v = CHOOSE x \in S : TRUE

DevicesInit ==
    /\ part \in {"labels", "apps", "calls", "locations", "relays"}
    /\ Init
    /\ XdcInit /\ Rests("apps", spare, XdcBudgets) /\ Rests("apps", large, {FALSE})
    /\ CallsInit /\ Rests("calls", callLeft, CallBudgets)
    /\ LocInit /\ Rests("locations", spent, LocBudgets)
    /\ RelaysInit /\ Rests("relays", left, RelayBudgets)

LabelsRun == part = "labels" /\ Next /\ UNCHANGED <<part, xdcVars, callVars, locVars, relayVars>>
AppsRun == part = "apps" /\ XdcNext /\ UNCHANGED <<part, vars, callVars, locVars, relayVars>>
CallsRun == part = "calls" /\ CallsNext /\ UNCHANGED <<part, vars, xdcVars, locVars, relayVars>>
LocationsRun == part = "locations" /\ LocNext /\ UNCHANGED <<part, vars, xdcVars, callVars, relayVars>>
RelaysRun == part = "relays" /\ RelaysNext /\ UNCHANGED <<part, vars, xdcVars, callVars, locVars>>

DevicesNext == LabelsRun \/ AppsRun \/ CallsRun \/ LocationsRun \/ RelaysRun

DevicesSpec == DevicesInit /\ [][DevicesNext]_devicesVars

\* The devices end up agreeing about apps, calls and relays.
DevicesAgree == XdcSafe /\ CallsSafe /\ RelaysSafe

\* No device takes back what was done: a call that was accepted does not time out, and a
\* relay that was hidden is kept.
NothingTakenBack == AcceptedNotTimedOut /\ HiddenKept
=============================================================================
