------------------------------ MODULE PsmStore ------------------------------
(***************************************************************************)
(* What the PSM promises its callers: a map from names to values that      *)
(* survives power failures.  A call takes effect at one instant between    *)
(* its start and its return, or, when the power fails or the call returns  *)
(* an error, possibly not at all.  Nothing else changes the map.           *)
(***************************************************************************)
CONSTANTS Names, Values, NoValue

VARIABLES
    kv,     \* kv[n]: the value a reader or a restart would find
    call,   \* the call in progress: [kind, nm, vl, was]
    ret     \* outcome of the last call

vars == <<call, ret, kv>>

NoCall == [kind |-> "none", nm |-> NoValue, vl |-> NoValue, was |-> NoValue]

Calls ==
    [kind : {"set"}, nm : Names, vl : Values, was : Values \cup {NoValue}] \cup
    [kind : {"del"}, nm : Names, vl : {NoValue}, was : Values \cup {NoValue}] \cup
    [kind : {"fmt"}, nm : {NoValue}, vl : {NoValue}, was : {NoValue}]

Init ==
    /\ kv = [n \in Names |-> NoValue]
    /\ call = NoCall /\ ret = "none"

Begin ==
    /\ call = NoCall
    /\ call' \in Calls
    /\ call'.kind # "fmt" => call'.was = kv[call'.nm]
    /\ ret' = "none"
    /\ UNCHANGED kv

(* kv after the effect of call c *)
Applied(c) ==
    IF c.kind = "fmt" THEN [n \in Names |-> NoValue]
    ELSE [kv EXCEPT ![c.nm] = c.vl]

Effect ==
    /\ call # NoCall
    /\ UNCHANGED <<call, ret>>
    /\ kv' = Applied(call)

(* Success is reported only once the map holds the effect *)
ReturnOk ==
    /\ call # NoCall
    /\ call' = NoCall /\ ret' = "ok"
    /\ kv' = Applied(call)

(* An error leaves the name with the value it had before the call *)
ReturnError ==
    /\ call # NoCall
    /\ call' = NoCall /\ ret' = "err"
    /\ call.kind # "fmt" => kv[call.nm] = call.was
    /\ UNCHANGED kv

PowerFailure ==
    /\ call' = NoCall /\ ret' = "none"
    /\ UNCHANGED kv

Next == Begin \/ Effect \/ ReturnOk \/ ReturnError \/ PowerFailure

Spec == Init /\ [][Next]_vars
=============================================================================
