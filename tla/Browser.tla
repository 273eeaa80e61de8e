------------------------------ MODULE Browser ------------------------------
(***************************************************************************)
(* What the models of one browser tab have in common: slots for what is in *)
(* flight, the server's data as version numbers, and the state of a request *)
(* whose answer is shown on the screen.  BrowserLists and SearchPages give *)
(* the variables their types and their steps.                              *)
(***************************************************************************)
EXTENDS Integers, FiniteSets

CONSTANTS Slots,      \* functions, requests and handlers in flight
          MaxWrites,  \* bound: changes of the data, started
          MaxFaults   \* bound: failed requests, and signing out

ASSUME BrowserAssumption ==
    IsFiniteSet(Slots) /\ MaxWrites \in Nat /\ MaxFaults \in Nat

None == "none"

VARIABLES
    shown,     \* what is on the screen
    latest,    \* latestItemsRequestRef: the slot of the latest loadItems request
    run,       \* what each slot does
    version,   \* server: version of the data
    writes,    \* server: changes started
    faults,    \* failures so far
    trust      \* history: what is known of what is shown

serverVars == <<version, writes>>

Fail == faults < MaxFaults /\ faults' = faults + 1

=============================================================================
