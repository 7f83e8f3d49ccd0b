----------------------------- MODULE UPNPClient -----------------------------
(***************************************************************************)
(* class eular::UPNPClient (upnp/upnp.cpp) and the router it talks to.     *)
(*                                                                         *)
(* The client keeps one port mapping on the router: the port, the protocol *)
(* and the host never change while the program runs, so the router is a    *)
(* lease that runs out.  Every network call is a step of its own.  The     *)
(* router and the calls of miniupnpc are not code of the project: they are *)
(* modelled from the way upnp.cpp uses them.                               *)
(***************************************************************************)
EXTENDS Naturals

CONSTANTS
  Lease,      \* how many ticks a mapping lasts
  MaxFaults   \* bound on failing network calls and router failures

ASSUME LeaseAssumption == Lease \in Nat \ {0} /\ MaxFaults \in Nat

VARIABLES
  dev,      \* m_spDevice: null, allocated and empty, or filled with an IGD
  call,     \* the public function that runs
  pc,       \* where it is
  result,   \* what it returned
  reach,    \* a router answers
  left,     \* ticks left of the mapping on the router, 0 when there is none
  flight,   \* a request for a mapping is on its way to the router
  faults    \* history: failures so far (bounded by MaxFaults)

clientVars == <<dev, call, pc, result>>
routerVars == <<reach, left, flight, faults>>

Operations == {"hasValidIGD", "addUPNP", "delUPNP"}
Soap       == {"external", "add", "sent", "check", "delete", "confirm"}
ClientPcs  == {"idle", "reset", "discover", "validate", "done"} \cup Soap

ClientInit ==
  /\ dev = "null" /\ call = "hasValidIGD" /\ pc = "idle" /\ result = FALSE
  /\ reach \in BOOLEAN /\ left = 0 /\ flight = FALSE /\ faults = 0

(* Faulty versions of definitions below: each is a mistake that one of the *)
(* properties has to notice.                                               *)
NotFoundIgnored ==
  /\ pc' = IF call = "addUPNP" THEN "external" ELSE "done"
  /\ result' = FALSE
DeleteUnsent ==
  /\ pc = "delete"
  /\ pc' = "confirm"
  /\ UNCHANGED <<dev, call, result, routerVars>>

-----------------------------------------------------------------------------
(* The router.                                                             *)

RouterUp ==
  /\ ~reach
  /\ reach' = TRUE
  /\ UNCHANGED <<left, flight, faults>>

(* A router that goes away may forget its mappings.                        *)
RouterDown ==
  /\ reach
  /\ faults < MaxFaults
  /\ faults' = faults + 1
  /\ reach' = FALSE
  /\ left' \in {0, left}
  /\ flight' = FALSE

RouterAdds ==
  /\ reach
  /\ flight
  /\ left' = Lease
  /\ flight' = FALSE
  /\ UNCHANGED <<reach, faults>>

Router == (RouterUp \/ RouterDown \/ RouterAdds) /\ UNCHANGED clientVars

LeaseRuns == left' = IF left = 0 THEN 0 ELSE left - 1

-----------------------------------------------------------------------------
(* The steps of a running call.  A network call succeeds when the router   *)
(* is there, or fails, which counts as a fault unless there is no router.  *)

Fails == \/ ~reach /\ UNCHANGED routerVars
         \/ /\ faults < MaxFaults
            /\ faults' = faults + 1
            /\ UNCHANGED <<reach, left, flight>>
Works == reach /\ UNCHANGED routerVars

Goes(stage)  == pc' = stage /\ UNCHANGED result
Answers(yes) == pc' = "done" /\ result' = yes

Start(operation) ==
  /\ call' = operation
  /\ pc' = "reset"

(* Where a call goes on once hasValidIGD has found a router.               *)
FirstSoap ==
  CASE call = "addUPNP" -> "external"
    [] call = "delUPNP" -> "delete"
    [] OTHER            -> "done"

(* hasValidIGD, which addUPNP and delUPNP call before anything else.       *)
NotFound == Answers(FALSE)

Reset ==
  /\ pc = "reset"
  /\ dev' = "empty"
  /\ Goes("discover")
  /\ UNCHANGED <<call, routerVars>>

Discover ==
  /\ pc = "discover"
  /\ \/ Works /\ Goes("validate")
     \/ Fails /\ NotFound
  /\ UNCHANGED <<dev, call>>

Validate ==
  /\ pc = "validate"
  /\ \/ /\ Works
        /\ dev' = "igd"
        /\ pc' = FirstSoap
        /\ result' = TRUE
     \/ /\ Fails
        /\ NotFound
        /\ UNCHANGED dev
  /\ UNCHANGED call

(* addUPNP: the external address is asked for, the mapping is requested,   *)
(* and then read back; a mapping that cannot be read back stays.           *)
External ==
  /\ pc = "external"
  /\ \/ Works /\ Goes("add")
     \/ Fails /\ Answers(FALSE)
  /\ UNCHANGED <<dev, call>>

AddSends ==
  /\ pc = "add"
  /\ flight' = TRUE
  /\ Goes("sent")
  /\ UNCHANGED <<dev, call, reach, left, faults>>

AddReturns ==
  /\ pc = "sent"
  /\ \/ ~flight /\ Works /\ Goes("check")
     \/ Fails /\ Answers(FALSE)
  /\ UNCHANGED <<dev, call>>

Check ==
  /\ pc = "check"
  /\ \/ left > 0 /\ Works /\ Answers(TRUE)
     \/ left = 0 /\ Works /\ Answers(FALSE)
     \/ Fails /\ Answers(FALSE)
  /\ UNCHANGED <<dev, call>>

(* delUPNP: a failure is logged, and nothing else comes of it.             *)
Delete ==
  /\ pc = "delete"
  /\ \/ reach /\ left' = 0 /\ UNCHANGED <<reach, flight, faults>>
     \/ Fails
  /\ Goes("confirm")
  /\ UNCHANGED <<dev, call>>

Confirm ==
  /\ pc = "confirm"
  /\ Works \/ Fails
  /\ Goes("done")
  /\ UNCHANGED <<dev, call>>

ClientStep ==
  \/ Reset \/ Discover \/ Validate
  \/ External \/ AddSends \/ AddReturns \/ Check
  \/ Delete \/ Confirm

=============================================================================
