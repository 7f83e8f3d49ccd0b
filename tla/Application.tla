----------------------------- MODULE Application -----------------------------
(***************************************************************************)
(* class eular::Application (httpd/application.cpp), as far as it keeps    *)
(* the port mapping of the HTTP server: run registers the mapping or       *)
(* starts to probe for a router, timers renew it, and the handler of       *)
(* SIGINT takes it down again before the process exits.                    *)
(*                                                                         *)
(* The timers belong to m_idleLoop, which nothing in the program runs:     *)
(* LoopRuns is FALSE for the program as it is.  With TRUE the loop is run  *)
(* by the main thread once the server is up, and the timers do what their  *)
(* callbacks say.                                                          *)
(***************************************************************************)
EXTENDS UPNPClient

CONSTANTS
  LoopRuns,   \* something runs m_idleLoop
  Probe,      \* upnp.upnp_probe in ticks
  Wrap        \* the interval of a timer is computed modulo Wrap

ASSUME TimersAssumption ==
  LoopRuns \in BOOLEAN /\ Probe \in Nat \ {0} /\ Wrap \in Nat \ {0}

VARIABLES
  app,      \* starting, serving, stopping or exited
  task,     \* the piece of Application the main thread is in
  due,      \* the timers of m_idleLoop: timer -> ticks until it fires
  unclean   \* history: the process ended in the middle of something

appVars == <<app, task, due, unclean>>
vars    == <<clientVars, routerVars, appVars>>

(* setInterval is called in three places: the lease timer in init, and a   *)
(* probe timer in run and one in the callback of the lease timer.          *)
Timers == {"lease", "probe", "leaseProbe"}
Tasks  == {"none", "register", "stop"} \cup Timers

(* leaseDuration * 1000, in 32 bits.                                       *)
LeaseInterval == Lease % Wrap
Period(timer) == IF timer = "lease" THEN LeaseInterval ELSE Probe

SetInterval(timer) ==
  [t \in DOMAIN due \cup {timer} |-> IF t = timer THEN Period(t) ELSE due[t]]
Killed(timer) == [t \in DOMAIN due \ {timer} |-> due[t]]

(* Faulty versions of definitions below: each is a mistake that one of the *)
(* properties has to notice.                                               *)
Serves == "serving"

(* init has set the lease timer.                                           *)
Init ==
  /\ ClientInit
  /\ app = "starting"
  /\ task = "none"
  /\ due = [t \in {"lease"} |-> LeaseInterval]
  /\ unclean = FALSE

-----------------------------------------------------------------------------
(* run and the timers ask for a router first.                              *)

run ==
  /\ app = "starting"
  /\ task = "none"
  /\ task' = "register"
  /\ Start("hasValidIGD")
  /\ UNCHANGED <<dev, result, routerVars, app, due, unclean>>

(* The timer is an interval: it is set again as it fires.                  *)
Fire(timer) ==
  /\ LoopRuns
  /\ app = "serving"
  /\ task = "none"
  /\ timer \in DOMAIN due
  /\ due[timer] = 0
  /\ due' = SetInterval(timer)
  /\ task' = timer
  /\ Start("hasValidIGD")
  /\ UNCHANGED <<dev, result, routerVars, app, unclean>>

Found ==
  /\ pc = "done"
  /\ call = "hasValidIGD"
  /\ result
  /\ Start(IF task = "stop" THEN "delUPNP" ELSE "addUPNP")
  /\ UNCHANGED <<dev, result, routerVars, appVars>>

(* After run the server serves; after stop the handler of SIGINT exits.    *)
AfterStop == "exited"
Finish ==
  /\ app' = IF task = "stop" THEN AfterStop ELSE "serving"
  /\ task' = "none"
  /\ pc' = "idle"
  /\ UNCHANGED <<dev, call, result, routerVars, unclean>>

(* Without a router run starts to probe, and the lease timer makes way for *)
(* a probe timer.                                                          *)
NoRouter ==
  /\ pc = "done"
  /\ call = "hasValidIGD"
  /\ ~result
  /\ due' = CASE task = "register" -> SetInterval("probe")
              [] task = "lease" ->
                   [t \in DOMAIN SetInterval("leaseProbe") \ {"lease"} |->
                      SetInterval("leaseProbe")[t]]
              [] OTHER -> due
  /\ Finish

(* The answer of addUPNP is not looked at: a probe timer that found a      *)
(* router is killed, whether there is a mapping now or not.                *)
Mapped ==
  /\ pc = "done"
  /\ call = "addUPNP"
  /\ due' = IF task \in {"probe", "leaseProbe"} THEN Killed(task) ELSE due
  /\ Finish

Unmapped ==
  /\ pc = "done"
  /\ call = "delUPNP"
  /\ UNCHANGED due
  /\ Finish

-----------------------------------------------------------------------------
(* Signals arrive at any time.  What they interrupt never goes on: both    *)
(* handlers end in exit.                                                   *)

Interrupt ==
  /\ app \in {"starting", "serving"}
  /\ app' = "stopping"
  /\ task' = "stop"
  /\ Start("hasValidIGD")
  /\ unclean' = flight
  /\ UNCHANGED <<dev, result, routerVars, due>>

Abort ==
  /\ app # "exited"
  /\ app' = "exited"
  /\ task' = "none"
  /\ pc' = "idle"
  /\ unclean' = TRUE
  /\ UNCHANGED <<dev, call, result, routerVars, due>>

Tick ==
  /\ due' = [t \in DOMAIN due |-> IF due[t] = 0 THEN 0 ELSE due[t] - 1]
  /\ LeaseRuns
  /\ UNCHANGED <<clientVars, reach, flight, faults, app, task, unclean>>

MainStep ==
  \/ run \/ Found \/ NoRouter \/ Mapped \/ Unmapped
  \/ ClientStep /\ UNCHANGED appVars

Next ==
  \/ MainStep
  \/ \E timer \in Timers : Fire(timer)
  \/ Interrupt \/ Abort
  \/ Tick
  \/ Router /\ UNCHANGED appVars

Spec == Init /\ [][Next]_vars

(* The main thread runs, every network call ends (miniupnpc has time-outs),*)
(* time passes, and a router that is there answers.  Nothing is assumed of *)
(* the timers.                                                             *)
FairSpec ==
  /\ Spec
  /\ WF_vars(MainStep)
  /\ WF_vars(Tick)
  /\ WF_vars(RouterAdds /\ UNCHANGED <<clientVars, appVars>>)

(* The same with a loop that fires the timers that are due, if it is run.  *)
LoopSpec == FairSpec /\ WF_vars(\E timer \in Timers : Fire(timer))

-----------------------------------------------------------------------------
AppTypeOK ==
  /\ dev \in {"null", "empty", "igd"} /\ call \in Operations
  /\ pc \in ClientPcs /\ result \in BOOLEAN
  /\ reach \in BOOLEAN /\ left \in 0..Lease /\ flight \in BOOLEAN
  /\ faults \in 0..MaxFaults
  /\ app \in {"starting", "serving", "stopping", "exited"}
  /\ task \in Tasks /\ unclean \in BOOLEAN
  /\ DOMAIN due \subseteq Timers /\ due \in [DOMAIN due -> Nat]

(* A SOAP request is only made with the URLs of a router that this call    *)
(* has found, although a signal may start another call at any time.        *)
DeviceValid == pc \in Soap => dev = "igd"

(* When the program has ended by SIGINT, there is no mapping left on the   *)
(* router and none on its way to it, unless a network call failed or the   *)
(* signal arrived while a request for a mapping was under way.             *)
Empty       == left = 0 /\ ~flight
Excused     == faults > 0 \/ unclean
NothingLeft == app = "exited" => Excused \/ Empty

(* The inductive invariant of NothingLeft.  A call is only at the requests *)
(* that belong to it, stop never asks for a mapping, and without a task    *)
(* there is no call.                                                       *)
CallOK ==
  /\ pc \in {"external", "add", "sent", "check"} => call = "addUPNP"
  /\ pc \in {"delete", "confirm"} => call = "delUPNP"
  /\ task = "stop" => call # "addUPNP"
  /\ task = "none" \/ app = "exited" => pc = "idle"

(* A request that outlives its call is excused.                            *)
FlightOwned == flight => pc = "sent" \/ Excused

(* Without a failure, a router that is not there never was.                *)
NeverThere ==
  ~reach /\ faults = 0 =>
    Empty /\ pc \in {"idle", "reset", "discover", "done"}

(* What stop has done when it returns: it asked a router to delete the     *)
(* mapping, or found none to ask.                                          *)
TakenDown ==
  \/ pc = "confirm"
  \/ pc = "done" /\ call = "delUPNP"
  \/ pc = "done" /\ call = "hasValidIGD" /\ task = "stop" /\ ~result

PortOK ==
  /\ CallOK /\ DeviceValid
  /\ FlightOwned /\ NeverThere
  /\ TakenDown => Excused \/ Empty
  /\ NothingLeft
AppInv == AppTypeOK /\ PortOK

(* A router that comes up to stay after the server has started gets its    *)
(* mapping from the probe timer of run.                                    *)
ProbeRegisters ==
  <>[]reach =>
    ((app = "serving" /\ task = "none" /\ "probe" \in DOMAIN due)
       ~> (left > 0 \/ faults > 0 \/ app # "serving"))

(* A program that got SIGINT ends.                                         *)
StopExits == app = "stopping" ~> app = "exited"

=============================================================================
