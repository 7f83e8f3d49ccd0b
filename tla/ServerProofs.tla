----------------------------- MODULE ServerProofs -----------------------------
(***************************************************************************)
(* Theorems about Application and Server.  Of Application: what holds of   *)
(* the port mapping for every lease, every probe interval and every number *)
(* of failures, whether m_idleLoop runs or not.  Of Server: what holds of  *)
(* the login for every set of codes and every behaviour of the cloud, and  *)
(* that the program with its handlers does with the mapping what           *)
(* Application does.                                                       *)
(***************************************************************************)
EXTENDS Server, TLAPS

(* The interval of a timer is a number, whatever the width it is computed  *)
(* in: the lease timer of init and the probe timers.                       *)
LEMMA PeriodType == \A timer \in Timers : Period(timer) \in Nat
BY LeaseAssumption, TimersAssumption DEF Period, LeaseInterval, Timers

(* setInterval and killTimer keep due a function on timers.                *)
TimersOK == DOMAIN due \subseteq Timers /\ due \in [DOMAIN due -> Nat]
LEMMA TimersType ==
  ASSUME TimersOK, NEW timer \in Timers
  PROVE  /\ DOMAIN SetInterval(timer) \subseteq Timers
         /\ SetInterval(timer) \in [DOMAIN SetInterval(timer) -> Nat]
         /\ DOMAIN Killed(timer) \subseteq Timers
         /\ Killed(timer) \in [DOMAIN Killed(timer) -> Nat]
BY PeriodType DEF TimersOK, SetInterval, Killed

(* Every step keeps due a function on timers: only init, run and the       *)
(* callbacks of the timers change it.                                      *)
LEMMA TimersKeep ==
  ASSUME TimersOK, [Next]_vars
  PROVE  TimersOK'
<1>1. CASE UNCHANGED due
  BY <1>1 DEF TimersOK
<1>2. CASE NoRouter
  <2>1. CASE task = "register"
    BY <1>2, <2>1, TimersType DEF NoRouter, Timers, TimersOK
  <2>2. CASE task = "lease"
    <3>1. "leaseProbe" \in Timers
      BY DEF Timers
    <3>2. due' = [t \in DOMAIN SetInterval("leaseProbe") \ {"lease"} |->
                    SetInterval("leaseProbe")[t]]
      BY <1>2, <2>2 DEF NoRouter
    <3> QED
      BY <3>1, <3>2, TimersType DEF TimersOK
  <2>3. CASE task \notin {"register", "lease"}
    BY <1>2, <2>3 DEF NoRouter, TimersOK
  <2> QED
    BY <2>1, <2>2, <2>3
<1>3. CASE Mapped
  BY <1>3, TimersType DEF Mapped, Timers, TimersOK
<1>4. ASSUME NEW timer \in Timers, Fire(timer)
      PROVE  TimersOK'
  BY <1>4, TimersType DEF Fire, TimersOK
<1>5. CASE Tick
  BY <1>5 DEF Tick, TimersOK
<1> QED
  BY <1>1, <1>2, <1>3, <1>4, <1>5 DEF Next, MainStep, run, Found, Unmapped,
    Interrupt, Abort, appVars, vars

(* The router keeps its types.                                             *)
RouterOK == /\ reach \in BOOLEAN /\ left \in 0..Lease
            /\ flight \in BOOLEAN /\ faults \in 0..MaxFaults
LEMMA RouterTypes ==
  ASSUME RouterOK, RouterUp \/ RouterDown \/ RouterAdds
  PROVE  RouterOK'
<1>1. CASE RouterUp
  BY <1>1 DEF RouterUp, RouterOK
<1>2. CASE RouterDown
  <2>1. left' \in 0..Lease /\ faults' \in 0..MaxFaults
    BY <1>2, LeaseAssumption DEF RouterDown, RouterOK
  <2>2. reach' \in BOOLEAN /\ flight' \in BOOLEAN
    BY <1>2 DEF RouterDown
  <2> QED
    BY <2>1, <2>2 DEF RouterOK
<1>3. CASE RouterAdds
  <2>1. left' \in 0..Lease
    BY <1>3, LeaseAssumption DEF RouterAdds
  <2>2. reach' \in BOOLEAN /\ flight' \in BOOLEAN /\ faults' \in 0..MaxFaults
    BY <1>3 DEF RouterAdds, RouterOK
  <2> QED
    BY <2>1, <2>2 DEF RouterOK
<1> QED
  BY <1>1, <1>2, <1>3

(* The types of everything else, action by action.                         *)
LEMMA TypesKeep ==
  ASSUME AppTypeOK, [Next]_vars
  PROVE  AppTypeOK'
<1>0. TimersOK'
  BY TimersKeep DEF AppTypeOK, TimersOK
<1> USE <1>0 DEF AppTypeOK, TimersOK, routerVars, clientVars, appVars, Tasks,
      Operations, ClientPcs, Soap
<1>1. CASE UNCHANGED vars
  BY <1>1 DEF vars
<1>2. CASE run \/ Found
  BY <1>2 DEF run, Found, Start
<1>3. CASE NoRouter \/ Mapped \/ Unmapped
  BY <1>3 DEF NoRouter, Mapped, Unmapped, Finish, AfterStop
<1>4. CASE ClientStep /\ UNCHANGED appVars
  <2>0. Works \/ Fails =>
          /\ reach' \in BOOLEAN /\ left' \in 0..Lease
          /\ flight' \in BOOLEAN /\ faults' \in 0..MaxFaults
    BY LeaseAssumption DEF Works, Fails
  <2>1. /\ reach' \in BOOLEAN /\ left' \in 0..Lease
        /\ flight' \in BOOLEAN /\ faults' \in 0..MaxFaults
    <3>1. CASE Reset \/ AddSends
      BY <3>1 DEF Reset, AddSends
    <3>2. CASE Discover \/ Validate \/ External \/ AddReturns \/ Check
      BY <3>2, <2>0 DEF Discover, Validate, External, AddReturns, Check
    <3>3. CASE Delete \/ Confirm
      BY <3>3, <2>0, LeaseAssumption DEF Delete, Confirm
    <3> QED
      BY <1>4, <3>1, <3>2, <3>3 DEF ClientStep
  <2>2. /\ dev' \in {"null", "empty", "igd"} /\ call' \in Operations
        /\ pc' \in ClientPcs /\ result' \in BOOLEAN
    BY <1>4 DEF ClientStep, Reset, Discover, Validate, External, AddSends,
      AddReturns, Check, Delete, Confirm, Goes, Answers, NotFound, FirstSoap
  <2> QED
    BY <1>4, <2>1, <2>2
<1>5. ASSUME NEW timer \in Timers, Fire(timer)
      PROVE  AppTypeOK'
  BY <1>5 DEF Fire, Start
<1>6. CASE Interrupt \/ Abort
  BY <1>6 DEF Interrupt, Abort, Start
<1>7. CASE Tick
  BY <1>7, LeaseAssumption DEF Tick, LeaseRuns
<1>8. CASE Router /\ UNCHANGED appVars
  BY <1>8, RouterTypes DEF RouterOK, Router
<1> QED
  BY <1>1, <1>2, <1>3, <1>4, <1>5, <1>6, <1>7, <1>8 DEF Next, MainStep

(* A call that fails leaves the router as it is; it met no router, or the  *)
(* failure was counted.                                                    *)
LEMMA FailsWays ==
  ASSUME AppTypeOK, Fails
  PROVE  /\ UNCHANGED <<reach, left, flight>>
         /\ faults = 0 \/ faults > 0
         /\ \/ ~reach /\ faults' = faults
            \/ faults' # 0 /\ faults' > 0
<1>0. faults = 0 \/ faults > 0
  BY LeaseAssumption DEF AppTypeOK
<1>1. CASE ~reach /\ UNCHANGED routerVars
  BY <1>0, <1>1 DEF routerVars
<1>2. CASE faults' = faults + 1 /\ UNCHANGED <<reach, left, flight>>
  BY <1>0, <1>2, LeaseAssumption DEF AppTypeOK
<1> QED
  BY <1>1, <1>2 DEF Fails

(* Every step of a call of UPNPClient keeps the invariant: hasValidIGD,    *)
(* addUPNP and delUPNP, whatever fails on the way.                         *)
LEMMA ClientKeeps ==
  ASSUME AppTypeOK, PortOK, ClientStep, UNCHANGED appVars
  PROVE  PortOK'
<1> USE DEF PortOK, CallOK, DeviceValid, FlightOwned, NeverThere, TakenDown,
      NothingLeft, Excused, Empty, appVars, routerVars, Soap, Works, Goes,
      Answers
<1>1. CASE Reset
  BY <1>1 DEF Reset
<1>2. CASE Discover
  <2>1. CASE Works /\ Goes("validate")
    BY <1>2, <2>1 DEF Discover, NotFound
  <2>2. CASE Fails /\ NotFound
    BY <1>2, <2>2, FailsWays DEF Discover, NotFound
  <2> QED
    BY <1>2, <2>1, <2>2 DEF Discover
<1>3. CASE Validate
  <2>1. CASE Works /\ dev' = "igd" /\ pc' = FirstSoap /\ result' = TRUE
    BY <1>3, <2>1 DEF Validate, NotFound, FirstSoap
  <2>2. CASE Fails /\ NotFound /\ UNCHANGED dev
    BY <1>3, <2>2, FailsWays DEF Validate, NotFound
  <2> QED
    BY <1>3, <2>1, <2>2 DEF Validate
<1>4. CASE External
  BY <1>4, FailsWays DEF External
<1>5. CASE AddSends
  BY <1>5 DEF AddSends
<1>6. CASE AddReturns
  BY <1>6, FailsWays DEF AddReturns
<1>7. CASE Check
  BY <1>7, FailsWays DEF Check
<1>8. CASE Delete
  BY <1>8, FailsWays DEF Delete
<1>9. CASE Confirm
  BY <1>9, FailsWays DEF Confirm
<1> QED
  BY <1>1, <1>2, <1>3, <1>4, <1>5, <1>6, <1>7, <1>8, <1>9 DEF ClientStep

(* Every step of Application that starts or ends a call keeps it: run, the *)
(* callbacks of the timers, and stop.                                      *)
LEMMA CallsKeep ==
  ASSUME AppTypeOK, PortOK,
         \/ run \/ Found \/ NoRouter \/ Mapped \/ Unmapped
         \/ \E timer \in Timers : Fire(timer)
  PROVE  PortOK'
<1> USE DEF PortOK, CallOK, DeviceValid, FlightOwned, NeverThere, TakenDown,
      NothingLeft, Excused, Empty, appVars, routerVars, Soap, Start, Finish,
      AfterStop
<1>1. CASE run
  BY <1>1 DEF run
<1>2. CASE Found
  BY <1>2 DEF Found
<1>3. CASE NoRouter
  BY <1>3 DEF NoRouter
<1>4. CASE Mapped
  BY <1>4 DEF Mapped
<1>5. CASE Unmapped
  BY <1>5 DEF Unmapped
<1>6. ASSUME NEW timer \in Timers, Fire(timer)
      PROVE  PortOK'
  BY <1>6 DEF Fire, Timers
<1> QED
  BY <1>1, <1>2, <1>3, <1>4, <1>5, <1>6

(* Everything that comes from outside keeps it: signals, the clock and the *)
(* router.                                                                 *)
LEMMA OutsideKeeps ==
  ASSUME AppTypeOK, PortOK,
         \/ Interrupt \/ Abort \/ Tick
         \/ Router /\ UNCHANGED appVars
  PROVE  PortOK'
<1> USE DEF PortOK, CallOK, DeviceValid, FlightOwned, NeverThere, TakenDown,
      NothingLeft, Excused, Empty, appVars, clientVars, Soap
<1>1. CASE Interrupt
  BY <1>1 DEF Interrupt, Start, routerVars
<1>2. CASE Abort
  BY <1>2 DEF Abort, routerVars
<1>3. CASE Tick
  BY <1>3 DEF Tick, LeaseRuns
<1>4. CASE RouterUp /\ UNCHANGED <<clientVars, appVars>>
  BY <1>4 DEF RouterUp
<1>5. CASE RouterDown /\ UNCHANGED <<clientVars, appVars>>
  <2>1. faults' > 0 /\ faults' # 0
    BY <1>5 DEF RouterDown, AppTypeOK
  <2> QED
    BY <1>5, <2>1 DEF RouterDown
<1>6. CASE RouterAdds /\ UNCHANGED <<clientVars, appVars>>
  BY <1>6 DEF RouterAdds
<1> QED
  BY <1>1, <1>2, <1>3, <1>4, <1>5, <1>6 DEF Router

(* The inductive invariant holds when init is through.                     *)
LEMMA InitInv == Init => AppInv
<1> SUFFICES ASSUME Init
             PROVE  AppInv
  OBVIOUS
<1>1. LeaseInterval \in Nat
  BY LeaseAssumption, TimersAssumption DEF LeaseInterval
<1>2. DOMAIN due = {"lease"} /\ due \in [DOMAIN due -> Nat]
  BY <1>1 DEF Init
<1>3. AppTypeOK
  <2>1. left \in 0..Lease /\ faults \in 0..MaxFaults
    BY LeaseAssumption DEF Init, ClientInit
  <2> QED
    BY <1>2, <2>1 DEF Init, ClientInit, AppTypeOK, Timers, Tasks, Operations,
      ClientPcs, Soap
<1>4. PortOK
  BY DEF Init, ClientInit, PortOK, CallOK, DeviceValid, FlightOwned,
    NeverThere, TakenDown, NothingLeft, Excused, Empty, Soap
<1> QED
  BY <1>3, <1>4 DEF AppInv

(* The inductive invariant of the port mapping: types, the requests a call *)
(* may make, and what is known of the router when nothing has failed.      *)
THEOREM AppInvHolds == Spec => []AppInv
<1>1. AppInv /\ [Next]_vars => AppInv'
  <2> SUFFICES ASSUME AppInv, [Next]_vars
               PROVE  AppInv'
    OBVIOUS
  <2>1. CASE UNCHANGED vars
    BY <2>1, TypesKeep DEF vars, clientVars, routerVars, appVars, AppInv,
      PortOK, CallOK, DeviceValid, FlightOwned, NeverThere, TakenDown,
      NothingLeft, Excused, Empty
  <2>2. CASE Next
    BY <2>2, TypesKeep, ClientKeeps, CallsKeep, OutsideKeeps
      DEF AppInv, Next, MainStep
  <2> QED
    BY <2>1, <2>2
<1> QED
  BY InitInv, <1>1, PTL DEF Spec

(* A SOAP request of addUPNP or delUPNP is only made with the URLs of a    *)
(* router that hasValidIGD has found in the same call, although the        *)
(* handler of SIGINT starts calls in the middle of others.                 *)
THEOREM RequestsHaveDevice == Spec => []DeviceValid
<1>1. AppInv => DeviceValid
  BY DEF AppInv, PortOK
<1> QED
  BY <1>1, AppInvHolds, PTL

(* When SIGINT has ended the program, delUPNP has taken the mapping down   *)
(* and no request for another is on its way, unless a call failed or the   *)
(* signal arrived while the router was being asked.                        *)
THEOREM MappingTakenDown == Spec => []NothingLeft
<1>1. AppInv => NothingLeft
  BY DEF AppInv, PortOK
<1> QED
  BY <1>1, AppInvHolds, PTL

-----------------------------------------------------------------------------
(* The handlers of the HTTP server.                                        *)

(* Auth, as it is called: nobody is logged in while it waits.              *)
LEMMA ArrivesKeeps ==
  ASSUME HttpInv, Arrives
  PROVE  HttpInv'
<1> USE DEF HttpInv, HttpTypeOK, LoginWhole, Underway, session, Page, Login,
      Respond
<1>1. CASE Index
  BY <1>1 DEF Index
<1>2. CASE Auth
  <2>1. CASE logged_in /\ Login /\ UNCHANGED code
    BY <1>2, <2>1 DEF Auth
  <2>2. CASE ~logged_in /\ (Respond(200) \/ Respond(500)) /\ UNCHANGED code
    BY <1>2, <2>2 DEF Auth
  <2>3. CASE /\ ~logged_in
             /\ \E c \in Codes : code' = c
             /\ http' = "token"
             /\ UNCHANGED status
    BY <1>2, <2>3 DEF Auth
  <2> QED
    BY <1>2, <2>1, <2>2, <2>3 DEF Auth
<1> QED
  BY <1>1, <1>2 DEF Arrives

(* The rest of Auth, whatever the cloud answers: the code it asks with is  *)
(* the first to be redeemed, or there was trouble.                         *)
LEMMA ProceedsKeeps ==
  ASSUME HttpInv, Proceeds \/ UserLost
  PROVE  HttpInv'
<1> USE DEF HttpInv, HttpTypeOK, LoginWhole, Underway, session, Page, Login,
      Respond
<1>1. CASE TokenGranted
  BY <1>1 DEF TokenGranted
<1>2. CASE TokenRefused
  BY <1>2 DEF TokenRefused
<1>3. CASE TokenFailed
  BY <1>3 DEF TokenFailed
<1>4. CASE UserRead
  <2>1. PICK field \in Fields, phone \in Fields :
          /\ \/ Readable(field, phone) /\ LogIn /\ Login
             \/ ~Readable(field, phone) /\ NotLogged /\ Respond(500)
          /\ troubled' = (troubled \/ field # "string" \/ phone = "missing")
    BY <1>4 DEF UserRead
  <2>2. CASE Readable(field, phone) /\ LogIn /\ Login
    BY <1>4, <2>1, <2>2 DEF UserRead, LogIn
  <2>3. CASE ~Readable(field, phone) /\ NotLogged /\ Respond(500)
    <3>1. troubled' = TRUE
      BY <2>1, <2>3 DEF Readable, Fields
    <3> QED
      BY <1>4, <2>3, <3>1 DEF UserRead, NotLogged
  <2> QED
    BY <2>1, <2>2, <2>3
<1>5. CASE UserRefused
  BY <1>5 DEF UserRefused
<1>6. CASE UserLost
  BY <1>6 DEF UserLost
<1> QED
  BY <1>1, <1>2, <1>3, <1>4, <1>5, <1>6 DEF Proceeds

(* A step of the program is one of a handler, or leaves the login alone.   *)
LEMMA HandlerSteps ==
  ASSUME [ServerNext]_serverVars
  PROVE  Arrives \/ Proceeds \/ UserLost \/ UNCHANGED httpVars
BY DEF ServerNext, serverVars, Handler, HandlerCrash, Main

(* The login, for every set of codes: types, one user at a time, and whom  *)
(* Auth is about to log in.                                                *)
THEOREM HttpInvHolds == ServerSpec => []HttpInv
<1>1. ServerInit => HttpInv
  BY DEF ServerInit, HttpInit, HttpInv, HttpTypeOK, LoginWhole, Underway
<1>2. HttpInv /\ [ServerNext]_serverVars => HttpInv'
  <2> SUFFICES ASSUME HttpInv, [ServerNext]_serverVars
               PROVE  HttpInv'
    OBVIOUS
  <2>1. CASE UNCHANGED httpVars
    BY <2>1 DEF HttpInv, HttpTypeOK, LoginWhole, Underway, httpVars, session
  <2> QED
    BY <2>1, HandlerSteps, ArrivesKeeps, ProceedsKeeps
<1> QED
  BY <1>1, <1>2, PTL DEF ServerSpec

(* Whatever the cloud answers and Auth throws, the name and the picture    *)
(* are those of one user whose code was redeemed, or the defaults.         *)
THEOREM LoginIsWhole == ServerSpec => []LoginWhole
<1>1. HttpInv => LoginWhole
  BY DEF HttpInv
<1> QED
  BY <1>1, HttpInvHolds, PTL

(* When Auth is through and the cloud has answered as it should, the code  *)
(* that was redeemed has logged its user in.                               *)
THEOREM CodesServe == ServerSpec => []CodeNotWasted
<1>1. HttpInv => CodeNotWasted
  BY DEF HttpInv, Underway, CodeNotWasted
<1> QED
  BY <1>1, HttpInvHolds, PTL

(* Once somebody is logged in, nobody else is and no code is redeemed.     *)
THEOREM LoginStays == ServerSpec => LoginLasts
<1>1. HttpInv /\ [ServerNext]_serverVars
        => [logged_in => UNCHANGED <<logged_in, name, image_url, spent>>]_httpVars
  <2> SUFFICES ASSUME HttpInv, logged_in, Arrives \/ Proceeds \/ UserLost
               PROVE  UNCHANGED <<logged_in, name, image_url, spent>>
    BY HandlerSteps
  <2>1. http = "idle"
    BY DEF HttpInv, Underway
  <2> QED
    BY <2>1 DEF Arrives, Index, Auth, Proceeds, TokenGranted, TokenRefused,
      TokenFailed, UserRead, UserRefused, UserLost, session
<1> QED
  BY <1>1, HttpInvHolds, PTL DEF ServerSpec, LoginLasts

(* The program implements Application: a handler leaves the mapping alone, *)
(* and one that crashes is a program that gets SIGSEGV.                    *)
THEOREM ServerIsApplication == ServerSpec => Spec
<1>1. ServerInit => Init
  BY DEF ServerInit
<1>2. [ServerNext]_serverVars => [Next]_vars
  BY DEF ServerNext, Next, Handler, HandlerCrash, Main, serverVars
<1> QED
  BY <1>1, <1>2, PTL DEF ServerSpec, Spec

(* Whatever the handlers do, a program ended by SIGINT leaves no mapping   *)
(* behind, unless a call failed or it met a request under way.             *)
THEOREM ServerTakesDown == ServerSpec => []NothingLeft
BY ServerIsApplication, MappingTakenDown

=============================================================================
