-------------------------------- MODULE Server --------------------------------
(***************************************************************************)
(* The program: Application with its mapping on the router, and the        *)
(* handlers that HttpRouter registers with the HTTP server.  The main      *)
(* thread is the only worker of the server (setThreadNum(1)): it runs a    *)
(* handler once run has come to serve, and a signal interrupts either.     *)
(* m_idleLoop is not run here, as it is not in the program.                *)
(***************************************************************************)
EXTENDS Application, HttpHandler

serverVars == <<vars, httpVars>>

ServerInit == Init /\ HttpInit

(* A handler runs to its end or to the end of the process.                 *)
Handler(step) ==
  /\ app = "serving"
  /\ task = "none"
  /\ step
  /\ UNCHANGED vars

(* SIGSEGV ends the process without stop: Signalcatch only exits.          *)
HandlerCrash ==
  /\ app = "serving"
  /\ task = "none"
  /\ UserLost
  /\ Abort

Main == MainStep /\ UNCHANGED httpVars

ServerNext ==
  \/ Main
  \/ Handler(Arrives) \/ Handler(Proceeds)
  \/ HandlerCrash
  \/ (Interrupt \/ Abort \/ Tick) /\ UNCHANGED httpVars
  \/ Router /\ UNCHANGED <<appVars, httpVars>>

ServerSpec == ServerInit /\ [][ServerNext]_serverVars

(* The main thread keeps running, and requests to the cloud and to the     *)
(* router end: libhv and miniupnpc give up after a time-out.               *)
ServerFairSpec ==
  /\ ServerSpec
  /\ WF_serverVars(Main)
  /\ WF_serverVars(Handler(Proceeds) \/ HandlerCrash)

-----------------------------------------------------------------------------
(* A request is answered, or the process has ended, although handlers wait *)
(* for the cloud and signals interrupt them.                               *)
Answered == http # "idle" ~> (http = "idle" \/ app = "exited")

=============================================================================
