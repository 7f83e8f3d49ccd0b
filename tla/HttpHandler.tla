----------------------------- MODULE HttpHandler -----------------------------
(***************************************************************************)
(* class eular::HttpHandler (httpd/http_handler.cpp), the login state it   *)
(* keeps in GlobalResourceManagement, and the cloud that Auth asks.        *)
(*                                                                         *)
(* One worker thread runs the handlers one after another, and the two      *)
(* requests of Auth block it: the answer to each is a step of its own.     *)
(* A code stands for the user it was issued to, and the user for the name  *)
(* and the picture in his account.                                         *)
(***************************************************************************)
CONSTANTS
  Codes,    \* authorization codes that the cloud issued
  Nobody    \* no code, the default name and the default picture

ASSUME CodesAssumption == Nobody \notin Codes

VARIABLES
  logged_in, name, image_url,   \* GlobalResourceManagement
  http,      \* what the worker waits for: a request, a token, the user's data
  code,      \* the code Auth redeems
  status,    \* of the last response
  spent,     \* the cloud: codes redeemed
  troubled   \* history: the cloud did not answer a request as it should have

session  == <<logged_in, name, image_url>>
httpVars == <<session, http, code, status, spent, troubled>>

HttpInit ==
  /\ logged_in = FALSE /\ name = Nobody /\ image_url = Nobody
  /\ http = "idle" /\ code = Nobody /\ status = 0
  /\ spent = {} /\ troubled = FALSE

(* Faulty versions of definitions below: each is a mistake that one of the *)
(* properties has to notice.                                               *)
PhoneNeeded(field, phone) == field = "string" /\ phone = "string"
SetWhileRead ==
  /\ name' \in {name, code} /\ image_url' = code
  /\ UNCHANGED logged_in
AuthAgain ==
  /\ http = "idle"
  /\ \E c \in Codes : http' = "token" /\ code' = c /\ UNCHANGED status
  /\ UNCHANGED <<session, spent, troubled>>
RespondAndStay(s) == status' = s /\ UNCHANGED http

Respond(s) == http' = "idle" /\ status' = s

(* A page is read from a file that may be missing; Login fills in home.    *)
Page  == Respond(200) \/ Respond(404)
Login == Page

(* The values of a field in a JSON object.                                 *)
Fields == {"string", "null", "missing"}

(* at throws when a field is missing, the conversion when it is no string; *)
(* only phone may be null.                                                 *)
Readable(field, phone) == field = "string" /\ phone \in {"string", "null"}

-----------------------------------------------------------------------------
(* A request arrives.                                                      *)

(* Index, and Makefile like it, send a file.                               *)
Index ==
  /\ http = "idle"
  /\ Page
  /\ UNCHANGED <<session, code, spent, troubled>>

(* Who is logged in is not logged in again.  A code that does not go into  *)
(* JSON leaves the body of the POST empty.                                 *)
Auth ==
  /\ http = "idle"
  /\ \/ logged_in /\ Login /\ UNCHANGED code
     \/ ~logged_in /\ Respond(200) /\ UNCHANGED code
     \/ ~logged_in /\ Respond(500) /\ UNCHANGED code
     \/ /\ ~logged_in
        /\ \E c \in Codes : code' = c
        /\ http' = "token"
        /\ UNCHANGED status
  /\ UNCHANGED <<session, spent, troubled>>

-----------------------------------------------------------------------------
(* The answer to POST /oauth/access_token.  A code is good for one token.  *)

TokenGranted ==
  /\ http = "token"
  /\ code \notin spent
  /\ spent' = spent \cup {code}
  /\ http' = "user"
  /\ UNCHANGED <<session, code, status, troubled>>

(* With code and message in it the refusal is passed on.                   *)
TokenRefused ==
  /\ http = "token"
  /\ code \in spent
  /\ Respond(200)
  /\ UNCHANGED <<session, code, spent, troubled>>

(* No answer, one that is not what it should be, or an error of the cloud; *)
(* the code may be spent nevertheless.                                     *)
TokenFailed ==
  /\ http = "token"
  /\ Respond(200) \/ Respond(500)
  /\ spent' \in {spent, spent \cup {code}}
  /\ troubled' = TRUE
  /\ UNCHANGED <<session, code>>

-----------------------------------------------------------------------------
(* The answer to GET /oauth/users/info.                                    *)

LogIn     == image_url' = code /\ name' = code /\ logged_in' = TRUE
NotLogged == UNCHANGED session

UserRead ==
  /\ http = "user"
  /\ \E field, phone \in Fields :
       /\ \/ Readable(field, phone) /\ LogIn /\ Login
          \/ ~Readable(field, phone) /\ NotLogged /\ Respond(500)
       /\ troubled' = (troubled \/ field # "string" \/ phone = "missing")
  /\ UNCHANGED <<code, spent>>

(* Another status, or JSON that is not an object: the page is shown as if  *)
(* the user was logged in, under the default name.                         *)
UserRefused ==
  /\ http = "user"
  /\ Login
  /\ troubled' = TRUE
  /\ UNCHANGED <<session, code, spent>>

(* No answer is a null pointer, which is not checked: the process dies.    *)
UserLost ==
  /\ http = "user"
  /\ troubled' = TRUE
  /\ UNCHANGED <<session, http, code, status, spent>>

-----------------------------------------------------------------------------
Arrives  == Index \/ Auth
Proceeds == \/ TokenGranted \/ TokenRefused \/ TokenFailed
            \/ UserRead \/ UserRefused

HttpTypeOK ==
  /\ logged_in \in BOOLEAN
  /\ name \in Codes \cup {Nobody} /\ image_url \in Codes \cup {Nobody}
  /\ http \in {"idle", "token", "user"}
  /\ code \in Codes \cup {Nobody}
  /\ http # "idle" => code \in Codes
  /\ status \in {0, 200, 404, 500}
  /\ spent \subseteq Codes /\ troubled \in BOOLEAN

(* The name and the picture on the page belong to one user, whose code was *)
(* redeemed, or to nobody as long as nobody is logged in: whatever Auth    *)
(* throws on the way, it never leaves half a login.                        *)
LoginWhole ==
  IF logged_in THEN name = image_url /\ name \in spent
               ELSE name = Nobody /\ image_url = Nobody

(* "No need to log in again once logged in" (the comment in Auth): from    *)
(* then on no request changes the user, and no code is redeemed.           *)
LoginLasts ==
  [][logged_in => UNCHANGED <<logged_in, name, image_url, spent>>]_httpVars

(* A code is not redeemed for nothing: as long as the cloud answers as it  *)
(* should, the first user whose code it took is logged in, with a phone    *)
(* number or without, whatever else was requested before.                  *)
CodeNotWasted == http = "idle" /\ ~troubled /\ spent # {} => logged_in

(* The inductive invariant: whoever Auth asks the cloud about is the first *)
(* to log in, and without trouble no other code has been redeemed.         *)
Underway ==
  /\ http # "idle" => ~logged_in
  /\ http = "user" => code \in spent
  /\ http # "user" /\ ~troubled /\ ~logged_in => spent = {}

HttpInv == HttpTypeOK /\ LoginWhole /\ Underway

=============================================================================
