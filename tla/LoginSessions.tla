---------------------------- MODULE LoginSessions ---------------------------
(***************************************************************************)
(* auth.Handler and auth.Store, for one account: log-in with and without a *)
(* second factor, sessions, API keys, and setting the second factor up;    *)
(* and rbac, which decides what a user who is let in may do.               *)
(* A request is a sequence of statements of its own, and works on the user *)
(* row it read first.  A code is the secret it was made from and the step  *)
(* of the clock; passwords are right, as a wrong one changes nothing.      *)
(***************************************************************************)
EXTENDS Integers, FiniteSets

CONSTANTS
  Clients,
  SessionTTL, PendingTTL,
  LastHour,      \* bound: the clock
  MaxIssued,   \* bound: sessions, challenges and keys in all
  MaxSecret    \* bound: secrets generated

ASSUME LifetimesAssumption == SessionTTL \in Nat \ {0} /\ PendingTTL \in Nat \ {0}
ASSUME LoginBoundsAssumption == LastHour \in Nat /\ MaxIssued \in Nat /\ MaxSecret \in Nat \ {0}

VARIABLES
  hour,
  secret, status, lastToken,  \* twofa_* of the users row; 0 is no secret
  issued,                     \* how many credentials were issued
  sessions,                   \* sessions: [id, expires]
  pending,                    \* twofa_pending
  keys,                       \* api_keys: [id, expires, active]
  req,                        \* per client: the request in progress
  (* history, read by properties only *)
  ended                       \* per credential: when it was revoked or ran out

loginVars == <<hour, secret, status, lastToken, issued, sessions, pending, keys, req,
          ended>>

Row == [secret |-> secret, status |-> status, last |-> lastToken]
NoCode == <<0, 0>>
(* SELECT of SessionUser leaves the twofa columns out.                     *)
SessionRow == [secret |-> 0, status |-> FALSE, last |-> NoCode]
UserRows == [secret : 0..MaxSecret, status : BOOLEAN,
         last : (0..MaxSecret) \X (-1..LastHour + 1)]
NoRequest == [op |-> "none"]
CredIds == 1..MaxIssued
Never == LastHour + 1

LoginInit ==
  /\ hour = 0
  /\ status \in BOOLEAN  \* the second factor may have been set up before
  /\ secret = IF status THEN 1 ELSE 0
  /\ lastToken = NoCode
  /\ issued = 0
  /\ sessions = {} /\ pending = {} /\ keys = {}
  /\ req = [c \in Clients |-> NoRequest]
  /\ ended = [i \in CredIds |-> Never]

Done(c) == req' = [req EXCEPT ![c] = NoRequest]
(* A credential that is good for this long.                                *)
Issue(good) == /\ issued < MaxIssued
              /\ issued' = issued + 1
              /\ ended' = [ended EXCEPT ![issued'] = hour + good]
Fresh(ttl) == [id |-> issued', expires |-> hour + ttl]
Users == <<secret, status, lastToken>>
Tables == <<sessions, pending, keys>>

(* VerifyTOTP: one step of skew either way.                                *)
Valid(code, s) == s # 0 /\ code[1] = s /\ code[2] \in (hour - 1)..(hour + 1)
TotpCodes == (1..MaxSecret) \X (0..LastHour)

-----------------------------------------------------------------------------
(* Log-in.                                                                 *)

(* Login: UserByUsername.                                                  *)
LoginBegin(c) ==
  /\ req[c] = NoRequest
  /\ req' = [req EXCEPT ![c] = [op |-> "login", user |-> Row]]
  /\ UNCHANGED <<hour, Users, issued, Tables, ended>>

LoginEnd(c) ==
  /\ req[c].op = "login"
  /\ Done(c)
  /\ IF req[c].user.status
     THEN /\ Issue(PendingTTL - 1)
          /\ pending' = pending \cup {Fresh(PendingTTL)}
          /\ UNCHANGED sessions
     ELSE /\ Issue(SessionTTL - 1)
          /\ sessions' = sessions \cup {Fresh(SessionTTL)}
          /\ UNCHANGED pending
  /\ UNCHANGED <<hour, Users, keys>>

(* LoginTwoFA: ResolvePendingTwoFA, and the code against the row it read.  *)
Resolve(c, p, code) ==
  /\ req[c] = NoRequest
  /\ p \in pending /\ p.expires > hour
  /\ req' = [req EXCEPT ![c] =
       IF ~status THEN [op |-> "drop", p |-> p]
       ELSE IF Valid(code, secret) /\ code # lastToken
       THEN [op |-> "accepted", p |-> p, code |-> code] ELSE NoRequest]
  /\ UNCHANGED <<hour, Users, issued, Tables, ended>>

(* ConsumePendingTwoFA, whose error is ignored.                            *)
Consume(c) ==
  /\ req[c].op \in {"drop", "accepted"}
  /\ \/ pending' = pending \ {req[c].p}
     \/ UNCHANGED pending
  /\ req' = [req EXCEPT ![c] =
       IF @.op = "drop" THEN NoRequest ELSE [op |-> "consumed", code |-> @.code]]
  /\ UNCHANGED <<hour, Users, issued, sessions, keys, ended>>

(* SetTwoFALastToken, whose error is ignored as well.                      *)
NoteToken(c) ==
  /\ req[c].op = "consumed"
  /\ \/ lastToken' = req[c].code
     \/ UNCHANGED lastToken
  /\ req' = [req EXCEPT ![c] = [op |-> "noted"]]
  /\ UNCHANGED <<hour, secret, status, issued, Tables, ended>>

CreateSession(c) ==
  /\ req[c].op = "noted"
  /\ Done(c)
  /\ Issue(SessionTTL - 1)
  /\ sessions' = sessions \cup {Fresh(SessionTTL)}
  /\ UNCHANGED <<hour, Users, pending, keys>>

(* A statement fails, and the request with it.                             *)
Abort(c) ==
  /\ req[c].op \in {"login", "noted", "key"}
  /\ Done(c)
  /\ UNCHANGED <<hour, Users, issued, Tables, ended>>

-----------------------------------------------------------------------------
(* Middleware, and what runs behind it.                                    *)

Enter(c, id, user, began) ==
  req' = [req EXCEPT ![c] =
            [op |-> "in", id |-> id, user |-> user, began |-> began]]

(* Mutant: a session is good until it is pruned.                           *)
BySessionAnyTime(c) ==
  /\ req[c] = NoRequest
  /\ \E s \in sessions : Enter(c, s.id, SessionRow, hour)
  /\ UNCHANGED <<hour, Users, issued, Tables, ended>>

BySession(c) ==
  /\ req[c] = NoRequest
  /\ \E s \in sessions : s.expires > hour /\ Enter(c, s.id, SessionRow, hour)
  /\ UNCHANGED <<hour, Users, issued, Tables, ended>>

(* apikeys.Verify, then UserByID.                                          *)
ByKey(c) ==
  /\ req[c] = NoRequest
  /\ \E k \in keys : k.active /\ k.expires >= hour
       /\ req' = [req EXCEPT ![c] = [op |-> "key", id |-> k.id, began |-> hour]]
  /\ UNCHANGED <<hour, Users, issued, Tables, ended>>

LoadUser(c) ==
  /\ req[c].op = "key"
  /\ Enter(c, req[c].id, Row, req[c].began)
  /\ UNCHANGED <<hour, Users, issued, Tables, ended>>

In(c) == req[c].op = "in"

(* PrepareTwoFA overwrites the secret, whatever the status.                *)
PrepareTwoFA(c) ==
  /\ In(c) /\ secret < MaxSecret
  /\ secret' = secret + 1
  /\ Done(c)
  /\ UNCHANGED <<hour, status, lastToken, issued, Tables, ended>>

(* SaveTwoFA: the code is checked against the row of the middleware.       *)
SaveTwoFA(c, code) ==
  /\ In(c)
  /\ Done(c)
  /\ status' = (status \/ Valid(code, req[c].user.secret))
  /\ UNCHANGED <<hour, secret, lastToken, issued, Tables, ended>>

DisableTwoFA(c) ==
  /\ In(c)
  /\ status' = FALSE
  /\ Done(c)
  /\ UNCHANGED <<hour, secret, lastToken, issued, Tables, ended>>

CreateKey(c, ttl) ==
  /\ In(c)
  /\ Issue(ttl)
  /\ keys' = keys \cup {[id |-> issued', expires |-> hour + ttl, active |-> TRUE]}
  /\ Done(c)
  /\ UNCHANGED <<hour, Users, sessions, pending>>

SetActive(c, k, active) ==
  /\ In(c) /\ k \in keys
  /\ keys' = (keys \ {k}) \cup {[k EXCEPT !.active = active]}
  /\ ended' = [ended EXCEPT ![k.id] = IF active THEN k.expires ELSE hour]
  /\ Done(c)
  /\ UNCHANGED <<hour, Users, issued, sessions, pending>>

DeleteKey(c, k) ==
  /\ In(c) /\ k \in keys
  /\ keys' = keys \ {k}
  /\ ended' = [ended EXCEPT ![k.id] = hour]
  /\ Done(c)
  /\ UNCHANGED <<hour, Users, issued, sessions, pending>>

(* Me and the other reads change nothing.                                  *)
Answer(c) ==
  /\ In(c) /\ Done(c)
  /\ UNCHANGED <<hour, Users, issued, Tables, ended>>

(* Logout; the error of the DELETE is ignored.                             *)
Logout(s) ==
  /\ s \in sessions
  /\ sessions' = sessions \ {s}
  /\ ended' = [ended EXCEPT ![s.id] = IF hour < @ THEN hour ELSE @]
  /\ UNCHANGED <<hour, Users, issued, pending, keys, req>>

(* pruneSessionsPeriodically.                                              *)
PruneExpired ==
  /\ sessions' = {s \in sessions : s.expires > hour}
  /\ UNCHANGED <<hour, Users, issued, pending, keys, req, ended>>

HourPasses ==
  /\ hour < LastHour
  /\ hour' = hour + 1
  /\ UNCHANGED <<Users, issued, Tables, req, ended>>

LoginNext ==
  \/ \E c \in Clients :
       \/ LoginBegin(c) \/ LoginEnd(c) \/ Consume(c) \/ NoteToken(c) \/ CreateSession(c)
       \/ \E p \in pending, code \in TotpCodes : Resolve(c, p, code)
       \/ Abort(c) \/ BySession(c) \/ ByKey(c) \/ LoadUser(c)
       \/ PrepareTwoFA(c) \/ DisableTwoFA(c) \/ Answer(c)
       \/ \E code \in TotpCodes : SaveTwoFA(c, code)
       \/ \E ttl \in {1, Never} : CreateKey(c, ttl)
       \/ \E k \in keys : DeleteKey(c, k) \/ \E active \in BOOLEAN : SetActive(c, k, active)
  \/ \E s \in sessions : Logout(s)
  \/ PruneExpired \/ HourPasses

LoginSpec == LoginInit /\ [][LoginNext]_loginVars

-----------------------------------------------------------------------------
Creds == [id : CredIds, expires : Nat]
Stages ==
  {NoRequest}
    \cup [op : {"login"}, user : UserRows]
    \cup [op : {"drop"}, p : Creds]
    \cup [op : {"accepted"}, p : Creds, code : TotpCodes]
    \cup [op : {"consumed"}, code : TotpCodes]
    \cup [op : {"noted"}]
    \cup [op : {"key"}, id : CredIds, began : 0..LastHour]
    \cup [op : {"in"}, id : CredIds, user : UserRows, began : 0..LastHour]

LoginTypeOK ==
  /\ hour \in 0..LastHour
  /\ Row \in UserRows
  /\ issued \in 0..MaxIssued
  /\ sessions \subseteq Creds /\ pending \subseteq Creds
  /\ keys \subseteq [id : CredIds, expires : Nat, active : BOOLEAN]
  /\ req \in [Clients -> Stages]
  /\ ended \in [CredIds -> Nat]

(* A request is served only if it arrived before its session or key was    *)
(* revoked or ran out.  Rows outlive that by up to an hour, so it depends  *)
(* on what SessionUser and Verify ask of them; a disabled key can return.  *)
RevokedStaysOut ==
  \A c \in Clients : req[c].op \in {"key", "in"} => req[c].began <= ended[req[c].id]

-----------------------------------------------------------------------------
(* rbac.Repository and RequirePermission: what one user may do.  An        *)
(* assignment is <<user, tenant, role>>, a grant is <<role, permission>>.  *)
Ok == "200"
Unauthenticated == "401"
Forbidden == "403"
Broken == "500"

RolesOf(user, assigned) == {a[3] : a \in {b \in assigned : b[1] = user}}

(* The union over every tenant, as a session has no tenant of its own.     *)
Permissions(user, assigned, grants) ==
  {g[2] : g \in {h \in grants : h[1] \in RolesOf(user, assigned)}}

(* Mutant: one tenant's assignments only.                                  *)
HasPermissionIn(user, key, assigned, grants) ==
  \E t \in {a[2] : a \in assigned} : \A a \in assigned :
     a[1] = user /\ a[2] = t => <<a[3], key>> \in grants

HasPermission(user, key, assigned, grants) ==
  \E a \in assigned, g \in grants : a[1] = user /\ a[3] = g[1] /\ g[2] = key

(* The answer of RequirePermission around a handler that answers 200.      *)
Gate(user, anonymous, down, key, assigned, grants) ==
  CASE anonymous -> Unauthenticated
    [] ~anonymous /\ down -> Broken
    [] ~anonymous /\ ~down /\ ~HasPermission(user, key, assigned, grants) -> Forbidden
    [] OTHER -> Ok

(* PermissionsAPI: two queries, and the answer of both or an error.        *)
Menu(user, anonymous, down, assigned, grants) ==
  IF anonymous THEN <<Unauthenticated, {}, {}>>
  ELSE IF down THEN <<Broken, {}, {}>>
  ELSE <<Ok, RolesOf(user, assigned), Permissions(user, assigned, grants)>>

(* What the interface offers a user from the permissions it was sent is    *)
(* exactly what the gate lets the user do; two queries written separately  *)
(* must agree, over several roles in several tenants.                      *)
MenuMatchesGate(user, anonymous, down, key, assigned, grants) ==
  LET menu == Menu(user, anonymous, down, assigned, grants)
  IN  (Gate(user, anonymous, down, key, assigned, grants) = Ok) <=> key \in menu[3]
=============================================================================
