------------------------------ MODULE Accounts ------------------------------
(***************************************************************************)
(* Who a request acts for, and the provider configurations that are his:   *)
(* auth.py, the auth and provider-configs routes (api/routes.py), their    *)
(* tables (db/database.py) and the sealed secrets (provider_config.py).    *)
(*                                                                         *)
(* The routes await only in the test of a provider; every other one is a   *)
(* single step.  A test is therefore two requests of a sequence, its start *)
(* and its end, with any others between them.  A session token is the      *)
(* number of the session, an address stands for its user's id, and the     *)
(* number of the request that made a configuration for the configuration's *)
(* id: the program draws them at random.                                   *)
(*                                                                         *)
(* A deployment is [desktop, required]: was it started with a launch token *)
(* (the gate of RequestLimits turns requests without it away), and does it *)
(* require accounts?                                                       *)
(***************************************************************************)
EXTENDS Naturals, Sequences, FiniteSets, FiniteSetsExt

CONSTANTS Addresses,   \* valid e-mail addresses in normal form
          Ttl,         \* auth_session_ttl_seconds
          None

Desktop == "desktop"
Legacy == "legacy"

\* Definitions called Mutant... are wrong on purpose, as in ResearchLedger.

\* However an address is capitalized or padded, it names one user.
NormalizeEmail(email) == email.names

\* A hash is salted, but verifies against its own password and no other.
PasswordHash(password) == [hash |-> password]
VerifyPassword(password, hash) == hash.hash = password

---------------------------------------------------------------------------
(* Sessions. *)

\* users: address -> hash; calls: tests under way.
NobodyYet == [users |-> <<>>, sessions |-> <<>>, configs |-> <<>>, calls |-> <<>>, answers |-> <<>>]

Answer(state, says, user, token) ==
  [state EXCEPT !.answers = Append(@, [says |-> says, user |-> user, token |-> token])]

IssueSession(state, user, at) ==
  LET s == [user |-> user, expires |-> at + Ttl, revoked |-> FALSE]
  IN Answer([state EXCEPT !.sessions = Append(@, s)], "ok", user, Len(state.sessions) + 1)

PresentedToken(r) == IF r.cookie # None THEN r.cookie ELSE r.bearer

LiveSession(state, r) ==
  LET t == PresentedToken(r)
  IN /\ t \in DOMAIN state.sessions
     /\ ~state.sessions[t].revoked /\ r.at < state.sessions[t].expires

CurrentUser(app, state, r) ==
  IF app.desktop /\ ~app.required THEN Desktop
  ELSE IF LiveSession(state, r) THEN state.sessions[PresentedToken(r)].user
  ELSE IF ~app.required THEN Legacy
  ELSE None

Register(state, r) ==
  LET user == NormalizeEmail(r.email)
  IN IF user \notin Addresses THEN Answer(state, "invalid", None, None)
     ELSE IF user \in DOMAIN state.users THEN Answer(state, "taken", None, None)
     ELSE IssueSession([state EXCEPT !.users = [u \in DOMAIN @ \cup {user} |->
                                                  IF u = user THEN PasswordHash(r.password) ELSE @[u]]],
                       user, r.at)

Login(state, r) ==
  LET user == NormalizeEmail(r.email)
  IN IF user \in DOMAIN state.users /\ VerifyPassword(r.password, state.users[user])
       THEN IssueSession(state, user, r.at)
     ELSE Answer(state, "denied", None, None)

\* Logging out revokes the session presented, expired or not, whoever the
\* request acts for.
Logout(app, state, r) ==
  LET t == PresentedToken(r)
      user == CurrentUser(app, state, r)
  IN Answer(IF t \in DOMAIN state.sessions
              THEN [state EXCEPT !.sessions[t].revoked = TRUE] ELSE state,
            "ok", user, None)

---------------------------------------------------------------------------
(* Provider configurations. *)

\* A secret is [ends, long], and an empty one clears what was stored; a
\* stored one is sealed.
Empty == [ends |-> "", long |-> FALSE]
Seal(secret) == IF secret \in {None, Empty} THEN None ELSE [sealed |-> secret]

\* Long secrets show their ends, others only that they are there.
MaskSecret(secret) ==
  IF secret \in {None, Empty} THEN None
  ELSE [ends |-> IF secret.long THEN secret.ends ELSE None]

Named(state, user, name) ==
  {c \in DOMAIN state.configs : state.configs[c].owner = user /\ state.configs[c].name = name}

Put(configs, c, config) ==
  [d \in DOMAIN configs \cup {c} |-> IF d = c THEN config ELSE configs[d]]

\* The hint is that of the request, although the secret is kept.
MutantSaveConfig(state, r, user) ==
  LET same == Named(state, user, r.name)
      c == IF same = {} THEN Len(state.answers) + 1 ELSE CHOOSE d \in same : TRUE
  IN Put(state.configs, c,
         [owner |-> user, name |-> r.name,
          secret |-> IF r.secret = None /\ same # {} THEN state.configs[c].secret ELSE Seal(r.secret),
          hint |-> MaskSecret(r.secret),
          status |-> IF same = {} THEN None ELSE state.configs[c].status])

\* A request without a secret keeps the one of the configuration of that
\* name; the result of its last test stays, whatever else changes.  The route lists
\* the configurations in one transaction and saves in another: they are one step
\* because the event loop of the one process modelled does not yield between them.
SaveConfig(state, r, user) ==
  LET same == Named(state, user, r.name)
      c == IF same = {} THEN Len(state.answers) + 1 ELSE CHOOSE d \in same : TRUE
      kept == r.secret = None /\ same # {}
  IN Put(state.configs, c,
         [owner |-> user, name |-> r.name,
          secret |-> IF kept THEN state.configs[c].secret ELSE Seal(r.secret),
          hint |-> IF kept THEN state.configs[c].hint ELSE MaskSecret(r.secret),
          status |-> IF same = {} THEN None ELSE state.configs[c].status])

Owned(state, c, user) == c \in DOMAIN state.configs /\ state.configs[c].owner = user

\* A local provider must be at a loopback address.
Save(state, r, user) ==
  IF r.local /\ ~r.loopback THEN Answer(state, "invalid", user, None)
  ELSE Answer([state EXCEPT !.configs = SaveConfig(state, r, user)], "ok", user, None)

Delete(state, r, user) ==
  IF ~Owned(state, r.config, user) THEN Answer(state, "missing", user, None)
  ELSE Answer([state EXCEPT !.configs = [c \in DOMAIN @ \ {r.config} |-> @[c]]], "ok", user, None)

StartTest(state, r, user) ==
  IF ~Owned(state, r.config, user) THEN Answer(state, "missing", user, None)
  ELSE Answer([state EXCEPT !.calls = Put(@, r.call, [config |-> r.config, owner |-> user])],
              "testing", user, None)

\* The result is stored if the configuration is still there; the caller gets
\* it in any case.
EndTest(state, r) ==
  IF r.call \notin DOMAIN state.calls THEN Answer(state, "nothing", None, None)
  ELSE LET call == state.calls[r.call]
           status == IF r.ok THEN "PASSED" ELSE "FAILED"
       IN Answer([state EXCEPT
                    !.configs = IF Owned(state, call.config, call.owner)
                                  THEN [@ EXCEPT ![call.config].status = status] ELSE @,
                    !.calls = [c \in DOMAIN @ \ {r.call} |-> @[c]]],
                 status, call.owner, None)

\* What require_current_user lets through.
Protected(app, state, r) ==
  LET user == CurrentUser(app, state, r)
  IN CASE user = None -> Answer(state, "unauthenticated", None, None)
       [] user # None /\ r.act = "me" -> Answer(state, "ok", user, None)
       [] user # None /\ r.act = "save" -> Save(state, r, user)
       [] user # None /\ r.act = "delete" -> Delete(state, r, user)
       [] user # None /\ r.act = "test" -> StartTest(state, r, user)

Serve(app, state, r) ==
  CASE r.act = "register" -> Register(state, r)
    [] r.act = "login" -> Login(state, r)
    [] r.act = "logout" -> Logout(app, state, r)
    [] r.act = "tested" -> EndTest(state, r)
    [] OTHER -> Protected(app, state, r)

\* The state after each request of a sequence, the first before any.
History(app, requests) ==
  LET h[i \in 0 .. Len(requests)] ==
        IF i = 0 THEN NobodyYet ELSE Serve(app, h[i - 1], requests[i])
  IN h

\* What the routes are sent: a test starts once and ends once, after it
\* started, with the request its route awaits in.
Acts == {"register", "login", "logout", "me", "save", "delete", "test", "tested"}

AreSent(requests) ==
  /\ requests \in Seq(Range(requests))
  /\ \A i \in DOMAIN requests :
       LET r == requests[i]
           Same(act) == {j \in DOMAIN requests : requests[j].act = act /\ requests[j].call = r.call}
       IN /\ r.act \in Acts /\ r.at \in Nat
          /\ r.act \in {"test", "tested"} => Same(r.act) = {i}
          /\ r.act = "tested" => \E j \in Same("test") : j < i

---------------------------------------------------------------------------
(* What accounts promise. *)

\* A request acts for the user who was given its token by a registration or
\* by a login with his password, until the token expires or a logout presents
\* it, for nobody else, and for the local user only where accounts are not
\* required.
UserIsRight(app, requests, answers, i) ==
  LET r == requests[i]
      Given(j) ==
        /\ answers[j].token # None /\ answers[j].token = PresentedToken(r)
        /\ r.at - requests[j].at < Ttl
        /\ \A k \in j + 1 .. i - 1 :
             requests[k].act = "logout" => PresentedToken(requests[k]) # PresentedToken(r)
      givers == {j \in 1 .. i - 1 : Given(j)}
      Registered(j) ==
        /\ requests[j].act = "register" /\ answers[j].token # None
        /\ requests[j].email.names = r.email.names
  IN IF r.act \in {"register", "login"}
     THEN /\ answers[i].token # None =>
               \A j \in 1 .. i - 1 : answers[j].token # answers[i].token
          /\ r.act = "login" =>
               (answers[i].token # None
                 <=> \E j \in 1 .. i - 1 : Registered(j) /\ requests[j].password = r.password)
     ELSE r.act # "tested" =>
       /\ Cardinality(givers) <= 1
       /\ \/ app.desktop /\ ~app.required /\ answers[i].user = Desktop
          \/ /\ ~app.desktop \/ app.required
             /\ \A j \in givers : answers[i].user = requests[j].email.names
             /\ givers = {} => answers[i].user = IF app.required THEN None ELSE Legacy

\* A configuration has the secret its owner stated last under its name, and
\* shows the hint of that one; its status is that of the last test of itself
\* that ended, never of one deleted before it was made again.
ConfigIsRight(requests, answers, configs, c) ==
  LET config == configs[c]
      Saves == {i \in c .. Len(requests) :
                  /\ requests[i].act = "save" /\ answers[i].says = "ok"
                  /\ answers[i].user = config.owner /\ requests[i].name = config.name}
      stated == requests[Max({i \in Saves : requests[i].secret # None} \cup {c})].secret
      Ends == {i \in c .. Len(requests) :
                 /\ requests[i].act = "tested"
                 /\ \E j \in c .. i - 1 :
                      /\ requests[j].act = "test" /\ requests[j].call = requests[i].call
                      /\ requests[j].config = c /\ answers[j].user = config.owner
                      /\ answers[j].says = "testing"}
  IN /\ config.secret = Seal(stated) /\ config.hint = MaskSecret(stated)
     /\ config.status = IF Ends = {} THEN None ELSE answers[Max(Ends)].says
     /\ \A d \in DOMAIN configs :
          configs[d].owner = config.owner /\ configs[d].name = config.name => d = c

AccountsAreOwn(app, requests) ==
  LET end == History(app, requests)[Len(requests)]
  IN /\ \A i \in DOMAIN requests : UserIsRight(app, requests, end.answers, i)
     /\ \A c \in DOMAIN end.configs : ConfigIsRight(requests, end.answers, end.configs, c)
===========================================================================
