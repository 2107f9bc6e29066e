---------------------------- MODULE RequestLimits ----------------------------
(***************************************************************************)
(* What stands between a request and its route (core/hardening.py, in the  *)
(* order main.py stacks it): the limiter of the expensive operations, the  *)
(* limit on JSON bodies, the origin check of cookie sessions and the       *)
(* desktop token.  The users of a session are known only behind all of     *)
(* them, in the route.                                                     *)
(*                                                                         *)
(* A request is [at, method, path, client, origin, large, token]: its time *)
(* in seconds, its client [cookie, bearer, host], whether its origin is    *)
(* none, allowed or foreign, whether it announces a JSON body over the     *)
(* limit, and whether it carries the launch token.                         *)
(***************************************************************************)
EXTENDS Naturals, Sequences, FiniteSets, SequencesExt

CONSTANTS Nobody,    \* no cookie, no bearer token, no bucket
          Window,    \* 60 seconds
          Limit,     \* requests of a key per window
          MapLimit   \* windows kept before the expired ones are dropped

ASSUME LimitAssumption == {Window, Limit} \subseteq Nat \ {0} /\ MapLimit \in Nat

\* Definitions called Mutant... are wrong on purpose, as in ResearchLedger.

Buckets == [ingest |-> "ingestion", extract |-> "ai", verify |-> "ai",
            messages |-> "chat", runs |-> "research"]

Bucket(r) ==
  IF r.method = "POST" /\ r.path \in DOMAIN Buckets THEN Buckets[r.path] ELSE Nobody

\* A session counts the same whether a cookie or a bearer token carries it.
ClientKey(r) ==
  IF r.client.cookie # Nobody THEN <<"session", r.client.cookie>>
  ELSE IF r.client.bearer # Nobody THEN <<"session", r.client.bearer>>
  ELSE <<"host", r.client.host>>

Key(r) == <<Bucket(r), ClientKey(r)>>

\* An expired window is counted from zero again but keeps its start.
MutantCurrent(windows, r) ==
  IF Key(r) \notin DOMAIN windows THEN [start |-> r.at, count |-> 0]
  ELSE IF r.at - windows[Key(r)].start < Window THEN windows[Key(r)]
  ELSE [windows[Key(r)] EXCEPT !.count = 0]

\* The window a request falls into: one opens with the first request after
\* the last one expired.
Current(windows, r) ==
  IF Key(r) \in DOMAIN windows /\ r.at - windows[Key(r)].start < Window
    THEN windows[Key(r)] ELSE [start |-> r.at, count |-> 0]

\* Too many windows: the expired ones are dropped.
Pruned(windows, now) ==
  IF Cardinality(DOMAIN windows) <= MapLimit THEN windows
  ELSE [k \in {k \in DOMAIN windows : now - windows[k].start < Window} |-> windows[k]]

Counted(windows, r) ==
  LET w == Current(windows, r)
  IN Pruned([k \in DOMAIN windows \cup {Key(r)} |->
               IF k = Key(r) THEN [w EXCEPT !.count = @ + 1] ELSE windows[k]], r.at)

Changing == {"POST", "PUT", "PATCH", "DELETE"}
Unguarded == {"health", "capabilities", "docs"}

\* What the gates behind the limiter say; they keep no state.
Gated(app, r) ==
  IF r.large THEN "too_large"
  ELSE IF r.method \in Changing /\ r.client.cookie # Nobody /\ r.origin = "foreign"
    THEN "foreign_origin"
  ELSE IF app.desktop /\ r.method # "OPTIONS" /\ r.path \notin Unguarded /\ ~r.token
    THEN "no_token"
  ELSE "routed"

\* A request the limiter refuses leaves the windows as they are; one that a
\* later gate refuses has been counted.
Handle(app, state, r) ==
  IF ~app.limited \/ Bucket(r) = Nobody
    THEN [state EXCEPT !.answers = Append(@, Gated(app, r))]
  ELSE IF Current(state.windows, r).count >= Limit
    THEN [state EXCEPT !.answers = Append(@, "limited")]
  ELSE [windows |-> Counted(state.windows, r), answers |-> Append(state.answers, Gated(app, r))]

\* The state after each request of a sequence, the first before any.
History(app, requests) ==
  LET h[i \in 0 .. Len(requests)] ==
        IF i = 0 THEN [windows |-> <<>>, answers |-> <<>>] ELSE Handle(app, h[i - 1], requests[i])
  IN h

Answers(app, requests) == History(app, requests)[Len(requests)].answers

---------------------------------------------------------------------------
(* What the gates promise. *)

\* The limiter reads a clock that does not go back.
InOrder(requests) ==
  /\ requests \in Seq(Range(requests))
  /\ \A i \in DOMAIN requests : requests[i].at \in Nat
  /\ \A i, j \in DOMAIN requests : i < j => requests[i].at <= requests[j].at

\* However its windows open and expire and whatever other clients do, a
\* client gets fewer than twice the limit of an operation through in any span
\* of a window's length, and is only refused if it used the limit up within
\* the last one, even by requests that later gates turned away; what is not
\* limited is answered as if nothing had come before.
RateIsBounded(app, requests) ==
  LET answers == Answers(app, requests)
      Sent(from, to) == {i \in DOMAIN requests : requests[i].at \in from .. to}
  IN \A i \in DOMAIN requests :
       LET r == requests[i]
           Routed(j) == /\ answers[j] = "routed" /\ requests[j].client = r.client
                        /\ Bucket(requests[j]) = Bucket(r)
           Spent(j) == answers[j] # "limited" /\ Key(requests[j]) = Key(r)
       IN /\ app.limited /\ Bucket(r) # Nobody =>
               Cardinality({j \in Sent(r.at, r.at + Window - 1) : Routed(j)}) < 2 * Limit
          /\ answers[i] = "limited" =>
               \E from \in 0 .. r.at :
                 r.at - from < Window /\ Cardinality({j \in Sent(from, r.at) : Spent(j)}) >= Limit
          /\ answers[i] # "limited" => answers[i] = Answers(app, <<r>>)[1]
          /\ ~app.limited \/ Bucket(r) = Nobody => answers[i] # "limited"
===========================================================================
