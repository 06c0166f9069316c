------------------------------- MODULE Client -------------------------------
(***************************************************************************)
(* garam.Client (src/internal/garam/client.go) and the handshake it calls    *)
(* over (mutual_tls.go), one call at a time: calls share no connection and   *)
(* nothing but the files the pair is read from.                              *)
(*                                                                          *)
(* garam answers a call, or something in front of it does, or nobody.  Pairs *)
(* are numbered in the order the volume holds them, and 0 is none that loads. *)
(***************************************************************************)
EXTENDS Naturals, FiniteSets

CONSTANTS Payloads,  \* the definitions garam may answer, with at most one claim
          MaxPairs   \* bound: pairs the volume holds one after the other

ASSUME ClientAssumption ==
  /\ MaxPairs \in Nat \ {0}
  /\ Payloads \subseteq [agent: {"none", "a"}, claim: SUBSET {0, 1},
                         keys: SUBSET {"pin", "prefix", "other"}]

VARIABLES pair,    \* what the certificate and key files hold
          call,    \* the call under way
          reply,   \* what is on its way back
          taken,   \* garam did what the call asks
          owed,    \* a request nobody waits for is on its way to garam
          result   \* what the latest call returned

clientVars == <<pair, call, reply, taken, owed, result>>

Routes == {"list", "claim", "certificate", "report", "renew", "enroll"}

\* What garam refuses a call for, and the error Client has for it.
Refusals ==
  [list |-> {}, claim |-> {"conflict"}, certificate |-> {"notHeld"},
   report |-> {"stale", "notHeld"}, renew |-> {"tooEarly", "superseded"},
   enroll |-> {"notUsable"}]

Sentinel ==
  [conflict |-> "ErrClaimConflict", notHeld |-> "ErrAgentNotHeld", stale |-> "ErrReportStale",
   tooEarly |-> "ErrRenewalTooEarly", superseded |-> "ErrCredentialSuperseded",
   notUsable |-> "ErrTokenNotUsable", unauthenticated |-> "error", internal |-> "error"]

\* The status and kind garam answers each refusal with.
Refused ==
  [conflict        |-> [status |-> 409, kind |-> "already_exists"],
   notHeld         |-> [status |-> 403, kind |-> "permission_denied"],
   stale           |-> [status |-> 409, kind |-> "failed_precondition"],
   tooEarly        |-> [status |-> 409, kind |-> "failed_precondition"],
   superseded      |-> [status |-> 409, kind |-> "already_exists"],
   notUsable       |-> [status |-> 401, kind |-> "unauthenticated"],
   unauthenticated |-> [status |-> 401, kind |-> "unauthenticated"],
   internal        |-> [status |-> 500, kind |-> "internal"]]

Lists == {s \in SUBSET Payloads : Cardinality(s) <= 2}

NoCall == [route |-> "none", since |-> 0, shown |-> 0]

\* A reply: the body is garam's error body or not JSON at all, or an answer that
\* is whole, lacks a field, or does not decode; why is what garam meant by it.
\* This is one that is no refusal of garam's own: it has no kind and no reason.
Plain(status, body, list) ==
  [status |-> status, kind |-> "none", body |-> body, list |-> list, why |-> "none"]

NoReply == Plain(0, "none", {})

Nothing == [outcome |-> "none", why |-> "none", of |-> {}, got |-> {}]

Asked == call.route # "none"

Waiting == Asked /\ call.shown # 0

ClientTypeOK ==
  /\ pair \in 0 .. MaxPairs
  /\ call \in [route: Routes \cup {"none"}, since: 0 .. MaxPairs, shown: 0 .. MaxPairs + 1]
  /\ reply \in [status: {0, 200, 401, 403, 409, 500},
                kind: {"none"} \cup {Refused[w].kind : w \in DOMAIN Refused},
                body: {"none", "whole", "lacking", "garbled"}, list: Lists,
                why: {"none"} \cup DOMAIN Refused]
  /\ taken \in BOOLEAN /\ owed \in BOOLEAN
  /\ result.outcome \in {"none", "ok", "error"} \cup {Sentinel[w] : w \in DOMAIN Sentinel}
  /\ result.why \in {"none"} \cup DOMAIN Refused

ClientInit ==
  /\ pair \in {0, 1} /\ call = NoCall /\ reply = NoReply
  /\ taken = FALSE /\ owed = FALSE /\ result = Nothing
-----------------------------------------------------------------------------
\* The call returns.
Return(outcome, why, got) ==
  /\ call' = NoCall /\ reply' = NoReply
  /\ result' = [outcome |-> outcome, why |-> why, of |-> reply.list, got |-> got]
  /\ UNCHANGED <<pair, taken>>

Fail == Return("error", "none", {})

\* A loop calls the route.
Begin(r) ==
  /\ ~Asked
  /\ call' = [route |-> r, since |-> pair, shown |-> 0]
  /\ taken' = FALSE /\ result' = Nothing
  /\ UNCHANGED <<pair, reply, owed>>

\* Mutant: the pair of the first handshake is the one every other presents.
HandshakeHeld ==
  /\ Asked /\ ~Waiting
  /\ IF call.route = "enroll" THEN call' = [call EXCEPT !.shown = MaxPairs + 1]
     ELSE pair # 0 /\ call' = [call EXCEPT !.shown = 1]
  /\ UNCHANGED <<pair, reply, taken, owed, result>>

\* mutualTLS: each call has a connection of its own, and its handshake reads
\* the files.  The enrollment's presents no pair, which is MaxPairs + 1.
Handshake ==
  /\ Asked /\ ~Waiting
  /\ IF call.route = "enroll" THEN call' = [call EXCEPT !.shown = MaxPairs + 1]
     ELSE pair # 0 /\ call' = [call EXCEPT !.shown = pair]
  /\ UNCHANGED <<pair, reply, taken, owed, result>>

\* There is no pair to present, garam is not reached or not trusted, or the
\* request's own signature does not check: nothing was sent.
NotSent == Asked /\ ~Waiting /\ Fail /\ UNCHANGED owed

\* garam has not decided the call that returns, and still may.
MayBeOwed ==
  owed' = (owed \/ (~taken /\ (reply = NoReply \/ (reply.status = 500 /\ reply.why = "none"))))

\* Mutant: no timeout ends a call to a listener that says nothing.
TimesOutNever == FALSE /\ Fail /\ UNCHANGED owed

\* requestTimeout: whatever garam does, the call is over after thirty seconds.
TimesOut ==
  /\ Waiting
  /\ Fail /\ MayBeOwed

\* The connection breaks before the whole answer was read.
ReadFails ==
  /\ Waiting /\ reply # NoReply
  /\ Fail /\ MayBeOwed
-----------------------------------------------------------------------------
\* definition(): an agent is named, and a claim is at an epoch.
WellFormed(p) == p.agent # "none" /\ 0 \notin p.claim

\* readValues: a key under the prefix with a name is a pin, any other ignored.
readValues(keys) ==
  [tools |-> keys \cap {"pin"}, ignored |-> keys \ {"pin"}]

definition(p) == [agent |-> p.agent, claim |-> p.claim, values |-> readValues(p.keys)]

\* Mutant: a definition that is not well formed is left out of the list.
ListDefinitionsSkipping(r) ==
  Return("ok", "none", {definition(p) : p \in {q \in r.list : WellFormed(q)}})

\* ListDefinitions: one definition that is not well formed fails the list.
ListDefinitions(r) ==
  IF \A p \in r.list : WellFormed(p)
    THEN Return("ok", "none", {definition(p) : p \in r.list})
    ELSE Fail

\* What an answer below 400 decodes into.  A report has nothing to decode.
Decode(route, r) ==
  CASE route = "report" -> Return("ok", "none", {})
    [] route = "list"   -> IF r.body = "garbled" THEN Fail ELSE ListDefinitions(r)
    [] OTHER            -> IF r.body \in {"garbled", "lacking"}
                             THEN Fail ELSE Return("ok", "none", {})

\* refusalFrom: a body that is not JSON leaves the status alone.
refusalFrom(r) == [status |-> r.status, kind |-> IF r.body = "garbled" THEN "none" ELSE r.kind]

ClaimDefinition(f) == IF f.status = 409 THEN "ErrClaimConflict" ELSE "error"

\* Mutant: the kind is answered where an error is due.
IssueAgentCertificateRaw(f) == IF f.status = 403 THEN f.kind ELSE "error"

IssueAgentCertificate(f) == IF f.status = 403 THEN "ErrAgentNotHeld" ELSE "error"

\* Both of garam's refusals of a report are told apart, by kind first.
ReportProvisioningState(f) ==
  IF f.kind = "failed_precondition" THEN "ErrReportStale"
  ELSE IF f.status = 403 THEN "ErrAgentNotHeld" ELSE "error"

\* Mutant: a renewal's refusal is read off its status.
RenewIdentityByStatus(f) == IF f.status = 409 THEN "ErrRenewalTooEarly" ELSE "error"

RenewIdentity(f) ==
  CASE f.kind = "failed_precondition" -> "ErrRenewalTooEarly"
    [] f.kind = "already_exists"      -> "ErrCredentialSuperseded"
    [] OTHER                          -> "error"

Enroll(f) == IF f.status = 401 THEN "ErrTokenNotUsable" ELSE "error"

Classify(route, f) ==
  CASE route = "claim"       -> ClaimDefinition(f)
    [] route = "certificate" -> IssueAgentCertificate(f)
    [] route = "report"      -> ReportProvisioningState(f)
    [] route = "renew"       -> RenewIdentity(f)
    [] route = "enroll"      -> Enroll(f)
    [] OTHER                 -> "error"

\* Mutant: an answer is decoded whatever its status.
ReceiveUnchecked ==
  /\ Waiting /\ reply # NoReply
  /\ Decode(call.route, reply)
  /\ UNCHANGED owed

\* send reads the answer: a status from 400 on is a refusal.
Receive ==
  /\ Waiting /\ reply # NoReply
  /\ IF reply.status >= 400
       THEN Return(Classify(call.route, refusalFrom(reply)), reply.why, {})
       ELSE Decode(call.route, reply)
  /\ MayBeOwed

ClientStep == Handshake \/ NotSent \/ TimesOut \/ ReadFails \/ Receive
-----------------------------------------------------------------------------
Answer(r) == reply' = r /\ UNCHANGED <<pair, call, owed, result>>

\* garam does what is asked, and answers what may lack a field.  A list takes
\* nothing and counts as taken: it was answered by garam.
GaramTakes ==
  /\ Waiting /\ reply = NoReply /\ ~taken
  /\ taken' = TRUE
  /\ \E body \in {"whole", "lacking", "garbled"},
        list \in IF call.route = "list" THEN Lists ELSE {{}} :
       Answer(Plain(200, body, list))

\* garam refuses.  What stands in front of it may drop the body.
GaramRefuses ==
  /\ Waiting /\ reply = NoReply /\ ~taken
  /\ \E why \in Refusals[call.route] \cup {"internal"}
                \cup (IF call.route = "enroll" THEN {} ELSE {"unauthenticated"}) :
       \/ Answer([status |-> Refused[why].status, kind |-> Refused[why].kind,
                  body |-> "whole", list |-> {}, why |-> why])
       \/ Answer(Plain(Refused[why].status, "garbled", {}))
  /\ UNCHANGED taken

\* What stands in front of garam answers for it: a refusal of its own, or that
\* no answer came back from garam, which may have taken the call or yet take it.
FrontAnswers ==
  /\ Waiting /\ reply = NoReply /\ ~taken
  /\ \/ /\ \E status \in {401, 403, 409} :
             Answer(Plain(status, "garbled", {}))
        /\ UNCHANGED taken
     \/ /\ Answer(Plain(500, "garbled", {}))
        /\ taken' \in BOOLEAN

\* A request nobody waits for reaches garam, or is lost.
LateArrives == owed /\ owed' = FALSE /\ UNCHANGED <<pair, call, reply, taken, result>>

\* The kubelet projects a pair a person or the store wrote.
PairReplaced ==
  /\ pair < MaxPairs /\ pair' = pair + 1
  /\ UNCHANGED <<call, reply, taken, owed, result>>

GaramStep == GaramTakes \/ GaramRefuses \/ FrontAnswers \/ LateArrives \/ PairReplaced
-----------------------------------------------------------------------------
\* A call that succeeded was taken by garam, one refused with an error of its
\* own was not, and one that failed otherwise may have been, or may yet be:
\* what the models of the loops take of a call is what Client and send do.
Promised == INSTANCE Call WITH
  asked <- Asked, taken <- taken, owed <- owed,
  outcome <- CASE result.outcome \in {"none", "ok"} -> result.outcome
               [] result.outcome = "error" -> "failed"
               [] OTHER -> "refused"

ImplementsCall == Promised!Spec

\* A refusal whose body arrives is told apart from the others garam answers
\* with the same status, and the three errors that say what the loop should do
\* next, stale, too early and superseded, are garam's own word.
RefusalsToldApart ==
  /\ result.why # "none" => result.outcome = Sentinel[result.why]
  /\ result.outcome \in {"ErrReportStale", "ErrRenewalTooEarly", "ErrCredentialSuperseded"}
       => result.why # "none"

\* ListDefinitions answers every definition garam did or fails: the loops see no
\* list with one left out, one that names no agent or one claimed at no epoch,
\* and every value key is a pin or a name that is reported.
ListWhole ==
  result.outcome = "ok" =>
    /\ \A p \in result.of : \E d \in result.got :
         /\ d.agent = p.agent /\ d.claim = p.claim
         /\ d.values.tools \cup d.values.ignored = p.keys
    /\ \A d \in result.got : d.agent # "none" /\ 0 \notin d.claim

\* A call presents the pair the volume held when it began or a newer one:
\* connections are not kept, so every handshake reads the files.
PresentsCurrent == Waiting => call.shown >= call.since

\* No call holds its loop for good, whether or not anything answers it.
CallsReturn == Asked ~> ~Asked
=============================================================================
