---------------------------- MODULE StartupProofs ----------------------------
(***************************************************************************)
(* What TLAPS proves of Startup, and so of Client, for any definitions garam *)
(* may answer, any number of pairs, stops and changes of the trust file: a   *)
(* call is what the models of the loops take it for, and a process asks for  *)
(* nothing it could not keep.                                                *)
(***************************************************************************)
EXTENDS Startup, FiniteSetTheorems, TLAPS

\* The reasons garam has to refuse a call of a route.
Reasons(route) ==
  Refusals[route] \cup {"internal"} \cup (IF route = "enroll" THEN {} ELSE {"unauthenticated"})

\* The inductive invariant of a call: what is on its way back was meant by garam
\* as its status and kind say, and says whether garam took the call.
CInv ==
  /\ (~Asked => call = NoCall /\ reply = NoReply)
  /\ (Asked => result = Nothing)
  /\ (reply # NoReply => Waiting /\ reply.status # 0)
  /\ (reply.status = 200 => taken = TRUE)
  /\ (reply.status \in {401, 403, 409} => taken = FALSE)
  /\ (reply.list # {} => call.route = "list")
  /\ (reply.why = "none" => reply.kind = "none")
  /\ (reply.why # "none" => reply.why \in Reasons(call.route))
  /\ (reply.why # "none" => reply.body = "whole")
  /\ (reply.why # "none" => reply.status = Refused[reply.why].status)
  /\ (reply.why # "none" => reply.kind = Refused[reply.why].kind)
  /\ call.since <= pair
  /\ (Waiting => call.shown >= call.since)

\* No definitions at all is a list garam may answer.
LEMMA EmptyList == {} \in Lists
  BY FS_EmptySet, SMT DEF Lists

\* Whatever the route, an answer from 400 on is classified as one of the errors
\* there are; the refusal garam meant is the one returned; the three that tell
\* the loop what to do are garam's own; and a 500 is never a refusal.
LEMMA Classified ==
  ASSUME ClientTypeOK, CInv, Waiting, reply.status >= 400
  PROVE  LET o == Classify(call.route, refusalFrom(reply)) IN
           /\ o \in {"error"} \cup {Sentinel[w] : w \in DOMAIN Sentinel}
           /\ o \notin {"none", "ok"}
           /\ (reply.why # "none" => o = Sentinel[reply.why])
           /\ (o \in {"ErrReportStale", "ErrRenewalTooEarly", "ErrCredentialSuperseded"}
                 => reply.why # "none")
           /\ (reply.status = 500 => o = "error")
<1> DEFINE f == refusalFrom(reply)
           o == Classify(call.route, f)
<1>1. call.route \in Routes
  BY DEF Waiting, Asked, ClientTypeOK
<1>2. reply.status \in {401, 403, 409, 500}
  BY DEF ClientTypeOK
<1>3. f.status = reply.status /\ f.kind = IF reply.body = "garbled" THEN "none" ELSE reply.kind
  BY DEF refusalFrom
<1>4. CASE reply.why = "none"
  <2>1. f.kind = "none"
    BY <1>3, <1>4 DEF CInv
  <2> HIDE DEF f
  <2>2. /\ o = "error" \/ o \in {"ErrClaimConflict", "ErrAgentNotHeld", "ErrTokenNotUsable"}
        /\ (reply.status = 500 => o = "error")
    BY <1>1, <1>2, <1>3, <2>1 DEF Classify, Routes, ClaimDefinition, IssueAgentCertificate,
       ReportProvisioningState, RenewIdentity, Enroll
  <2>3. /\ Sentinel["conflict"] = "ErrClaimConflict" /\ Sentinel["notHeld"] = "ErrAgentNotHeld"
        /\ Sentinel["notUsable"] = "ErrTokenNotUsable"
        /\ {"conflict", "notHeld", "notUsable"} \subseteq DOMAIN Sentinel
    BY DEF Sentinel
  <2> HIDE DEF o
  <2>4. o \in {"error"} \cup {Sentinel[w] : w \in DOMAIN Sentinel}
    BY <2>2, <2>3
  <2> QED
    BY <1>4, <2>2, <2>4 DEF o, f
<1>5. CASE reply.why # "none"
  <2>1. /\ reply.why \in Reasons(call.route) /\ f.kind = Refused[reply.why].kind
        /\ f.status = Refused[reply.why].status
    BY <1>3, <1>5 DEF CInv
  <2> HIDE DEF f
  <2>2. o = Sentinel[reply.why] /\ (reply.status = 500 => o = "error")
        /\ reply.why \in DOMAIN Sentinel /\ o \notin {"none", "ok"}
    <3>1. \/ reply.why \in {"internal", "unauthenticated"}
          \/ call.route = "claim" /\ reply.why = "conflict"
          \/ call.route = "certificate" /\ reply.why = "notHeld"
          \/ call.route = "report" /\ reply.why \in {"stale", "notHeld"}
          \/ call.route = "renew" /\ reply.why \in {"tooEarly", "superseded"}
          \/ call.route = "enroll" /\ reply.why = "notUsable"
      BY <1>1, <2>1 DEF Reasons, Routes, Refusals
    <3>2. call.route = "enroll" => reply.why # "unauthenticated"
      BY <2>1 DEF Reasons, Refusals
    <3>3. reply.why \in {"internal", "unauthenticated"}
            => o = "error" /\ Sentinel[reply.why] = "error"
      <4>1. CASE reply.why = "internal"
        BY <1>1, <2>1, <4>1 DEF Routes, Refused, Sentinel, Classify, ClaimDefinition,
           IssueAgentCertificate, ReportProvisioningState, RenewIdentity, Enroll
      <4>2. CASE reply.why = "unauthenticated"
        BY <1>1, <2>1, <3>2, <4>2 DEF Routes, Refused, Sentinel, Classify, ClaimDefinition,
           IssueAgentCertificate, ReportProvisioningState, RenewIdentity
      <4> QED
        BY <4>1, <4>2
    <3>4. reply.why \notin {"internal", "unauthenticated"}
            => o = Sentinel[reply.why] /\ o \notin {"none", "ok"} /\ f.status # 500
      <4>1. CASE call.route = "claim" /\ reply.why = "conflict"
        BY <2>1, <4>1 DEF Refused, Sentinel, Classify, ClaimDefinition
      <4>2. CASE call.route = "certificate" /\ reply.why = "notHeld"
        BY <2>1, <4>2 DEF Refused, Sentinel, Classify, IssueAgentCertificate
      <4>3. CASE call.route = "report" /\ reply.why \in {"stale", "notHeld"}
        BY <2>1, <4>3 DEF Refused, Sentinel, Classify, ReportProvisioningState
      <4>4. CASE call.route = "renew" /\ reply.why \in {"tooEarly", "superseded"}
        BY <2>1, <4>4 DEF Refused, Sentinel, Classify, RenewIdentity
      <4>5. CASE call.route = "enroll" /\ reply.why = "notUsable"
        BY <2>1, <4>5 DEF Refused, Sentinel, Classify, Enroll
      <4> HIDE DEF o
      <4> QED
        BY <3>1, <4>1, <4>2, <4>3, <4>4, <4>5
    <3>5. reply.why \in DOMAIN Sentinel
      BY <3>1 DEF Sentinel
    <3> HIDE DEF o
    <3> QED
      BY <1>3, <3>3, <3>4, <3>5
  <2> HIDE DEF o
  <2> QED
    BY <1>5, <2>2 DEF o, f
<1> QED
  BY <1>4, <1>5

\* What may be owed after a call returns is owed already or was not decided.
LEMMA Owed ==
  ASSUME taken \in BOOLEAN, owed \in BOOLEAN, MayBeOwed
  PROVE  /\ owed' \in BOOLEAN
         /\ owed' = owed \/ (~taken /\ owed' = TRUE)
         /\ (taken \/ reply.status \in {401, 403, 409} => owed' = owed)
<1> DEFINE P == ~taken /\ (reply = NoReply \/ (reply.status = 500 /\ reply.why = "none"))
<1>1. owed' = (owed \/ P)
  BY DEF MayBeOwed
<1>2. P => ~taken /\ reply.status \notin {401, 403, 409}
  BY DEF NoReply, Plain
<1> HIDE DEF P
<1>3. owed' \in BOOLEAN
  BY <1>1, Zenon
<1>4. CASE P
  <2>1. owed' = TRUE
    BY <1>1, <1>4, Zenon
  <2>2. ~taken /\ ~(taken \/ reply.status \in {401, 403, 409})
    BY <1>2, <1>4
  <2>3. ~taken /\ owed' = TRUE
    BY <2>1, <2>2, Zenon
  <2>4. taken \/ reply.status \in {401, 403, 409} => owed' = owed
    BY <2>2, Zenon
  <2> QED
    BY <1>3, <2>3, <2>4, Zenon
<1>5. CASE ~P
  <2>1. owed' = owed
    BY <1>1, <1>5, Zenon
  <2> QED
    BY <1>3, <2>1
<1> QED
  BY <1>4, <1>5, Zenon

\* The ways a call returns: with what garam answered, with a refusal garam did
\* not take the call for, or with an error that says nothing about garam.
Ends(o, w, g) ==
  /\ Asked /\ Return(o, w, g) /\ owed' \in BOOLEAN
  /\ \/ o = "ok" /\ taken /\ owed' = owed
     \/ o = "error" /\ (owed' = owed \/ (~taken /\ owed' = TRUE))
     \/ o \notin {"none", "ok", "error"} /\ ~taken /\ owed' = owed
  /\ o \in {"ok", "error"} \cup {Sentinel[v] : v \in DOMAIN Sentinel}
  /\ w = reply.why \/ (w = "none" /\ o \in {"ok", "error"})
  /\ (w # "none" => o = Sentinel[w])
  /\ (o \in {"ErrReportStale", "ErrRenewalTooEarly", "ErrCredentialSuperseded"} => w # "none")
  /\ (o = "ok" => \/ reply.list = {} /\ g = {}
                  \/ /\ g = {definition(p) : p \in reply.list}
                     /\ \A p \in reply.list : WellFormed(p))

\* A call that fails without an answer, or stops with its process, ends so.
LEMMA FailEnds ==
  ASSUME ClientTypeOK, Asked, Fail, MayBeOwed \/ owed' = owed
  PROVE  Ends("error", "none", {})
<1>1. owed' \in BOOLEAN /\ (owed' = owed \/ (~taken /\ owed' = TRUE))
  <2>1. taken \in BOOLEAN /\ owed \in BOOLEAN
    BY DEF ClientTypeOK
  <2>2. CASE MayBeOwed
    BY <2>1, <2>2, Owed, Zenon
  <2>3. CASE owed' = owed
    BY <2>1, <2>3, Zenon
  <2> QED
    BY <2>2, <2>3, Zenon
<1> QED
  BY <1>1 DEF Ends, Fail

\* An answer that is received ends the call so.
LEMMA ReceiveEnds ==
  ASSUME ClientTypeOK, CInv, Receive
  PROVE  \E o, w, g : Ends(o, w, g)
<1>1. Asked /\ Waiting /\ reply # NoReply /\ MayBeOwed
  BY DEF Receive, Waiting
<1>2. taken \in BOOLEAN /\ owed \in BOOLEAN
  BY DEF ClientTypeOK
<1>3. CASE reply.status >= 400
  <2> DEFINE o == Classify(call.route, refusalFrom(reply))
  <2>1. Return(o, reply.why, {})
    BY <1>3 DEF Receive
  <2>2. /\ o \in {"error"} \cup {Sentinel[w] : w \in DOMAIN Sentinel}
        /\ o \notin {"none", "ok"}
        /\ (reply.why # "none" => o = Sentinel[reply.why])
        /\ (o \in {"ErrReportStale", "ErrRenewalTooEarly", "ErrCredentialSuperseded"}
              => reply.why # "none")
        /\ (reply.status = 500 => o = "error")
    BY <1>1, <1>3, Classified
  <2>3. reply.status \in {401, 403, 409, 500}
    BY <1>3 DEF ClientTypeOK
  <2> HIDE DEF o
  <2>4. /\ owed' \in BOOLEAN
        /\ \/ o = "error" /\ (owed' = owed \/ (~taken /\ owed' = TRUE))
           \/ o \notin {"none", "ok", "error"} /\ ~taken /\ owed' = owed
    <3>1. /\ owed' \in BOOLEAN
          /\ owed' = owed \/ (~taken /\ owed' = TRUE)
          /\ (taken \/ reply.status \in {401, 403, 409} => owed' = owed)
      BY <1>1, <1>2, Owed, Zenon
    <3>2. CASE o = "error"
      BY <3>1, <3>2
    <3>3. CASE o # "error"
      <4>1. reply.status \in {401, 403, 409}
        BY <2>2, <2>3, <3>3
      <4>2. taken = FALSE
        BY <4>1 DEF CInv
      <4> QED
        BY <2>2, <3>1, <3>3, <4>1, <4>2
    <3> QED
      BY <3>2, <3>3, Zenon
  <2>5. Ends(o, reply.why, {})
    BY <1>1, <2>1, <2>2, <2>4 DEF Ends
  <2> QED
    BY <2>5
<1>4. CASE ~(reply.status >= 400)
  <2>1. taken
    BY <1>1, <1>4 DEF CInv, ClientTypeOK
  <2>2. owed' = owed /\ owed' \in BOOLEAN
    BY <1>1, <1>2, <2>1, Owed
  <2>3. Decode(call.route, reply)
    BY <1>4 DEF Receive
  <2>4. \/ Fail
        \/ call.route # "list" /\ Return("ok", "none", {})
        \/ /\ \A p \in reply.list : WellFormed(p)
           /\ Return("ok", "none", {definition(p) : p \in reply.list})
    BY <2>3 DEF Decode, ListDefinitions
  <2>5. CASE Fail
    BY <1>1, <2>2, <2>5, FailEnds
  <2>6. CASE call.route # "list" /\ Return("ok", "none", {})
    <3>1. reply.list = {}
      BY <2>6 DEF CInv
    <3>2. Ends("ok", "none", {})
      BY <1>1, <2>1, <2>2, <2>6, <3>1 DEF Ends
    <3> QED
      BY <3>2
  <2>7. CASE /\ \A p \in reply.list : WellFormed(p)
             /\ Return("ok", "none", {definition(p) : p \in reply.list})
    <3>1. Ends("ok", "none", {definition(p) : p \in reply.list})
      BY <1>1, <2>1, <2>2, <2>7 DEF Ends
    <3> QED
      BY <3>1
  <2> QED
    BY <2>4, <2>5, <2>6, <2>7
<1> QED
  BY <1>3, <1>4

\* Every step of the process ends a call, is one of the others of Client, or
\* leaves Client alone.
LEMMA ClientSteps ==
  ASSUME TypeOK, CInv, [Next]_vars
  PROVE  \/ \E o, w, g : Ends(o, w, g)
         \/ \E r \in Routes : Begin(r)
         \/ Handshake
         \/ GaramStep
         \/ UNCHANGED clientVars
<1> USE DEF TypeOK
<1>1. CASE Main \/ Restarted \/ TrustChanged \/ UNCHANGED vars
  BY <1>1 DEF Main, Boot, ConfigureTLS, AddLoops, AddEnroller, Start, Restarted, TrustChanged, vars
<1>2. CASE Stop
  BY <1>2, FailEnds DEF Stop
<1>3. CASE Called
  <2>1. PICK l \in added : \E r \in RoutesOf[l] : Begin(r)
    BY <1>3 DEF Called
  <2>2. RoutesOf[l] \subseteq Routes
    BY DEF TypeOK, Loops, RoutesOf, Routes
  <2> QED
    BY <2>1, <2>2
<1>4. CASE Calling
  <2>1. CASE NotSent
    BY <2>1, FailEnds DEF NotSent
  <2>2. CASE TimesOut \/ ReadFails
    BY <2>2, FailEnds DEF TimesOut, ReadFails, Waiting
  <2>3. CASE Receive
    BY <2>3, ReceiveEnds
  <2> QED
    BY <1>4, <2>1, <2>2, <2>3 DEF Calling, ClientStep
<1>5. CASE Outside
  BY <1>5 DEF Outside
<1> QED
  BY <1>1, <1>2, <1>3, <1>4, <1>5 DEF Next
-----------------------------------------------------------------------------
\* The answers there are, among them those of garam and of what is before it.
Replies ==
  [status: {0, 200, 401, 403, 409, 500},
   kind: {"none"} \cup {Refused[w].kind : w \in DOMAIN Refused},
   body: {"none", "whole", "lacking", "garbled"}, list: Lists, why: {"none"} \cup DOMAIN Refused]

LEMMA RepliesTyped ==
  ASSUME NEW status \in {0, 200, 401, 403, 409, 500}, NEW l \in Lists,
         NEW body \in {"none", "whole", "lacking", "garbled"}
  PROVE  Plain(status, body, l) \in Replies
  BY DEF Plain, Replies

\* What garam refuses a call for has a status and a kind.
LEMMA RefusedTyped ==
  ASSUME NEW route \in Routes, NEW why \in Reasons(route)
  PROVE  why \in DOMAIN Refused /\ why # "none" /\ Refused[why].status \in {401, 403, 409, 500}
<1>1. why \in {"conflict", "notHeld", "stale", "tooEarly", "superseded", "notUsable",
               "unauthenticated", "internal"}
  BY DEF Reasons, Refusals, Routes
<1> QED
  BY <1>1 DEF Refused

\* The answer garam, or what is before it, gives is one of them.
LEMMA Answered ==
  ASSUME ClientTypeOK, GaramTakes \/ GaramRefuses \/ FrontAnswers
  PROVE  /\ reply' \in Replies /\ taken' \in BOOLEAN
         /\ UNCHANGED <<pair, call, owed, result>>
<1>t. taken \in BOOLEAN /\ (Waiting => call.route \in Routes)
  BY DEF ClientTypeOK, Waiting, Asked
<1>1. CASE GaramTakes
  <2>1. PICK body \in {"whole", "lacking", "garbled"},
             l \in IF call.route = "list" THEN Lists ELSE {{}} :
          Answer(Plain(200, body, l))
    BY <1>1 DEF GaramTakes
  <2>2. l \in Lists
    BY EmptyList
  <2>3. Plain(200, body, l) \in Replies
    BY <2>2, RepliesTyped
  <2>4. taken' = TRUE
    BY <1>1 DEF GaramTakes
  <2> QED
    BY <2>1, <2>3, <2>4 DEF Answer
<1>2. CASE GaramRefuses
  <2>1. PICK why \in Reasons(call.route) :
          \/ Answer([status |-> Refused[why].status, kind |-> Refused[why].kind,
                     body |-> "whole", list |-> {}, why |-> why])
          \/ Answer(Plain(Refused[why].status, "garbled", {}))
    BY <1>2, Zenon DEF GaramRefuses, Reasons
  <2>2. why \in DOMAIN Refused /\ Refused[why].status \in {401, 403, 409, 500}
    BY <1>2, <1>t, RefusedTyped DEF GaramRefuses
  <2> DEFINE given == [status |-> Refused[why].status, kind |-> Refused[why].kind,
                       body |-> "whole", list |-> {}, why |-> why]
  <2>3. given \in Replies
    BY <2>2, EmptyList DEF Replies
  <2>4. Plain(Refused[why].status, "garbled", {}) \in Replies
    BY <2>2, RepliesTyped, EmptyList
  <2>5. Answer(given) \/ Answer(Plain(Refused[why].status, "garbled", {}))
    BY <2>1
  <2> HIDE DEF given
  <2> QED
    BY <1>2, <1>t, <2>3, <2>4, <2>5 DEF GaramRefuses, Answer
<1>3. CASE FrontAnswers
  <2>1. PICK status \in {401, 403, 409, 500} :
          Answer(Plain(status, "garbled", {}))
    BY <1>3 DEF FrontAnswers
  <2>2. Plain(status, "garbled", {}) \in Replies
    BY RepliesTyped, EmptyList
  <2>3. taken' \in BOOLEAN
    BY <1>3, <1>t DEF FrontAnswers
  <2> QED
    BY <2>1, <2>2, <2>3 DEF Answer
<1> QED
  BY <1>1, <1>2, <1>3

\* Every step keeps the types of Client.
LEMMA ClientTypeKept ==
  ASSUME TypeOK, CInv, [Next]_vars
  PROVE  ClientTypeOK'
<1> USE ClientAssumption DEF Replies
<1>1. ClientTypeOK /\ pair \in Nat
  BY DEF TypeOK, ClientTypeOK
<1>2. NoReply \in Replies
  BY RepliesTyped, EmptyList DEF NoReply
<1>3. ASSUME NEW o, NEW w, NEW g, Ends(o, w, g)
      PROVE  ClientTypeOK'
  BY <1>1, <1>2, <1>3 DEF Ends, Return, ClientTypeOK, NoCall
<1>4. ASSUME NEW r \in Routes, Begin(r)
      PROVE  ClientTypeOK'
  <2>1. call' \in [route: Routes \cup {"none"}, since: 0 .. MaxPairs, shown: 0 .. MaxPairs + 1]
    BY <1>1, <1>4 DEF Begin, ClientTypeOK
  <2>2. result'.outcome = "none" /\ result'.why = "none"
    BY <1>4 DEF Begin, Nothing
  <2>3. taken' \in BOOLEAN /\ owed' \in BOOLEAN
    <3>1. owed \in BOOLEAN /\ taken' = FALSE /\ owed' = owed
      BY <1>1, <1>4 DEF Begin, ClientTypeOK
    <3> QED
      BY <3>1, Zenon
  <2> QED
    BY <1>1, <1>4, <2>1, <2>2, <2>3 DEF Begin, ClientTypeOK
<1>5. CASE Handshake
  BY <1>1, <1>5 DEF Handshake, ClientTypeOK
<1>6. CASE GaramTakes \/ GaramRefuses \/ FrontAnswers
  BY <1>1, <1>6, Answered DEF ClientTypeOK
<1>7. CASE LateArrives
  <2>1. owed' \in BOOLEAN
    BY <1>7, Zenon DEF LateArrives
  <2> QED
    BY <1>1, <1>7, <2>1 DEF LateArrives, ClientTypeOK
<1>8. CASE PairReplaced
  BY <1>1, <1>8 DEF PairReplaced, ClientTypeOK
<1>9. CASE UNCHANGED clientVars
  BY <1>1, <1>9 DEF clientVars, ClientTypeOK
<1> QED
  BY <1>3, <1>4, <1>5, <1>6, <1>7, <1>8, <1>9, ClientSteps DEF GaramStep

\* Every step keeps what is known of a call and of its answer.
LEMMA CInvKept ==
  ASSUME TypeOK, CInv, [Next]_vars
  PROVE  CInv'
<1>t. ClientTypeOK
  BY DEF TypeOK
<1>1. ASSUME NEW o, NEW w, NEW g, Ends(o, w, g)
      PROVE  CInv'
  <2>1. call' = NoCall /\ reply' = NoReply /\ pair' = pair
    BY <1>1 DEF Ends, Return
  <2> QED
    BY <1>t, <2>1 DEF CInv, NoCall, NoReply, Plain, Asked, Waiting, ClientTypeOK
<1>2. ASSUME NEW r \in Routes, Begin(r)
      PROVE  CInv'
  BY <1>t, <1>2 DEF Begin, CInv, Asked, Waiting, NoCall, NoReply, Plain, Routes, ClientTypeOK
<1>3. CASE Handshake
  <2>1. /\ Asked /\ ~Waiting /\ reply' = reply /\ pair' = pair
        /\ taken' = taken /\ result' = result
        /\ call'.route = call.route /\ call'.since = call.since
        /\ call'.shown \in {pair, MaxPairs + 1}
    BY <1>t, <1>3 DEF Handshake, ClientTypeOK
  <2>2. pair \in Nat /\ call.since \in Nat /\ pair <= MaxPairs /\ call.since <= MaxPairs
    BY <1>t, ClientAssumption DEF ClientTypeOK
  <2>3. reply = NoReply
    BY <2>1 DEF CInv
  <2>4. call'.shown >= call'.since
    BY <2>1, <2>2, ClientAssumption DEF CInv
  <2> QED
    BY <2>1, <2>3, <2>4 DEF CInv, Asked, Waiting, NoReply, Plain
<1>4. CASE GaramTakes
  <2>1. PICK body \in {"whole", "lacking", "garbled"},
             list \in IF call.route = "list" THEN Lists ELSE {{}} :
          Answer(Plain(200, body, list))
    BY <1>4 DEF GaramTakes
  <2>2. /\ reply'.status = 200 /\ reply'.kind = "none" /\ reply'.why = "none"
        /\ (reply'.list # {} => call.route = "list")
    BY <2>1 DEF Answer, Plain
  <2>3. Waiting /\ taken' = TRUE /\ UNCHANGED <<pair, call, result>>
    BY <1>4 DEF GaramTakes, Answer
  <2> QED
    BY <2>2, <2>3 DEF CInv, Asked, Waiting
<1>5. CASE GaramRefuses
  <2>1. PICK why \in Reasons(call.route) :
          \/ reply' = [status |-> Refused[why].status, kind |-> Refused[why].kind,
                       body |-> "whole", list |-> {}, why |-> why]
          \/ reply' = Plain(Refused[why].status, "garbled", {})
    BY <1>5 DEF GaramRefuses, Answer, Reasons
  <2>2. Waiting /\ ~taken /\ UNCHANGED <<pair, call, result, taken>>
    BY <1>5 DEF GaramRefuses, Answer
  <2>3. Refused[why].status \in {401, 403, 409, 500} /\ why # "none"
    BY <1>t, <2>1, <2>2, RefusedTyped DEF ClientTypeOK, Waiting, Asked
  <2>4. CASE reply' = [status |-> Refused[why].status, kind |-> Refused[why].kind,
                       body |-> "whole", list |-> {}, why |-> why]
    BY <2>1, <2>2, <2>3, <2>4 DEF CInv, Asked, Waiting
  <2>5. CASE reply' = Plain(Refused[why].status, "garbled", {})
    <3>1. /\ reply'.status = Refused[why].status /\ reply'.list = {}
          /\ reply'.kind = "none" /\ reply'.why = "none"
      BY <2>5 DEF NoReply, Plain
    <3>2. reply'.status \in {401, 403, 409, 500}
      BY <2>3, <3>1
    <3> QED
      BY <2>2, <3>1, <3>2 DEF CInv, Asked, Waiting
  <2> QED
    BY <2>1, <2>4, <2>5
<1>6. CASE FrontAnswers
  <2>1. PICK status \in {401, 403, 409, 500} :
          /\ reply' = Plain(status, "garbled", {})
          /\ (status # 500 => UNCHANGED taken)
    BY <1>6 DEF FrontAnswers, Answer
  <2>2. /\ reply'.status = status /\ reply'.list = {}
        /\ reply'.kind = "none" /\ reply'.why = "none"
    BY <2>1 DEF NoReply, Plain
  <2>3. Waiting /\ ~taken /\ UNCHANGED <<pair, call, result>>
    BY <1>6 DEF FrontAnswers, Answer
  <2> QED
    BY <2>1, <2>2, <2>3 DEF CInv, Asked, Waiting
<1>7. CASE LateArrives \/ PairReplaced
  BY <1>t, <1>7 DEF LateArrives, PairReplaced, CInv, Asked, Waiting, ClientTypeOK
<1>8. CASE UNCHANGED clientVars
  BY <1>8 DEF clientVars, CInv, Asked, Waiting
<1> QED
  BY <1>1, <1>2, <1>3, <1>4, <1>5, <1>6, <1>7, <1>8, ClientSteps DEF GaramStep

\* Every step keeps the types.
LEMMA TypeKept ==
  ASSUME TypeOK, CInv, [Next]_vars
  PROVE  TypeOK'
<1> USE StartupAssumption
<1>1. ClientTypeOK'
  BY ClientTypeKept
<1>2. CASE Main
  BY <1>1, <1>2, Zenon DEF Main, Boot, ConfigureTLS, AddLoops, AddEnroller, Start, Exit, ProceedTo,
                    TypeOK, Loops, fileVars
<1>3. CASE Restarted
  BY <1>1, <1>3 DEF Restarted, TypeOK, fileVars
<1>6. CASE Stop
  <2>1. stops' \in 0 .. MaxStops
    BY <1>6 DEF Stop, TypeOK
  <2>2. process' = "down" /\ added' = {} /\ UNCHANGED <<flags, trust, trustChanges>>
    BY <1>6 DEF Stop, Exit, fileVars
  <2> QED
    BY <1>1, <2>1, <2>2 DEF TypeOK
<1>5. CASE TrustChanged
  <2>1. trust' \in BOOLEAN
    BY <1>5, Zenon DEF TrustChanged
  <2>2. trustChanges' \in 0 .. MaxTrustChanges
    BY <1>5 DEF TrustChanged, TypeOK
  <2> QED
    BY <1>1, <1>5, <2>1, <2>2 DEF TrustChanged, TypeOK
<1>4. CASE Called \/ Calling \/ Outside \/ UNCHANGED vars
  BY <1>1, <1>4 DEF Called, Calling, Outside, vars, TypeOK, fileVars
<1> QED
  BY <1>2, <1>3, <1>4, <1>5, <1>6 DEF Next

\* Both hold of every reachable state.
LEMMA InvHolds == Spec => [](TypeOK /\ CInv)
<1>1. Init => TypeOK /\ CInv
  <2> SUFFICES ASSUME Init PROVE TypeOK /\ CInv
    OBVIOUS
  <2> USE ClientAssumption, StartupAssumption, EmptyList
  <2>1. ClientTypeOK
    <3>1. taken \in BOOLEAN /\ owed \in BOOLEAN
      BY Zenon DEF Init, ClientInit
    <3>2. reply \in Replies
      BY RepliesTyped DEF Init, ClientInit, NoReply
    <3>3. /\ pair \in 0 .. MaxPairs
          /\ call \in [route: Routes \cup {"none"}, since: 0 .. MaxPairs, shown: 0 .. MaxPairs + 1]
      BY DEF Init, ClientInit, NoCall
    <3> QED
      BY <3>1, <3>2, <3>3 DEF Init, ClientInit, ClientTypeOK, Replies, Nothing
  <2>2. TypeOK
    BY <2>1 DEF Init, TypeOK
  <2>3. CInv
    BY <2>1 DEF Init, ClientInit, ClientTypeOK, CInv, NoCall, NoReply, Plain, Asked, Waiting
  <2> QED
    BY <2>2, <2>3
<1>2. TypeOK /\ CInv /\ [Next]_vars => (TypeOK /\ CInv)'
  BY TypeKept, CInvKept DEF TypeOK
<1> QED
  BY <1>1, <1>2, PTL DEF Spec

\* main, the client and what answers it keep their types: every answer that is
\* classified has a status and a kind there is.
THEOREM TypeCorrect == Spec => []TypeOK
  BY InvHolds, PTL
-----------------------------------------------------------------------------
\* garam takes a call.
LEMMA TakeStep ==
  ASSUME Asked, ~taken, taken' = TRUE, UNCHANGED <<call, owed, result>>
  PROVE  Promised!Take
<1>1. Asked' = Asked
  BY DEF Asked
<1> QED
  BY <1>1, Zenon DEF Promised!Take

\* A call of the client is a call as the models of the loops take it: every
\* step of the process, of garam and of what stands between them is one of
\* Call, or none of its business.
LEMMA StepImplements ==
  ASSUME TypeOK, CInv, [Next]_vars
  PROVE  [Promised!Next]_(Promised!vars)
<1>1. ASSUME NEW o, NEW w, NEW g, Ends(o, w, g)
      PROVE  Promised!Succeed \/ Promised!Refuse \/ Promised!Fail
  <2>1. Asked /\ ~Asked' /\ taken' = taken /\ result'.outcome = o
    BY <1>1 DEF Ends, Return, Asked, NoCall
  <2>2. CASE o = "ok"
    BY <1>1, <2>1, <2>2 DEF Ends, Promised!Succeed, Promised!Return
  <2>3. CASE o = "error"
    BY <1>1, <2>1, <2>3 DEF Ends, Promised!Fail, Promised!Return
  <2>4. CASE o \notin {"ok", "error"}
    BY <1>1, <2>1, <2>4 DEF Ends, Promised!Refuse, Promised!Return
  <2> QED
    BY <2>2, <2>3, <2>4
<1>2. ASSUME NEW r \in Routes, Begin(r)
      PROVE  Promised!Ask
  BY <1>2 DEF Begin, Asked, Routes, Nothing, Promised!Ask
<1>3. CASE Handshake
  <2>1. Asked /\ Asked' /\ UNCHANGED <<taken, owed, result>>
    BY <1>3 DEF Handshake, Asked, ClientTypeOK, TypeOK
  <2> QED
    BY <2>1 DEF Promised!vars
<1>4. CASE GaramTakes
  <2>1. Asked /\ ~taken /\ taken' = TRUE /\ UNCHANGED <<call, owed, result>>
    BY <1>4 DEF GaramTakes, Answer, Waiting
  <2> QED
    BY <2>1, TakeStep DEF Promised!Next
<1>5. CASE GaramRefuses \/ PairReplaced
  BY <1>5 DEF GaramRefuses, PairReplaced, Answer, Asked, Promised!vars
<1>6. CASE FrontAnswers
  <2>1. Asked /\ ~taken /\ UNCHANGED <<call, owed, result>> /\ taken' \in BOOLEAN
    BY <1>6 DEF FrontAnswers, Answer, Waiting, TypeOK, ClientTypeOK
  <2>2. CASE taken' = TRUE
    BY <2>1, <2>2, TakeStep DEF Promised!Next
  <2>3. CASE taken' = FALSE
    <3>1. taken' = taken
      <4>1. taken \in BOOLEAN
        BY DEF TypeOK, ClientTypeOK
      <4> QED
        BY <2>1, <2>3, <4>1, Zenon
    <3> QED
      BY <2>1, <3>1 DEF Asked, Promised!vars
  <2> QED
    BY <2>1, <2>2, <2>3, Zenon
<1>7. CASE LateArrives
  <2>1. Asked' = Asked
    BY <1>7 DEF LateArrives, Asked
  <2> QED
    BY <1>7, <2>1, Zenon DEF LateArrives, Promised!TakeLate, Promised!Next
<1>8. CASE UNCHANGED clientVars
  BY <1>8 DEF clientVars, Asked, Promised!vars
<1> QED
  BY <1>1, <1>2, <1>3, <1>4, <1>5, <1>6, <1>7, <1>8, ClientSteps
     DEF GaramStep, Promised!Next, TypeOK

\* Client implements Call: success was taken by garam, a refusal with an error
\* of its own was not, and a failure may have been or may yet be.
THEOREM CallKept == Spec => ImplementsCall
<1>1. Init => Promised!Init
  BY DEF Init, ClientInit, Asked, NoCall, Nothing, Promised!Init
<1>2. TypeOK /\ CInv /\ [Next]_vars => [Promised!Next]_(Promised!vars)
  BY StepImplements
<1> QED
  BY <1>1, <1>2, InvHolds, PTL DEF Spec, ImplementsCall, Promised!Spec

\* A refusal whose body arrives is returned as the error garam meant, and the
\* three that say what the loop should do next are garam's own word.
THEOREM RefusalsAreTold == Spec => []RefusalsToldApart
<1>1. Init => RefusalsToldApart
  BY DEF Init, ClientInit, Nothing, RefusalsToldApart
<1>2. ASSUME TypeOK, CInv, RefusalsToldApart, [Next]_vars
      PROVE  RefusalsToldApart'
  <2>1. ASSUME NEW o, NEW w, NEW g, Ends(o, w, g)
        PROVE  RefusalsToldApart'
    BY <2>1 DEF Ends, Return, RefusalsToldApart
  <2>2. ASSUME NEW r \in Routes, Begin(r)
        PROVE  RefusalsToldApart'
    BY <2>2 DEF Begin, Nothing, RefusalsToldApart
  <2>3. CASE Handshake \/ GaramStep \/ UNCHANGED clientVars
    BY <1>2, <2>3 DEF Handshake, GaramStep, GaramTakes, GaramRefuses, FrontAnswers, LateArrives,
                      PairReplaced, Answer, clientVars, RefusalsToldApart
  <2> QED
    BY <1>2, <2>1, <2>2, <2>3, ClientSteps DEF TypeOK
<1> QED
  BY <1>1, <1>2, InvHolds, PTL DEF Spec

\* A list the client returns is the one garam answered, whole and well formed.
THEOREM ListsAreWhole == Spec => []ListWhole
<1>1. Init => ListWhole
  BY DEF Init, ClientInit, Nothing, ListWhole
<1>2. ASSUME TypeOK, CInv, ListWhole, [Next]_vars
      PROVE  ListWhole'
  <2>1. ASSUME NEW o, NEW w, NEW g, Ends(o, w, g)
        PROVE  ListWhole'
    <3>1. /\ result'.outcome = o /\ result'.of = reply.list /\ result'.got = g
      BY <2>1 DEF Ends, Return
    <3>2. CASE o # "ok"
      BY <3>1, <3>2 DEF ListWhole
    <3>3. CASE reply.list = {} /\ g = {}
      BY <3>1, <3>3 DEF ListWhole
    <3>4. CASE /\ g = {definition(p) : p \in reply.list}
               /\ \A p \in reply.list : WellFormed(p)
      <4>1. ASSUME NEW p \in reply.list
            PROVE  /\ definition(p).agent = p.agent /\ definition(p).claim = p.claim
                   /\ definition(p).values.tools \cup definition(p).values.ignored = p.keys
                   /\ p.agent # "none" /\ 0 \notin p.claim
        BY <3>4 DEF definition, readValues, WellFormed
      <4> QED
        BY <3>1, <3>4, <4>1 DEF ListWhole
    <3> QED
      BY <2>1, <3>2, <3>3, <3>4 DEF Ends
  <2>2. ASSUME NEW r \in Routes, Begin(r)
        PROVE  ListWhole'
    BY <2>2 DEF Begin, Nothing, ListWhole
  <2>3. CASE Handshake \/ GaramStep \/ UNCHANGED clientVars
    <3>1. result' = result
      BY <2>3 DEF Handshake, GaramStep, GaramTakes, GaramRefuses, FrontAnswers, LateArrives,
                  PairReplaced, Answer, clientVars
    <3> QED
      BY <1>2, <3>1 DEF ListWhole
  <2> QED
    BY <1>2, <2>1, <2>2, <2>3, ClientSteps DEF TypeOK
<1> QED
  BY <1>1, <1>2, InvHolds, PTL DEF Spec

\* Every call presents the pair the volume held when it began, or a newer one.
THEOREM CurrentPairPresented == Spec => []PresentsCurrent
<1>1. CInv => PresentsCurrent
  BY DEF CInv, PresentsCurrent
<1> QED
  BY <1>1, InvHolds, PTL
-----------------------------------------------------------------------------
\* The inductive invariant of main: how far it has come tells what it has read
\* and added, and a call under way is one a loop that runs makes.
MInv ==
  /\ (process \in {"boot", "down"} => added = {})
  /\ (process \in {"tls", "flags"} => added = {"reconciler"})
  /\ (process = "flags" => Enrolling \/ pair # 0)
  /\ (process = "enrollment" => Enrolling)
  /\ (process \in {"start", "running"} /\ "poller" \in added
        => pair # 0 \/ "enroller" \in added)
  /\ (added \cap {"renewer", "enroller"} # {} => flags["credentialSecret"])
  /\ ("poller" \in added => flags["namespace"] /\ flags["agentImage"] /\ flags["storageSize"])
  /\ NowhereToPutIsNotAsked

\* What garam does leaves the call under way, and the pair but where it is
\* replaced.
LEMMA GaramLeaves ==
  ASSUME GaramStep
  PROVE  UNCHANGED call /\ (pair' = pair \/ PairReplaced)
<1>1. ASSUME NEW r, Answer(r)  PROVE UNCHANGED <<call, pair>>
  BY <1>1 DEF Answer
<1>2. CASE GaramTakes
  BY <1>1, <1>2 DEF GaramTakes
<1>3. CASE GaramRefuses
  BY <1>1, <1>3 DEF GaramRefuses
<1>4. CASE FrontAnswers
  BY <1>1, <1>4 DEF FrontAnswers
<1>5. CASE LateArrives \/ PairReplaced
  BY <1>5 DEF LateArrives, PairReplaced
<1> QED
  BY <1>2, <1>3, <1>4, <1>5 DEF GaramStep

\* Every step of main keeps it.
LEMMA MainKept ==
  ASSUME TypeOK, MInv, Main
  PROVE  MInv'
<1>1. UNCHANGED <<call, pair, flags>>
  BY DEF Main, Boot, ConfigureTLS, AddLoops, AddEnroller, Start, clientVars
<1>2. NowhereToPutIsNotAsked'
  BY <1>1 DEF MInv, NowhereToPutIsNotAsked
<1>3. Enrolling' = Enrolling
  BY <1>1 DEF Enrolling
<1>4. CASE Boot
  BY <1>1, <1>2, <1>3, <1>4 DEF Boot, Exit, MInv
<1>5. CASE ConfigureTLS
  BY <1>1, <1>2, <1>3, <1>5 DEF ConfigureTLS, Exit, ProceedTo, MInv
<1>6. CASE AddLoops
  BY <1>1, <1>2, <1>3, <1>6 DEF AddLoops, Exit, MInv, Enrolling
<1>7. CASE AddEnroller
  BY <1>1, <1>2, <1>3, <1>7 DEF AddEnroller, Exit, MInv, Enrolling
<1>8. CASE Start
  BY <1>1, <1>2, <1>3, <1>8 DEF Start, ProceedTo, MInv
<1> QED
  BY <1>4, <1>5, <1>6, <1>7, <1>8 DEF Main

\* Every other step keeps it too.
LEMMA OthersKeep ==
  ASSUME TypeOK, CInv, MInv, [Next]_vars, ~Main
  PROVE  MInv'
<1>1. flags' = flags /\ pair' \in {pair, pair + 1} /\ pair \in Nat
  <2>1. pair \in Nat
    BY ClientAssumption DEF TypeOK, ClientTypeOK
  <2>2. pair' = pair \/ PairReplaced
    <3>1. ASSUME NEW o, NEW w, NEW g, Ends(o, w, g)  PROVE pair' = pair
      BY <3>1 DEF Ends, Return
    <3>2. ASSUME NEW r \in Routes, Begin(r)  PROVE pair' = pair
      BY <3>2 DEF Begin
    <3> QED
      BY <3>1, <3>2, ClientSteps, GaramLeaves DEF Handshake, clientVars
  <2> QED
    BY <2>1, <2>2 DEF PairReplaced, Next, Stop, Restarted, TrustChanged, Called, Calling, Outside,
                      vars
<1>2. pair # 0 => pair' # 0
  BY <1>1
<1>3. Enrolling' = Enrolling
  BY <1>1 DEF Enrolling
<1>4. CASE Called
  <2>1. PICK l \in added : \E r \in RoutesOf[l] : Begin(r)
    BY <1>4 DEF Called
  <2>2. PICK r \in RoutesOf[l] : Begin(r)
    BY <2>1
  <2>3. call'.route = r
    BY <2>2 DEF Begin
  <2>4. /\ (r \in {"renew", "enroll"} => l \in {"renewer", "enroller"})
        /\ (r = "certificate" => l = "poller")
    BY <2>2 DEF RoutesOf, TypeOK, Loops
  <2>5. NowhereToPutIsNotAsked'
    BY <1>1, <2>3, <2>4 DEF MInv, NowhereToPutIsNotAsked
  <2> QED
    BY <1>1, <1>2, <1>3, <1>4, <2>5 DEF Called, MInv
<1>5. CASE ~Called
  <2>1. call'.route \in {call.route, "none"}
    <3>1. CASE Stop \/ Restarted \/ TrustChanged \/ UNCHANGED vars
      BY <3>1 DEF Stop, Fail, Return, NoCall, Restarted, TrustChanged, clientVars, vars
    <3>2. CASE Calling
      <4>1. CASE Handshake
        BY <4>1 DEF Handshake, TypeOK, ClientTypeOK
      <4>2. CASE NotSent \/ TimesOut \/ ReadFails
        BY <4>2 DEF NotSent, TimesOut, ReadFails, Fail, Return, NoCall
      <4>3. CASE Receive
        <5>1. PICK o, w, g : Ends(o, w, g)
          BY <4>3, ReceiveEnds DEF TypeOK
        <5> QED
          BY <5>1 DEF Ends, Return, NoCall
      <4> QED
        BY <3>2, <4>1, <4>2, <4>3 DEF Calling, ClientStep
    <3>3. CASE Outside
      BY <3>3, GaramLeaves DEF Outside
    <3> QED
      BY <1>5, <3>1, <3>2, <3>3 DEF Next
  <2>2. NowhereToPutIsNotAsked'
    BY <1>1, <2>1 DEF MInv, NowhereToPutIsNotAsked
  <2>3. CASE Stop
    BY <1>1, <1>3, <2>2, <2>3 DEF Stop, Exit, MInv
  <2>4. CASE Restarted
    BY <1>1, <1>3, <2>2, <2>4 DEF Restarted, MInv
  <2>5. CASE TrustChanged \/ Calling \/ Outside \/ UNCHANGED vars
    <3>1. UNCHANGED <<process, added>>
      BY <2>5 DEF TrustChanged, Calling, Outside, vars
    <3> QED
      BY <1>1, <1>2, <1>3, <2>2, <3>1 DEF MInv
  <2> QED
    BY <1>5, <2>3, <2>4, <2>5 DEF Next
<1> QED
  BY <1>4, <1>5

\* The invariant of main holds throughout.
LEMMA MInvHolds == Spec => []MInv
<1>1. Init => MInv
  BY DEF Init, ClientInit, NoCall, MInv, NowhereToPutIsNotAsked
<1>2. TypeOK /\ CInv /\ MInv /\ [Next]_vars => MInv'
  BY MainKept, OthersKeep
<1> QED
  BY <1>1, <1>2, InvHolds, PTL DEF Spec

\* main asks garam for nothing it has nowhere to put, whatever flags it is given
\* and however often it is restarted.
THEOREM AsksForWhatItKeeps == Spec => []NowhereToPutIsNotAsked
<1>1. MInv => NowhereToPutIsNotAsked
  BY DEF MInv
<1> QED
  BY <1>1, MInvHolds, PTL

\* A process that polls garam holds a pair or runs the Enroller that obtains one.
THEOREM PollersAuthenticate == Spec => []CallersCanAuthenticate
<1>1. MInv => CallersCanAuthenticate
  BY DEF MInv, CallersCanAuthenticate
<1> QED
  BY <1>1, MInvHolds, PTL
=============================================================================
