----------------------------- MODULE Credential -----------------------------
(***************************************************************************)
(* The credential this operator authenticates to garam with: the Enroller   *)
(* obtains the first one for a one-time token, the Renewer replaces it, the *)
(* store writes both into a Secret, and the kubelet carries the Secret into *)
(* the files every handshake reads                                          *)
(* (src/internal/garam/{enroller,renewer,mutual_tls}.go, credentialstore/). *)
(*                                                                          *)
(* Certificates are numbered in the order garam issues them, so issued is   *)
(* also the certificate it last issued, the only one it renews, and 0 is no *)
(* certificate.  A key is named by what made it: the token and the process  *)
(* an enrollment request was made for, or the certificate garam answered    *)
(* it with.  A pair loads when the certificate was signed for the key.      *)
(*                                                                          *)
(* Two clocks run, at no fixed distance: garam's decides what it admits and *)
(* renews, this operator's whether it reads a certificate as expired.       *)
(***************************************************************************)
EXTENDS Naturals, FiniteSets

CONSTANTS Tokens,       \* enrollment tokens a person may register for
          NoToken,
          MaxCerts,     \* bound: certificates garam issues
          MaxRestarts,  \* bound: how often the process is stopped
          MaxLate       \* bound: calls given up on that are still under way

ASSUME CredentialAssumption ==
  /\ MaxCerts \in Nat /\ MaxRestarts \in Nat /\ MaxLate \in Nat
  /\ NoToken \notin Tokens

VARIABLES issued,    \* garam: certificates issued so far
          signed,    \* garam: the key each one was signed for
          phase,     \* garam: where in its validity each one is, by its clock
          tokens,    \* garam: what each token is worth
          passed,    \* the certificates past notAfter by this operator's clock
          secret,    \* the Secret: certificate, key and token
          files,     \* the volume the kubelet projects it into
          enroller,  \* the call the Enroller makes next, "done" once it returned
          enrolling, \* what the Enroller holds: pair seen, token, key, certificate
          spent,     \* the tokens this process remembers presenting
          renewer,   \* the call the Renewer makes next
          renewing,  \* what the Renewer holds: certificate read or received
          lagging,   \* a renewal of this process is stored and not projected yet
          late,      \* calls and patches given up on that may still arrive
          presented, \* history: Enroll calls of this process, by token
          lost,      \* history: a certificate may not have reached the Secret
          crossed,   \* history: a token was answered while a renewal was stored
          superseded,\* history: the last renewal was refused as superseded
          restarts

garamVars     == <<issued, signed, phase, tokens>>
enrollerVars  == <<enroller, enrolling, spent, presented>>
renewerVars   == <<renewer, renewing, lagging, superseded>>
lineageVars   == <<lost, crossed>>
vars == <<garamVars, passed, secret, files, enrollerVars, renewerVars, late,
          lineageVars, restarts>>

Certs == 0 .. MaxCerts

SomeToken == Tokens \cup {NoToken}

Keys == SomeToken \X Nat

NoKey == <<NoToken, 0>>

\* Client.RenewIdentity: the key garam answers beside certificate c.
AnsweredKey(c) == <<NoToken, c>>

Store == [cert: Certs, key: Keys, token: SomeToken]

Calls == [call: {"enroll", "renew", "store"}, cert: Certs, key: Keys, token: SomeToken]

TypeOK ==
  /\ issued \in Certs
  /\ signed \in [1 .. MaxCerts -> Keys]
  /\ phase \in [1 .. MaxCerts -> {"fresh", "due", "expired"}]
  /\ tokens \in [Tokens -> {"unminted", "live", "dead"}]
  /\ passed \subseteq 1 .. MaxCerts
  /\ secret \in Store
  /\ files \in Store
  /\ enroller \in {"look", "key", "token", "call", "store", "done"}
  /\ enrolling \in [seen: Certs, swapped: BOOLEAN, token: SomeToken, key: Keys, cert: Certs]
  /\ spent \subseteq Tokens
  /\ renewer \in {"idle", "key", "store"}
  /\ renewing \in Certs
  /\ lagging \in BOOLEAN
  /\ late \subseteq Calls
  /\ presented \in [Tokens -> Nat]
  /\ lost \in BOOLEAN
  /\ crossed \in BOOLEAN
  /\ superseded \in BOOLEAN
  /\ restarts \in 0 .. MaxRestarts

NothingEnrolling ==
  [seen |-> 0, swapped |-> FALSE, token |-> NoToken, key |-> NoKey, cert |-> 0]

\* An operator is deployed before it is registered, or with a certificate minted
\* out of band already in the Secret.
Init ==
  /\ issued \in {0, 1} /\ issued <= MaxCerts
  /\ signed = [c \in 1 .. MaxCerts |-> IF c <= issued THEN AnsweredKey(c) ELSE NoKey]
  /\ phase = [c \in 1 .. MaxCerts |-> "fresh"]
  /\ tokens = [t \in Tokens |-> "unminted"]
  /\ passed = {}
  /\ secret = [cert |-> issued, key |-> AnsweredKey(issued), token |-> NoToken]
  /\ files = secret
  /\ enroller = "look" /\ enrolling = NothingEnrolling /\ spent = {}
  /\ renewer = "idle" /\ renewing = 0 /\ lagging = FALSE
  /\ late = {}
  /\ presented = [t \in Tokens |-> 0]
  /\ lost = FALSE /\ crossed = FALSE /\ superseded = FALSE
  /\ restarts = 0

\* operatorCertificate: a certificate file and a key file read one after the
\* other make a pair when they belong together.
Loads(cert, key) == cert # 0 /\ signed[cert] = key

\* operatorCertificateExpiry, read against time.Now.
Unexpired(cert) == cert # 0 /\ cert \notin passed

\* garam signs a certificate for a caller it admits, over the caller's key or
\* one of its own.
Issue(key) ==
  /\ issued < MaxCerts /\ issued' = issued + 1
  /\ signed' = [signed EXCEPT ![issued + 1] = key]

\* A call or a patch is given up on while it is still under way.
Abandon(call, cert, key, token) ==
  /\ Cardinality(late) < MaxLate
  /\ late' = late \cup {[call |-> call, cert |-> cert, key |-> key, token |-> token]}

\* Mutant: the patch names the certificate's key of the Secret alone.
ReplaceCredentialCertOnly(cert, key) == secret' = [secret EXCEPT !.cert = cert]

\* The store replaces both keys of the Secret in one patch, which reads nothing
\* of what the Secret held.
ReplaceCredential(cert, key) == secret' = [secret EXCEPT !.cert = cert, !.key = key]

\* What is written is the certificate garam renews, and nothing is under way
\* that could write another over it.
Settles(cert) ==
  /\ cert = issued /\ renewer # "store"
  /\ \A l \in late : l.call # "store"
-----------------------------------------------------------------------------
LookAgain == enroller' = "look" /\ enrolling' = NothingEnrolling

\* Enroller.attempt reads the certificate file ...
EnrollerReadsCertificate ==
  /\ enroller = "look"
  /\ enroller' = "key"
  /\ enrolling' = [NothingEnrolling EXCEPT !.seen = files.cert]
  /\ UNCHANGED <<garamVars, passed, secret, files, spent, presented, renewerVars, late,
                 lineageVars, restarts>>

\* Mutant: a token is looked for whatever certificate is held.
AttemptTokenFirst ==
  /\ enroller = "key"
  /\ enroller' = "token" /\ UNCHANGED enrolling
  /\ UNCHANGED <<garamVars, passed, secret, files, spent, presented, renewerVars, late,
                 lineageVars, restarts>>

\* ... and the key file, and returns for good where the pair loads and has not
\* expired.
Attempt ==
  /\ enroller = "key"
  /\ IF Loads(enrolling.seen, files.key) /\ Unexpired(enrolling.seen)
       THEN enroller' = "done" /\ enrolling' = NothingEnrolling
       ELSE /\ enroller' = "token"
            /\ enrolling' = IF Loads(enrolling.seen, files.key) THEN enrolling
                            ELSE [enrolling EXCEPT !.seen = 0]
  /\ UNCHANGED <<garamVars, passed, secret, files, spent, presented, renewerVars, late,
                 lineageVars, restarts>>

\* The request of this process for a token: a key of its own.
RequestKey(t) == <<t, restarts>>

\* Mutant: the token is not recorded before the call.
PresentTokenUnrecorded ==
  /\ enroller = "token"
  /\ files.token \in Tokens \ spent
  /\ enroller' = "call"
  /\ enrolling' = [enrolling EXCEPT !.token = files.token, !.key = RequestKey(files.token)]
  /\ UNCHANGED <<garamVars, passed, secret, files, spent, presented, renewerVars, late,
                 lineageVars, restarts>>

\* Mutant: an empty token file is presented like any other.
PresentTokenEmpty ==
  /\ enroller = "token"
  /\ enroller' = "call"
  /\ enrolling' = [enrolling EXCEPT !.token = files.token, !.key = RequestKey(files.token)]
  /\ spent' = spent \cup {files.token}
  /\ UNCHANGED <<garamVars, passed, secret, files, presented, renewerVars, late,
                 lineageVars, restarts>>

\* Otherwise it reads the token file and presents a token it has not presented
\* yet, with a request over a key made for it, recorded as spent before the
\* call; or it looks again later.
PresentToken ==
  /\ enroller = "token"
  /\ IF files.token \in Tokens \ spent
       THEN /\ enroller' = "call"
            /\ enrolling' = [enrolling EXCEPT !.token = files.token,
                                              !.key = RequestKey(files.token)]
            /\ spent' = spent \cup {files.token}
       ELSE LookAgain /\ UNCHANGED spent
  /\ UNCHANGED <<garamVars, passed, secret, files, presented, renewerVars, late,
                 lineageVars, restarts>>

\* No key could be generated: nothing was presented, and the token stands for
\* the next look.
NoCertificateRequest ==
  /\ enroller = "token"
  /\ files.token \in Tokens \ spent
  /\ LookAgain
  /\ UNCHANGED <<garamVars, passed, secret, files, spent, presented, renewerVars, late,
                 lineageVars, restarts>>

Presented == presented' = [presented EXCEPT ![enrolling.token] = @ + 1]

\* Client.Enroll: garam spends the token on the attempt and signs the key the
\* request was made over.  An answer that does not arrive loses both.
Enroll ==
  /\ enroller = "call" /\ Presented
  /\ tokens[enrolling.token] = "live"
  /\ tokens' = [tokens EXCEPT ![enrolling.token] = "dead"]
  /\ Issue(enrolling.key)
  /\ \/ enroller' = "store" /\ enrolling' = [enrolling EXCEPT !.cert = issued + 1]
        /\ UNCHANGED lost
     \/ LookAgain /\ lost' = TRUE
  /\ crossed' = (crossed \/ (renewer = "store" /\ ~Unexpired(enrolling.seen)))
  /\ UNCHANGED <<phase, passed, secret, files, spent, renewerVars, late, restarts>>

\* Mutant: a refusal ends the enrollment.
EnrollFailsForGood ==
  /\ enroller = "call" /\ Presented
  /\ enroller' = "done" /\ enrolling' = NothingEnrolling
  /\ UNCHANGED <<garamVars, passed, secret, files, spent, renewerVars, late, lineageVars,
                 restarts>>

\* ErrTokenNotUsable, a call that never reached garam, or one the deadline of
\* the client cut off, which garam may take later.
EnrollFails ==
  /\ enroller = "call" /\ Presented
  /\ LookAgain
  /\ UNCHANGED late \/ Abandon("enroll", 0, enrolling.key, enrolling.token)
  /\ UNCHANGED <<garamVars, passed, secret, files, spent, renewerVars, lineageVars, restarts>>

\* The certificate is stored beside the key of its request and the Enroller
\* returns.
EnrollerStores ==
  /\ enroller = "store"
  /\ ReplaceCredential(enrolling.cert, enrolling.key)
  /\ enroller' = "done" /\ enrolling' = NothingEnrolling
  /\ lost' = (lost /\ ~Settles(enrolling.cert))
  /\ crossed' = (crossed /\ ~Settles(enrolling.cert))
  /\ UNCHANGED <<garamVars, passed, files, spent, presented, renewerVars, late, restarts>>

\* The patch fails: applied, not applied, or not applied yet.
EnrollerStoreFails ==
  /\ enroller = "store"
  /\ \/ ReplaceCredential(enrolling.cert, enrolling.key) /\ UNCHANGED <<lost, late>>
     \/ UNCHANGED <<secret, late>> /\ lost' = TRUE
     \/ /\ Abandon("store", enrolling.cert, enrolling.key, NoToken)
        /\ UNCHANGED secret /\ lost' = TRUE
  /\ LookAgain
  /\ UNCHANGED <<garamVars, passed, files, spent, presented, renewerVars, crossed, restarts>>

EnrollerNext == EnrollerReadsCertificate \/ Attempt \/ PresentToken
                \/ NoCertificateRequest \/ Enroll \/ EnrollFails
                \/ EnrollerStores \/ EnrollerStoreFails
-----------------------------------------------------------------------------
RenewAgainLater == renewer' = "idle" /\ renewing' = 0

\* Mutant: the pair is read once, at a start where there was none.
RenewerReadsAtStart ==
  /\ renewer = "idle" /\ ~lagging
  /\ renewer' = "key" /\ renewing' = IF restarts = 0 THEN 0 ELSE files.cert
  /\ UNCHANGED <<garamVars, passed, secret, files, enrollerVars, lagging, superseded, late,
                 lineageVars, restarts>>

\* Renewer.renew opens a connection, and the handshake reads the two files.
\* The interval is far above the projection delay, so an attempt after a
\* renewal this process stored finds it projected; only the first attempt of a
\* process may not.
RenewerReadsCertificate ==
  /\ renewer = "idle" /\ ~lagging
  /\ renewer' = "key" /\ renewing' = files.cert
  /\ UNCHANGED <<garamVars, passed, secret, files, enrollerVars, lagging, superseded, late,
                 lineageVars, restarts>>

\* garam renews the certificate it last issued, inside its renewal window.
Renews(cert) == cert # 0 /\ cert = issued /\ phase[cert] = "due"

\* Client.RenewIdentity: garam answers a successor and its key.  An answer that
\* does not arrive, or carries no credential, loses the successor.
RenewIdentity ==
  /\ renewer = "key"
  /\ Loads(renewing, files.key) /\ Renews(renewing)
  /\ Issue(AnsweredKey(issued + 1))
  /\ \/ renewer' = "store" /\ renewing' = issued + 1 /\ UNCHANGED lost
     \/ RenewAgainLater /\ lost' = TRUE
  /\ superseded' = FALSE
  /\ UNCHANGED <<phase, tokens, passed, secret, files, enrollerVars, lagging, late, crossed,
                 restarts>>

\* Mutant: superseded is answered like too early.
RenewSupersededUnsaid ==
  /\ renewer = "key"
  /\ Loads(renewing, files.key) /\ phase[renewing] # "expired"
  /\ renewing # issued
  /\ RenewAgainLater
  /\ superseded' = FALSE
  /\ UNCHANGED <<garamVars, passed, secret, files, enrollerVars, lagging, late, lineageVars,
                 restarts>>

\* ErrCredentialSuperseded: garam has issued a newer certificate already, and
\* the Renewer asks for a mint out of band.
RenewSuperseded ==
  /\ renewer = "key"
  /\ Loads(renewing, files.key) /\ phase[renewing] # "expired"
  /\ renewing # issued
  /\ RenewAgainLater
  /\ superseded' = TRUE
  /\ UNCHANGED <<garamVars, passed, secret, files, enrollerVars, lagging, late, lineageVars,
                 restarts>>

\* ErrRenewalTooEarly, a handshake with no usable pair, a call that never
\* reached garam, or one the deadline of the client cut off, which garam may
\* take later: the next attempt is the whole of the remedy.
RenewFails ==
  /\ renewer = "key"
  /\ RenewAgainLater
  /\ superseded' = FALSE
  /\ \/ UNCHANGED late
     \/ Loads(renewing, files.key) /\ Abandon("renew", renewing, NoKey, NoToken)
  /\ UNCHANGED <<garamVars, passed, secret, files, enrollerVars, lagging, lineageVars, restarts>>

\* The successor is stored.
RenewerStores ==
  /\ renewer = "store"
  /\ ReplaceCredential(renewing, AnsweredKey(renewing))
  /\ RenewAgainLater
  /\ lagging' = TRUE
  /\ UNCHANGED <<garamVars, passed, files, enrollerVars, superseded, late, lineageVars, restarts>>

\* The patch fails: applied, not applied, or not applied yet.
RenewerStoreFails ==
  /\ renewer = "store"
  /\ \/ /\ ReplaceCredential(renewing, AnsweredKey(renewing))
        /\ lagging' = TRUE /\ UNCHANGED <<lost, late>>
     \/ UNCHANGED <<secret, lagging, late>> /\ lost' = TRUE
     \/ /\ Abandon("store", renewing, AnsweredKey(renewing), NoToken)
        /\ UNCHANGED <<secret, lagging>> /\ lost' = TRUE
  /\ RenewAgainLater
  /\ UNCHANGED <<garamVars, passed, files, enrollerVars, superseded, crossed, restarts>>

RenewerNext == RenewerReadsCertificate \/ RenewIdentity \/ RenewSuperseded
               \/ RenewFails \/ RenewerStores \/ RenewerStoreFails
-----------------------------------------------------------------------------
\* A call nobody waits for reaches garam, whose answer nobody receives, or a
\* patch nobody waits for is applied.
Arrive(l) ==
  /\ l \in late /\ late' = late \ {l}
  /\ \/ /\ l.call = "enroll" /\ tokens[l.token] = "live"
        /\ tokens' = [tokens EXCEPT ![l.token] = "dead"]
        /\ Issue(l.key) /\ lost' = TRUE
        /\ UNCHANGED secret
     \/ /\ l.call = "renew" /\ Renews(l.cert)
        /\ Issue(AnsweredKey(issued + 1)) /\ lost' = TRUE
        /\ UNCHANGED <<tokens, secret>>
     \/ /\ l.call = "store"
        /\ ReplaceCredential(l.cert, l.key)
        /\ UNCHANGED <<issued, signed, tokens, lost>>
  /\ UNCHANGED <<phase, passed, files, enrollerVars, renewerVars, crossed, restarts>>

\* It never arrives, or is refused.
Vanish(l) ==
  /\ l \in late /\ late' = late \ {l}
  /\ UNCHANGED <<garamVars, passed, secret, files, enrollerVars, renewerVars, lineageVars,
                 restarts>>

\* The kubelet swaps the projected directory for the Secret's content, between
\* any two reads of it.
Project ==
  /\ files # secret \/ lagging
  /\ files' = secret /\ lagging' = FALSE
  /\ enrolling' = IF enroller \in {"key", "token"} THEN [enrolling EXCEPT !.swapped = TRUE]
                  ELSE enrolling
  /\ UNCHANGED <<garamVars, passed, secret, enroller, spent, presented, renewer, renewing,
                 superseded, late, lineageVars, restarts>>

\* A certificate enters its renewal window and expires by garam's clock ...
Age(c) ==
  /\ c <= issued /\ phase[c] # "expired"
  /\ phase' = [phase EXCEPT ![c] = IF @ = "fresh" THEN "due" ELSE "expired"]
  /\ UNCHANGED <<issued, signed, tokens, passed, secret, files, enrollerVars, renewerVars,
                 late, lineageVars, restarts>>

\* ... and by this operator's, sooner or later than that.
Pass(c) ==
  /\ c <= issued /\ c \notin passed
  /\ passed' = passed \cup {c}
  /\ UNCHANGED <<garamVars, secret, files, enrollerVars, renewerVars, late, lineageVars,
                 restarts>>

\* A person registers this operator and places the token in the Secret.
PlaceToken(t) ==
  /\ tokens[t] = "unminted"
  /\ tokens' = [tokens EXCEPT ![t] = "live"]
  /\ secret' = [secret EXCEPT !.token = t]
  /\ UNCHANGED <<issued, signed, phase, passed, files, enrollerVars, renewerVars, late,
                 lineageVars, restarts>>

\* A token stops being spendable ten minutes after it was minted.
ExpireToken(t) ==
  /\ tokens[t] = "live"
  /\ tokens' = [tokens EXCEPT ![t] = "dead"]
  /\ UNCHANGED <<issued, signed, phase, passed, secret, files, enrollerVars, renewerVars,
                 late, lineageVars, restarts>>

\* A person does what the two loops ask for when a certificate is lost or
\* refused as superseded: mints one out of band and writes it into the Secret,
\* where a patch under way may still write another over it.
MintOutOfBand ==
  /\ lost \/ superseded
  /\ Issue(AnsweredKey(issued + 1))
  /\ secret' = [secret EXCEPT !.cert = issued + 1, !.key = AnsweredKey(issued + 1)]
  /\ lost' = \/ enroller = "store" \/ renewer = "store"
             \/ \E l \in late : l.call = "store"
  /\ crossed' = FALSE /\ superseded' = FALSE
  /\ UNCHANGED <<phase, tokens, passed, files, enrollerVars, renewer, renewing, lagging, late,
                 restarts>>

\* The process stops at any point and starts again with nothing remembered;
\* a certificate not stored by then is gone.  A container keeps its volume, a
\* new Pod gets one with the Secret as it stands.
Restart ==
  /\ restarts < MaxRestarts /\ restarts' = restarts + 1
  /\ files' \in {files, secret}
  /\ LookAgain /\ spent' = {}
  /\ presented' = [t \in Tokens |-> 0]
  /\ RenewAgainLater /\ lagging' = FALSE /\ superseded' = FALSE
  /\ lost' = (lost \/ enroller = "store" \/ renewer = "store")
  /\ UNCHANGED <<garamVars, passed, secret, late, crossed>>

Next ==
  \/ EnrollerNext \/ RenewerNext \/ Project \/ MintOutOfBand \/ Restart
  \/ \E l \in late : Arrive(l) \/ Vanish(l)
  \/ \E c \in 1 .. MaxCerts : Age(c) \/ Pass(c)
  \/ \E t \in Tokens : PlaceToken(t) \/ ExpireToken(t)

Spec == Init /\ [][Next]_vars

\* The two loops run until the process stops, and the kubelet projects in the
\* end.  Which answer a call gets is not assumed: only that a call which can
\* be answered so again and again once is.
Fairness ==
  /\ WF_vars(EnrollerReadsCertificate) /\ WF_vars(Attempt)
  /\ WF_vars(PresentToken \/ NoCertificateRequest) /\ SF_vars(PresentToken)
  /\ WF_vars(Enroll \/ EnrollFails) /\ WF_vars(EnrollerStores \/ EnrollerStoreFails)
  /\ WF_vars(RenewerReadsCertificate)
  /\ WF_vars(RenewIdentity \/ RenewSuperseded \/ RenewFails)
  /\ SF_vars(RenewIdentity) /\ SF_vars(RenewSuperseded)
  /\ WF_vars(RenewerStores \/ RenewerStoreFails)
  /\ WF_vars(Project)

FairSpec == Spec /\ Fairness
-----------------------------------------------------------------------------
\* The Secret and the volume hold no certificate, or one beside the key it was
\* signed for: whichever request garam answered, whichever loop stored last,
\* wherever the process stopped, and for a patch applied after it was given up.
PairsMatch ==
  /\ secret.cert # 0 => Loads(secret.cert, secret.key)
  /\ files.cert # 0 => Loads(files.cert, files.key)

\* Enroller.enroll presents any one token once and never twice: a lost answer,
\* a refusal or a certificate that could not be stored does not lead the same
\* process to present it again.
PresentedOnce == \A t \in Tokens : presented[t] <= 1

\* Enroller.attempt presents no token while the volume holds a certificate that
\* has not expired by this operator's clock, so a restart does not burn a token
\* placed meanwhile.  Only a swap of the volume during the look itself, whose
\* three reads are not one, can make it.
TokenNotBurned ==
  [][(enroller = "token" /\ enroller' = "call" /\ ~enrolling.swapped)
       => ~Unexpired(files.cert)]_vars

\* The two loops write one Secret with patches that read nothing, and the older
\* certificate wins there in two cases only: a certificate did not reach the
\* Secret under the eyes of its writer, or garam answered a token, presented
\* where no unexpired pair could be read, while a renewal was being stored.  In
\* every other history the Secret holds the certificate garam renews, or the
\* loop that received it is about to store it.
LineageKept ==
  \/ lost \/ crossed \/ secret.cert = issued
  \/ enroller = "store" /\ enrolling.cert = issued
  \/ renewer = "store" /\ renewing = issued

\* The Secret does not hold for ever a certificate garam would renew, its window
\* open: Renewer.Start goes on asking after an answer that it is too early or
\* superseded, a handshake that read two halves of different pairs, and a garam
\* it could not reach, until there is a successor or the window closed.
DueIsRenewed ==
  []<>~(/\ secret.cert # 0 /\ secret.cert = issued /\ issued < MaxCerts
        /\ phase[secret.cert] = "due")

\* The Secret does not hold for ever an unexpired certificate garam no longer
\* renews without the Renewer being refused as superseded and asking for a mint:
\* a lineage that was lost or overwritten is said while there is time to act.
BrokenLineageIsTold ==
  []<>~(/\ secret.cert # 0 /\ secret.cert # issued /\ phase[secret.cert] # "expired"
        /\ ~superseded)

\* The Secret does not hold for ever a live token nobody presents, unless the
\* operator came to hold a certificate: Enroller.Start goes on looking after a
\* refusal, a lost answer, a failed store and a look that read two halves of
\* different pairs.
TokenPresented ==
  []<>~(/\ secret.token # NoToken /\ tokens[secret.token] = "live"
        /\ presented[secret.token] = 0
        /\ ~(enroller = "done" /\ secret.cert # 0))

\* What ADR 0022 says of a certificate that expires under a running operator:
\* the Enroller waits for a token from there.  Start has returned by then.
ExpiryReopensEnrollment ==
  (Loads(files.cert, files.key) /\ ~Unexpired(files.cert))
    ~> (enroller # "done" \/ Unexpired(files.cert))
=============================================================================
