-------------------------- MODULE CredentialProofs --------------------------
(***************************************************************************)
(* What TLAPS proves of Credential for any number of tokens, certificates,  *)
(* restarts and late calls: types, that certificate and key stay together,  *)
(* that no process presents a token twice, that none is spent for nothing,  *)
(* and when alone the two loops overwrite each other's certificate.         *)
(***************************************************************************)
EXTENDS Credential, TLAPS

\* The inductive invariant: a token this process presented is one it remembers,
\* and the one it is about to present is remembered and was not presented.
OInv ==
  /\ presented \in [Tokens -> Nat]
  /\ \A t \in Tokens : presented[t] <= 1 /\ (presented[t] = 1 => t \in spent)
  /\ enroller = "call" => /\ enrolling.token \in Tokens \cap spent
                          /\ presented[enrolling.token] = 0

\* Every step keeps the Enroller's invariant: a token presented is remembered.
LEMMA OInvKept ==
  ASSUME OInv, TypeOK, [Next]_vars
  PROVE  OInv'
<1> USE DEF OInv, LookAgain, NothingEnrolling
<1>1. CASE EnrollerReadsCertificate \/ Attempt
  BY <1>1 DEF EnrollerReadsCertificate, Attempt
<1>2. CASE PresentToken \/ NoCertificateRequest
  <2>1. UNCHANGED presented
    BY <1>2 DEF PresentToken, NoCertificateRequest
  <2>2. CASE enroller' # "call"
    BY <1>2, <2>1, <2>2 DEF PresentToken, NoCertificateRequest
  <2>3. CASE enroller' = "call"
    <3>1. /\ files.token \in Tokens \ spent /\ spent' = spent \cup {files.token}
          /\ enrolling' = [enrolling EXCEPT !.token = files.token,
                                            !.key = RequestKey(files.token)]
      BY <1>2, <2>3 DEF PresentToken, NoCertificateRequest
    <3>2. enrolling'.token = files.token
      BY <3>1 DEF TypeOK
    <3> QED
      BY <2>1, <3>1, <3>2
  <2> QED
    BY <2>2, <2>3
<1>3. CASE Enroll \/ EnrollFails
  <2>1. /\ presented' = [presented EXCEPT ![enrolling.token] = @ + 1]
        /\ enroller = "call" /\ enroller' # "call" /\ spent' = spent
    BY <1>3 DEF Enroll, EnrollFails, Presented
  <2> QED
    BY <2>1
<1>4. CASE EnrollerStores \/ EnrollerStoreFails
  BY <1>4 DEF EnrollerStores, EnrollerStoreFails
<1>5. CASE Restart
  BY <1>5 DEF Restart
<1>6. CASE Project
  <2>1. UNCHANGED <<enroller, spent, presented>>
    BY <1>6 DEF Project
  <2>2. enroller = "call" => enrolling' = enrolling
    BY <1>6 DEF Project
  <2> QED
    BY <2>1, <2>2
<1>7. CASE UNCHANGED enrollerVars
  BY <1>7 DEF enrollerVars
<1>8. RenewerNext => UNCHANGED enrollerVars
  BY DEF RenewerNext, RenewerReadsCertificate, RenewIdentity, RenewSuperseded, RenewFails,
         RenewerStores, RenewerStoreFails, enrollerVars
<1>9. \/ MintOutOfBand \/ UNCHANGED vars
      \/ \E l \in late : Arrive(l) \/ Vanish(l)
      \/ \E c \in 1 .. MaxCerts : Age(c) \/ Pass(c)
      \/ \E t \in Tokens : PlaceToken(t) \/ ExpireToken(t)
      => UNCHANGED enrollerVars
  BY DEF MintOutOfBand, Arrive, Vanish, Age, Pass, PlaceToken, ExpireToken, vars, enrollerVars
<1> QED
  BY <1>1, <1>2, <1>3, <1>4, <1>5, <1>6, <1>7, <1>8, <1>9 DEF Next, EnrollerNext
-----------------------------------------------------------------------------
\* What the Enroller holds.
Enrollings == [seen: Certs, swapped: BOOLEAN, token: SomeToken, key: Keys, cert: Certs]

\* No certificate and nothing in hand are well typed, and so are the keys.
LEMMA Nothings ==
  /\ 0 \in Certs /\ NoToken \in SomeToken /\ NoKey \in Keys
  /\ NothingEnrolling \in Enrollings
<1>1. 0 \in Certs /\ NoToken \in SomeToken
  BY CredentialAssumption DEF Certs, SomeToken
<1>2. NoKey \in Keys
  BY <1>1 DEF NoKey, Keys
<1> QED
  BY <1>1, <1>2, Zenon DEF NothingEnrolling, Enrollings

\* A key is one garam answered beside a certificate, or one of a request.
LEMMA KeysTyped ==
  /\ \A c \in Nat : AnsweredKey(c) \in Keys
  /\ \A t \in SomeToken, n \in Nat : <<t, n>> \in Keys
  BY Nothings DEF AnsweredKey, Keys

\* Counting one more presentation of a token leaves counts.
LEMMA Counted ==
  ASSUME NEW f \in [Tokens -> Nat], NEW t
  PROVE  [f EXCEPT ![t] = @ + 1] \in [Tokens -> Nat]
<1>1. ASSUME NEW u \in Tokens  PROVE [f EXCEPT ![t] = @ + 1][u] \in Nat
  <2>1. f[u] \in Nat
    OBVIOUS
  <2>2. [f EXCEPT ![t] = @ + 1][u] = IF u = t THEN f[u] + 1 ELSE f[u]
    OBVIOUS
  <2> QED
    BY <2>1, <2>2
<1> DEFINE g == [f EXCEPT ![t] = @ + 1]
<1>2. g = [u \in Tokens |-> g[u]]
  BY Zenon
<1> HIDE DEF g
<1>3. \A u \in Tokens : g[u] \in Nat
  BY <1>1 DEF g
<1>4. g \in [Tokens -> Nat]
  BY <1>2, <1>3
<1> QED
  BY <1>4 DEF g

\* The store and the mint out of band put a certificate and a key into a Secret
\* that is well typed, and leave its token.
LEMMA Replaced ==
  ASSUME secret \in Store, NEW c \in Certs, NEW k \in Keys, ReplaceCredential(c, k)
  PROVE  secret' \in Store /\ secret'.cert = c /\ secret'.key = k
  BY Zenon DEF ReplaceCredential, Store

\* What is given up on joins what is under way.
LEMMA Abandoned ==
  ASSUME late \subseteq Calls, NEW call \in {"enroll", "renew", "store"}, NEW c \in Certs,
         NEW k \in Keys, NEW t \in SomeToken, Abandon(call, c, k, t)
  PROVE  /\ late' \subseteq Calls
         /\ \A l \in late' : l \in late \/ (l.call = call /\ l.cert = c /\ l.key = k)
<1> DEFINE new == [call |-> call, cert |-> c, key |-> k, token |-> t]
<1>1. late' = late \cup {new}
  BY DEF Abandon
<1>2. new \in Calls
  BY Zenon DEF Calls
<1>3. new.call = call /\ new.cert = c /\ new.key = k
  OBVIOUS
<1> HIDE DEF new
<1> QED
  BY <1>1, <1>2, <1>3

\* garam issues the next certificate.
LEMMA Issued ==
  ASSUME TypeOK, NEW k \in Keys, Issue(k)
  PROVE  /\ issued' = issued + 1 /\ issued' \in Certs /\ issued + 1 \in Certs
         /\ issued + 1 \in Nat /\ issued + 1 \in 1 .. MaxCerts
         /\ signed' \in [1 .. MaxCerts -> Keys]
<1>1. issued \in Nat /\ issued < MaxCerts /\ MaxCerts \in Nat /\ issued' = issued + 1
  BY CredentialAssumption DEF TypeOK, Certs, Issue
<1>2. signed' \in [1 .. MaxCerts -> Keys]
  BY Zenon DEF TypeOK, Issue
<1> QED
  BY <1>1, <1>2 DEF Certs

\* The types hold at the start.
LEMMA InitType == Init => TypeOK
<1> SUFFICES ASSUME Init PROVE TypeOK
  OBVIOUS
<1>1. restarts \in 0 .. MaxRestarts /\ presented \in [Tokens -> Nat] /\ issued \in Certs
  BY CredentialAssumption DEF Init, Certs
<1>2. issued \in Nat
  BY DEF Init
<1>3. AnsweredKey(issued) \in Keys /\ \A c \in 1 .. MaxCerts : AnsweredKey(c) \in Keys
  BY <1>2, KeysTyped
<1>4. secret \in Store /\ files \in Store
  BY <1>1, <1>3, Nothings, Zenon DEF Init, Store
<1>5. signed \in [1 .. MaxCerts -> Keys]
  BY <1>3, Nothings DEF Init
<1>6. enrolling \in Enrollings /\ renewing \in Certs
  BY Nothings, Zenon DEF Init
<1> QED
  BY <1>1, <1>4, <1>5, <1>6, Zenon DEF Init, TypeOK, Enrollings

\* Every step of the Enroller keeps the types.
LEMMA EnrollerTypeKept ==
  ASSUME TypeOK, EnrollerNext
  PROVE  TypeOK'
<1>t. /\ enrolling \in Enrollings /\ enrolling.key \in Keys /\ enrolling.cert \in Certs
      /\ enrolling.token \in SomeToken /\ files.cert \in Certs /\ files.token \in SomeToken
      /\ restarts \in Nat
  BY CredentialAssumption DEF TypeOK, Enrollings, Store
<1>1. CASE EnrollerReadsCertificate
  <2>1. enrolling' \in Enrollings
    BY <1>1, <1>t, Nothings, Zenon DEF EnrollerReadsCertificate, Enrollings
  <2> QED
    BY <1>1, <2>1, Zenon DEF EnrollerReadsCertificate, TypeOK, Enrollings, garamVars,
                             renewerVars, lineageVars
<1>2. CASE Attempt
  <2>1. enrolling' \in Enrollings
    <3>1. \/ enrolling' = NothingEnrolling \/ enrolling' = enrolling
          \/ enrolling' = [enrolling EXCEPT !.seen = 0]
      BY <1>2 DEF Attempt
    <3>2. [enrolling EXCEPT !.seen = 0] \in Enrollings
      BY <1>t, Nothings, Zenon DEF Enrollings
    <3> QED
      BY <1>t, <3>1, <3>2, Nothings
  <2>2. enroller' \in {"done", "token"}
    BY <1>2 DEF Attempt
  <2> QED
    BY <1>2, <2>1, <2>2, Zenon DEF Attempt, TypeOK, Enrollings, garamVars, renewerVars,
                                   lineageVars
<1>3. CASE PresentToken \/ NoCertificateRequest
  <2>1. spent' \in SUBSET Tokens
    BY <1>3 DEF PresentToken, NoCertificateRequest, TypeOK
  <2>2. RequestKey(files.token) \in Keys
    BY <1>t, KeysTyped DEF RequestKey
  <2>3. enrolling' \in Enrollings
    <3>1. \/ enrolling' = NothingEnrolling
          \/ enrolling' = [enrolling EXCEPT !.token = files.token,
                                            !.key = RequestKey(files.token)]
      BY <1>3 DEF PresentToken, NoCertificateRequest, LookAgain
    <3>2. [enrolling EXCEPT !.token = files.token, !.key = RequestKey(files.token)]
            \in Enrollings
      BY <1>t, <2>2, Zenon DEF Enrollings
    <3> QED
      BY <3>1, <3>2, Nothings
  <2>4. enroller' \in {"call", "look"}
    BY <1>3 DEF PresentToken, NoCertificateRequest, LookAgain
  <2> QED
    BY <1>3, <2>1, <2>3, <2>4, Zenon DEF PresentToken, NoCertificateRequest, TypeOK,
                                         Enrollings, garamVars, renewerVars, lineageVars
<1>4. CASE Enroll
  <2>1. Issue(enrolling.key)
    BY <1>4 DEF Enroll
  <2>2. /\ issued + 1 \in Certs /\ issued' \in Certs /\ signed' \in [1 .. MaxCerts -> Keys]
    BY <1>t, <2>1, Issued
  <2>3. presented' \in [Tokens -> Nat]
    BY <1>4, Counted DEF Enroll, Presented, TypeOK
  <2>4. tokens' \in [Tokens -> {"unminted", "live", "dead"}]
    BY <1>4, Zenon DEF Enroll, TypeOK
  <2>5. enrolling' \in Enrollings
    <3>1. enrolling' = NothingEnrolling \/ enrolling' = [enrolling EXCEPT !.cert = issued + 1]
      BY <1>4 DEF Enroll, LookAgain
    <3>2. [enrolling EXCEPT !.cert = issued + 1] \in Enrollings
      BY <1>t, <2>2, Zenon DEF Enrollings
    <3> QED
      BY <3>1, <3>2, Nothings
  <2>6. enroller' \in {"store", "look"}
    BY <1>4 DEF Enroll, LookAgain
  <2>7. lost' \in BOOLEAN /\ crossed' \in BOOLEAN
    BY <1>4, Zenon DEF Enroll, TypeOK
  <2> QED
    BY <1>4, <2>2, <2>3, <2>4, <2>5, <2>6, <2>7, Zenon DEF Enroll, TypeOK, Enrollings,
                                                        renewerVars
<1>5. CASE EnrollFails
  <2>1. presented' \in [Tokens -> Nat]
    BY <1>5, Counted DEF EnrollFails, Presented, TypeOK
  <2>2. late' \subseteq Calls
    <3>1. UNCHANGED late \/ Abandon("enroll", 0, enrolling.key, enrolling.token)
      BY <1>5 DEF EnrollFails
    <3> QED
      BY <1>t, <3>1, Nothings, Abandoned DEF TypeOK
  <2>3. enrolling' \in Enrollings /\ enroller' = "look"
    BY <1>5, Nothings DEF EnrollFails, LookAgain
  <2> QED
    BY <1>5, <2>1, <2>2, <2>3, Zenon DEF EnrollFails, TypeOK, Enrollings, garamVars,
                                         renewerVars, lineageVars
<1>6. CASE EnrollerStores \/ EnrollerStoreFails
  <2>1. UNCHANGED secret \/ ReplaceCredential(enrolling.cert, enrolling.key)
    BY <1>6 DEF EnrollerStores, EnrollerStoreFails
  <2>2. secret' \in Store
    BY <1>t, <2>1, Replaced DEF TypeOK
  <2>3. UNCHANGED late \/ Abandon("store", enrolling.cert, enrolling.key, NoToken)
    BY <1>6 DEF EnrollerStores, EnrollerStoreFails
  <2>4. late' \subseteq Calls
    BY <1>t, <2>3, Nothings, Abandoned DEF TypeOK
  <2>5. enrolling' \in Enrollings /\ enroller' \in {"look", "done"}
    BY <1>6, Nothings DEF EnrollerStores, EnrollerStoreFails, LookAgain
  <2>6. lost' \in BOOLEAN /\ crossed' \in BOOLEAN
    BY <1>6, Zenon DEF EnrollerStores, EnrollerStoreFails, TypeOK
  <2> QED
    BY <1>6, <2>2, <2>4, <2>5, <2>6, Zenon DEF EnrollerStores, EnrollerStoreFails, TypeOK,
                                               Enrollings, garamVars, renewerVars
<1> QED
  BY <1>1, <1>2, <1>3, <1>4, <1>5, <1>6 DEF EnrollerNext

\* Every step of the Renewer keeps the types.
LEMMA RenewerTypeKept ==
  ASSUME TypeOK, RenewerNext
  PROVE  TypeOK'
<1>t. /\ files.cert \in Certs /\ AnsweredKey(renewing) \in Keys
      /\ AnsweredKey(issued + 1) \in Keys
  <2>1. files.cert \in Certs /\ renewing \in Nat /\ issued + 1 \in Nat
    BY CredentialAssumption DEF TypeOK, Store, Certs
  <2> QED
    BY <2>1, KeysTyped
<1>1. CASE RenewerReadsCertificate
  BY <1>1, <1>t, Zenon DEF RenewerReadsCertificate, TypeOK, garamVars, enrollerVars,
                           lineageVars
<1>2. CASE RenewIdentity
  <2>1. Issue(AnsweredKey(issued + 1))
    BY <1>2 DEF RenewIdentity
  <2>2. /\ issued + 1 \in Certs /\ issued' \in Certs /\ signed' \in [1 .. MaxCerts -> Keys]
    BY <1>t, <2>1, Issued
  <2>3. renewing' \in Certs /\ renewer' \in {"store", "idle"}
    BY <1>2, <2>2, Nothings DEF RenewIdentity, RenewAgainLater
  <2>4. lost' \in BOOLEAN /\ superseded' \in BOOLEAN
    BY <1>2, Zenon DEF RenewIdentity, TypeOK
  <2> QED
    BY <1>2, <2>2, <2>3, <2>4, Zenon DEF RenewIdentity, TypeOK, enrollerVars
<1>3. CASE RenewSuperseded \/ RenewFails
  <2>1. renewing' \in Certs /\ renewer' = "idle"
    BY <1>3, Nothings DEF RenewSuperseded, RenewFails, RenewAgainLater
  <2>2. superseded' \in BOOLEAN
    BY <1>3, Zenon DEF RenewSuperseded, RenewFails
  <2>3. UNCHANGED late \/ Abandon("renew", renewing, NoKey, NoToken)
    BY <1>3 DEF RenewSuperseded, RenewFails
  <2>4. late' \subseteq Calls
    BY <2>3, Nothings, Abandoned DEF TypeOK
  <2> QED
    BY <1>3, <2>1, <2>2, <2>4, Zenon DEF RenewSuperseded, RenewFails, TypeOK, garamVars,
                                         enrollerVars, lineageVars
<1>4. CASE RenewerStores \/ RenewerStoreFails
  <2>1. UNCHANGED secret \/ ReplaceCredential(renewing, AnsweredKey(renewing))
    BY <1>4 DEF RenewerStores, RenewerStoreFails
  <2>2. secret' \in Store
    BY <1>t, <2>1, Replaced DEF TypeOK
  <2>3. UNCHANGED late \/ Abandon("store", renewing, AnsweredKey(renewing), NoToken)
    BY <1>4 DEF RenewerStores, RenewerStoreFails
  <2>4. late' \subseteq Calls
    BY <1>t, <2>3, Nothings, Abandoned DEF TypeOK
  <2>5. renewing' \in Certs /\ renewer' = "idle"
    BY <1>4, Nothings DEF RenewerStores, RenewerStoreFails, RenewAgainLater
  <2>6. lost' \in BOOLEAN /\ lagging' \in BOOLEAN
    BY <1>4, Zenon DEF RenewerStores, RenewerStoreFails, TypeOK, lineageVars
  <2> QED
    BY <1>4, <2>2, <2>4, <2>5, <2>6, Zenon DEF RenewerStores, RenewerStoreFails, TypeOK,
                                               garamVars, enrollerVars, lineageVars
<1> QED
  BY <1>1, <1>2, <1>3, <1>4 DEF RenewerNext

\* What arrives late, or never, keeps the types.
LEMMA LateTypeKept ==
  ASSUME TypeOK, NEW l \in late, Arrive(l) \/ Vanish(l)
  PROVE  TypeOK'
<1>t. /\ l.cert \in Certs /\ l.key \in Keys /\ l.token \in SomeToken
      /\ AnsweredKey(issued + 1) \in Keys
  <2>1. l \in Calls /\ issued + 1 \in Nat
    BY CredentialAssumption DEF TypeOK, Certs
  <2> QED
    BY <2>1, KeysTyped DEF Calls
<1>1. late' \subseteq Calls
  BY DEF Arrive, Vanish, TypeOK
<1>2. CASE Vanish(l)
  BY <1>1, <1>2, Zenon DEF Vanish, TypeOK, garamVars, enrollerVars, renewerVars, lineageVars
<1>3. CASE Arrive(l) /\ l.call = "store"
  <2>1. ReplaceCredential(l.cert, l.key) /\ UNCHANGED <<issued, signed, tokens, lost>>
    BY <1>3 DEF Arrive
  <2>2. secret' \in Store
    BY <1>t, <2>1, Replaced DEF TypeOK
  <2> QED
    BY <1>1, <1>3, <2>1, <2>2, Zenon DEF Arrive, TypeOK, enrollerVars, renewerVars
<1>4. CASE Arrive(l) /\ l.call # "store"
  <2>1. \E k \in Keys : Issue(k)
    BY <1>t, <1>4 DEF Arrive
  <2>2. issued' \in Certs /\ signed' \in [1 .. MaxCerts -> Keys]
    BY <2>1, Issued
  <2>3. tokens' \in [Tokens -> {"unminted", "live", "dead"}]
    BY <1>4, Zenon DEF Arrive, TypeOK
  <2>4. lost' = TRUE /\ UNCHANGED secret
    BY <1>4 DEF Arrive
  <2> QED
    BY <1>1, <1>4, <2>2, <2>3, <2>4, Zenon DEF Arrive, TypeOK, enrollerVars, renewerVars
<1> QED
  BY <1>2, <1>3, <1>4

\* Every step keeps the types.
LEMMA TypeKept ==
  ASSUME TypeOK, [Next]_vars
  PROVE  TypeOK'
<1>1. CASE EnrollerNext
  BY <1>1, EnrollerTypeKept
<1>2. CASE RenewerNext
  BY <1>2, RenewerTypeKept
<1>3. CASE \E l \in late : Arrive(l) \/ Vanish(l)
  BY <1>3, LateTypeKept
<1>4. CASE Project
  <2>1. enrolling' \in Enrollings
    <3>1. enrolling' = enrolling \/ enrolling' = [enrolling EXCEPT !.swapped = TRUE]
      BY <1>4 DEF Project
    <3>2. [enrolling EXCEPT !.swapped = TRUE] \in Enrollings
      BY Zenon DEF TypeOK, Enrollings
    <3> QED
      BY <3>1, <3>2 DEF TypeOK, Enrollings
  <2> QED
    BY <1>4, <2>1, Zenon DEF Project, TypeOK, Enrollings, garamVars, lineageVars
<1>5. CASE MintOutOfBand
  <2>1. AnsweredKey(issued + 1) \in Keys
    BY CredentialAssumption, KeysTyped DEF TypeOK, Certs
  <2>2. /\ issued + 1 \in Certs /\ issued' \in Certs /\ signed' \in [1 .. MaxCerts -> Keys]
    BY <1>5, <2>1, Issued DEF MintOutOfBand
  <2>3. secret' \in Store
    BY <1>5, <2>1, <2>2, Zenon DEF MintOutOfBand, Store, TypeOK
  <2>4. lost' \in BOOLEAN /\ crossed' \in BOOLEAN /\ superseded' \in BOOLEAN
    BY <1>5, Zenon DEF MintOutOfBand
  <2> QED
    BY <1>5, <2>2, <2>3, <2>4, Zenon DEF MintOutOfBand, TypeOK, enrollerVars
<1>6. CASE Restart
  <2>1. restarts' \in 0 .. MaxRestarts
    BY <1>6, CredentialAssumption DEF Restart, TypeOK
  <2>2. presented' \in [Tokens -> Nat]
    BY <1>6 DEF Restart
  <2>3. files' \in Store /\ spent' \subseteq Tokens
    BY <1>6 DEF Restart, TypeOK
  <2>4. /\ enrolling' \in Enrollings /\ enroller' = "look"
        /\ renewing' \in Certs /\ renewer' = "idle"
    BY <1>6, Nothings DEF Restart, LookAgain, RenewAgainLater
  <2>5. lost' \in BOOLEAN /\ lagging' \in BOOLEAN /\ superseded' \in BOOLEAN
    BY <1>6, Zenon DEF Restart
  <2> QED
    BY <1>6, <2>1, <2>2, <2>3, <2>4, <2>5, Zenon DEF Restart, TypeOK, Enrollings, garamVars
<1>7. CASE \E c \in 1 .. MaxCerts : Age(c) \/ Pass(c)
  <2>1. PICK c \in 1 .. MaxCerts : Age(c) \/ Pass(c)
    BY <1>7
  <2>2. phase' \in [1 .. MaxCerts -> {"fresh", "due", "expired"}]
    BY <2>1 DEF Age, Pass, TypeOK, garamVars
  <2>3. passed' \subseteq 1 .. MaxCerts
    BY <2>1 DEF Age, Pass, TypeOK
  <2>4. CASE Age(c)
    BY <2>2, <2>4, Zenon DEF Age, TypeOK, enrollerVars, renewerVars, lineageVars
  <2>5. CASE Pass(c)
    BY <2>3, <2>5, Zenon DEF Pass, TypeOK, garamVars, enrollerVars, renewerVars, lineageVars
  <2> QED
    BY <2>1, <2>4, <2>5
<1>8. CASE \E t \in Tokens : PlaceToken(t) \/ ExpireToken(t)
  <2>1. PICK t \in Tokens : PlaceToken(t) \/ ExpireToken(t)
    BY <1>8
  <2>2. tokens' \in [Tokens -> {"unminted", "live", "dead"}]
    BY <2>1 DEF PlaceToken, ExpireToken, TypeOK
  <2>3. secret' \in Store
    <3>1. t \in SomeToken
      BY DEF SomeToken
    <3>2. secret' = secret \/ secret' = [secret EXCEPT !.token = t]
      BY <2>1 DEF PlaceToken, ExpireToken
    <3>3. [secret EXCEPT !.token = t] \in Store
      BY <3>1, Zenon DEF TypeOK, Store
    <3> QED
      BY <3>2, <3>3 DEF TypeOK
  <2>4. CASE PlaceToken(t)
    BY <2>2, <2>3, <2>4, Zenon DEF PlaceToken, TypeOK, enrollerVars, renewerVars, lineageVars
  <2>5. CASE ExpireToken(t)
    BY <2>2, <2>3, <2>5, Zenon DEF ExpireToken, TypeOK, enrollerVars, renewerVars, lineageVars
  <2> QED
    BY <2>1, <2>4, <2>5
<1>9. CASE UNCHANGED vars
  BY <1>9, Zenon DEF vars, garamVars, enrollerVars, renewerVars, lineageVars, TypeOK
<1> QED
  BY <1>1, <1>2, <1>3, <1>4, <1>5, <1>6, <1>7, <1>8, <1>9 DEF Next

\* Every reachable state is well typed: no loop holds, stores or presents
\* anything but certificates garam issued and tokens a person placed.
THEOREM TypeCorrect == Spec => []TypeOK
  BY InitType, TypeKept, PTL DEF Spec

\* Enroller.enroll records a token before the call that presents it, so no
\* process presents one twice, whatever became of the call, of its answer and
\* of the certificate, and however many tokens are placed.
THEOREM TokenPresentedOnce == Spec => []PresentedOnce
<1>1. Init => OInv
  BY DEF Init, OInv
<1>2. TypeOK /\ OInv /\ [Next]_vars => OInv'
  BY OInvKept
<1>3. OInv => PresentedOnce
  BY DEF OInv, PresentedOnce
<1> QED
  BY <1>1, <1>2, <1>3, TypeCorrect, PTL DEF Spec
-----------------------------------------------------------------------------
\* garam signs certificates in order, and nothing is changed that was signed.
LEMMA IssueMoves ==
  ASSUME TypeOK, [Next]_vars
  PROVE  UNCHANGED <<issued, signed>> \/ \E k \in Keys : Issue(k)
<1>0. AnsweredKey(issued + 1) \in Keys /\ enrolling.key \in Keys
  <2>1. issued + 1 \in Nat /\ enrolling.key \in Keys
    BY CredentialAssumption DEF TypeOK, Certs
  <2> QED
    BY <2>1, KeysTyped
<1>1. CASE EnrollerNext
  BY <1>0, <1>1 DEF EnrollerNext, EnrollerReadsCertificate, Attempt, PresentToken,
       NoCertificateRequest, Enroll, EnrollFails, EnrollerStores, EnrollerStoreFails, garamVars
<1>2. CASE RenewerNext
  BY <1>0, <1>2 DEF RenewerNext, RenewerReadsCertificate, RenewIdentity, RenewSuperseded,
       RenewFails, RenewerStores, RenewerStoreFails, garamVars
<1>3. CASE \E l \in late : Arrive(l) \/ Vanish(l)
  <2>1. PICK l \in late : Arrive(l) \/ Vanish(l)
    BY <1>3
  <2>2. l.key \in Keys
    BY DEF TypeOK, Calls
  <2> QED
    BY <1>0, <2>1, <2>2 DEF Arrive, Vanish, garamVars
<1>4. \/ Project \/ Restart \/ UNCHANGED vars
      \/ \E c \in 1 .. MaxCerts : Age(c) \/ Pass(c)
      \/ \E t \in Tokens : PlaceToken(t) \/ ExpireToken(t)
      => UNCHANGED <<issued, signed>>
  BY DEF Project, Restart, Age, Pass, PlaceToken, ExpireToken, garamVars, vars
<1>5. MintOutOfBand => Issue(AnsweredKey(issued + 1))
  BY DEF MintOutOfBand
<1> QED
  BY <1>0, <1>1, <1>2, <1>3, <1>4, <1>5 DEF Next

\* A certificate garam issued, beside the key it was signed for.
Good(c, k) == c <= issued /\ Loads(c, k)

\* What was signed once stays good.
LEMMA GoodKept ==
  ASSUME TypeOK, [Next]_vars
  PROVE  /\ issued \in Nat /\ issued' \in Nat /\ issued <= issued'
         /\ \A c \in Certs, k \in Keys :
              Good(c, k) => c <= issued' /\ c # 0 /\ signed'[c] = k
<1>1. issued \in Nat /\ signed \in [1 .. MaxCerts -> Keys] /\ Certs \subseteq Nat
  BY CredentialAssumption DEF TypeOK, Certs
<1>2. CASE UNCHANGED <<issued, signed>>
  BY <1>1, <1>2 DEF Good, Loads
<1>3. CASE \E k \in Keys : Issue(k)
  <2>1. PICK k \in Keys : Issue(k)
    BY <1>3
  <2>2. issued' = issued + 1 /\ signed' = [signed EXCEPT ![issued + 1] = k]
    BY <2>1 DEF Issue
  <2>3. ASSUME NEW c \in Certs, c <= issued, c # 0  PROVE signed'[c] = signed[c]
    <3>1. c # issued + 1 /\ c \in 1 .. MaxCerts
      BY <1>1, <2>3, CredentialAssumption DEF Certs
    <3> QED
      BY <1>1, <2>2, <3>1
  <2> QED
    BY <1>1, <2>2, <2>3 DEF Good, Loads
<1> QED
  BY <1>2, <1>3, IssueMoves

\* What is signed now is good from here.
LEMMA GoodIssued ==
  ASSUME TypeOK, NEW k \in Keys, Issue(k)
  PROVE  /\ issued + 1 <= issued' /\ issued + 1 # 0 /\ signed'[issued + 1] = k
         /\ issued' = issued + 1 /\ issued \in Nat
<1>1. issued \in Nat /\ issued + 1 \in 1 .. MaxCerts /\ issued' = issued + 1
  BY Issued, CredentialAssumption DEF TypeOK, Certs
<1>2. signed'[issued + 1] = k
  BY <1>1, Zenon DEF Issue, TypeOK
<1> QED
  BY <1>1, <1>2
-----------------------------------------------------------------------------
\* Where the pair in the Secret comes from: it stands, or is the one a loop was
\* about to store, the one of a patch given up on, or one minted out of band.
LEMMA SecretMoves ==
  ASSUME TypeOK, [Next]_vars
  PROVE  \/ secret'.cert = secret.cert /\ secret'.key = secret.key
         \/ /\ enroller = "store" /\ enroller' # "store"
            /\ secret'.cert = enrolling.cert /\ secret'.key = enrolling.key
         \/ /\ renewer = "store"
            /\ secret'.cert = renewing /\ secret'.key = AnsweredKey(renewing)
         \/ \E l \in late : l.call = "store" /\ secret'.cert = l.cert /\ secret'.key = l.key
         \/ /\ MintOutOfBand /\ UNCHANGED enrollerVars
            /\ secret'.cert = issued + 1 /\ secret'.key = AnsweredKey(issued + 1)
<1>0. /\ secret \in Store /\ enrolling.cert \in Certs /\ enrolling.key \in Keys
      /\ renewing \in Certs /\ AnsweredKey(renewing) \in Keys
  <2>1. renewing \in Nat
    BY CredentialAssumption DEF TypeOK, Certs
  <2> QED
    BY <2>1, KeysTyped DEF TypeOK
<1>1. CASE UNCHANGED secret
  BY <1>1
<1>2. CASE EnrollerNext
  <2>1. \/ UNCHANGED secret
        \/ /\ enroller = "store" /\ enroller' # "store"
           /\ ReplaceCredential(enrolling.cert, enrolling.key)
    BY <1>2 DEF EnrollerNext, EnrollerReadsCertificate, Attempt, PresentToken, LookAgain,
         NoCertificateRequest, Enroll, EnrollFails, EnrollerStores, EnrollerStoreFails
  <2> QED
    BY <1>0, <1>1, <2>1, Replaced
<1>3. CASE RenewerNext
  <2>1. \/ UNCHANGED secret
        \/ renewer = "store" /\ ReplaceCredential(renewing, AnsweredKey(renewing))
    BY <1>3 DEF RenewerNext, RenewerReadsCertificate, RenewIdentity, RenewSuperseded,
         RenewFails, RenewerStores, RenewerStoreFails
  <2> QED
    BY <1>0, <1>1, <2>1, Replaced
<1>4. CASE \E l \in late : Arrive(l) \/ Vanish(l)
  <2>1. PICK l \in late : Arrive(l) \/ Vanish(l)
    BY <1>4
  <2>2. l.cert \in Certs /\ l.key \in Keys
    BY DEF TypeOK, Calls
  <2>3. UNCHANGED secret \/ (l.call = "store" /\ ReplaceCredential(l.cert, l.key))
    BY <2>1 DEF Arrive, Vanish
  <2> QED
    BY <1>0, <1>1, <2>2, <2>3, Replaced
<1>5. CASE MintOutOfBand
  <2>1. secret'.cert = issued + 1 /\ secret'.key = AnsweredKey(issued + 1)
    BY <1>0, <1>5, Zenon DEF MintOutOfBand, Store
  <2> QED
    BY <1>5, <2>1 DEF MintOutOfBand
<1>6. CASE \E t \in Tokens : PlaceToken(t) \/ ExpireToken(t)
  <2>1. PICK t \in Tokens : PlaceToken(t) \/ ExpireToken(t)
    BY <1>6
  <2>2. UNCHANGED secret \/ secret' = [secret EXCEPT !.token = t]
    BY <2>1 DEF PlaceToken, ExpireToken
  <2>3. secret' = [secret EXCEPT !.token = t]
        => secret'.cert = secret.cert /\ secret'.key = secret.key
    BY <1>0, Zenon DEF Store
  <2> QED
    BY <1>1, <2>2, <2>3
<1>7. \/ Project \/ Restart \/ UNCHANGED vars
      \/ \E c \in 1 .. MaxCerts : Age(c) \/ Pass(c)
      => UNCHANGED secret
  BY DEF Project, Restart, Age, Pass, vars
<1> QED
  BY <1>1, <1>2, <1>3, <1>4, <1>5, <1>6, <1>7 DEF Next

\* The volume stands or becomes what the Secret held.
LEMMA FilesMoves ==
  ASSUME [Next]_vars
  PROVE  files' \in {files, secret}
<1>1. CASE EnrollerNext
  BY <1>1 DEF EnrollerNext, EnrollerReadsCertificate, Attempt, PresentToken,
       NoCertificateRequest, Enroll, EnrollFails, EnrollerStores, EnrollerStoreFails
<1>2. CASE RenewerNext
  BY <1>2 DEF RenewerNext, RenewerReadsCertificate, RenewIdentity, RenewSuperseded,
       RenewFails, RenewerStores, RenewerStoreFails
<1>3. \/ Project \/ Restart \/ MintOutOfBand \/ UNCHANGED vars
      \/ \E l \in late : Arrive(l) \/ Vanish(l)
      \/ \E c \in 1 .. MaxCerts : Age(c) \/ Pass(c)
      \/ \E t \in Tokens : PlaceToken(t) \/ ExpireToken(t)
      => files' \in {files, secret}
  BY DEF Project, Restart, MintOutOfBand, Arrive, Vanish, Age, Pass, PlaceToken, ExpireToken,
         vars
<1> QED
  BY <1>1, <1>2, <1>3 DEF Next

\* What the Enroller is about to store: what it was, or what garam just signed
\* for the key of its request.
LEMMA EnrollerMoves ==
  ASSUME TypeOK, [Next]_vars, enroller' = "store"
  PROVE  \/ enroller = "store" /\ UNCHANGED enrolling
         \/ /\ Enroll /\ Issue(enrolling.key)
            /\ enrolling'.cert = issued + 1 /\ enrolling'.key = enrolling.key
<1>1. CASE Enroll
  <2>1. enrolling' = [enrolling EXCEPT !.cert = issued + 1] /\ Issue(enrolling.key)
    BY <1>1 DEF Enroll, LookAgain
  <2>2. enrolling'.cert = issued + 1 /\ enrolling'.key = enrolling.key
    BY <2>1 DEF TypeOK
  <2> QED
    BY <1>1, <2>1, <2>2
<1>2. CASE EnrollerNext /\ ~Enroll
  BY <1>2 DEF EnrollerNext, EnrollerReadsCertificate, Attempt, PresentToken, LookAgain,
       NoCertificateRequest, EnrollFails, EnrollerStores, EnrollerStoreFails
<1>3. CASE RenewerNext
  BY <1>3 DEF RenewerNext, RenewerReadsCertificate, RenewIdentity, RenewSuperseded,
       RenewFails, RenewerStores, RenewerStoreFails, enrollerVars
<1>4. \/ Project \/ Restart \/ MintOutOfBand \/ UNCHANGED vars
      \/ \E l \in late : Arrive(l) \/ Vanish(l)
      \/ \E c \in 1 .. MaxCerts : Age(c) \/ Pass(c)
      \/ \E t \in Tokens : PlaceToken(t) \/ ExpireToken(t)
      => enroller = "store" /\ UNCHANGED enrolling
  BY DEF Project, Restart, MintOutOfBand, Arrive, Vanish, Age, Pass, PlaceToken, ExpireToken,
         LookAgain, enrollerVars, vars
<1> QED
  BY <1>1, <1>2, <1>3, <1>4 DEF Next

\* What the Renewer holds: what it held, nothing, what the volume holds, or what
\* garam just signed.
LEMMA RenewerMoves ==
  ASSUME [Next]_vars
  PROVE  \/ UNCHANGED <<renewer, renewing>>
         \/ renewer' = "idle" /\ renewing' = 0
         \/ renewer' = "key" /\ renewing' = files.cert
         \/ /\ RenewIdentity /\ Issue(AnsweredKey(issued + 1)) /\ UNCHANGED enrollerVars
            /\ renewer' = "store" /\ renewing' = issued + 1
<1>1. CASE EnrollerNext
  BY <1>1 DEF EnrollerNext, EnrollerReadsCertificate, Attempt, PresentToken, renewerVars,
       NoCertificateRequest, Enroll, EnrollFails, EnrollerStores, EnrollerStoreFails
<1>2. CASE RenewIdentity
  BY <1>2 DEF RenewIdentity, RenewAgainLater
<1>3. CASE RenewerNext /\ ~RenewIdentity
  BY <1>3 DEF RenewerNext, RenewerReadsCertificate, RenewSuperseded, RenewAgainLater,
       RenewFails, RenewerStores, RenewerStoreFails
<1>4. \/ Project \/ Restart \/ MintOutOfBand \/ UNCHANGED vars
      \/ \E l \in late : Arrive(l) \/ Vanish(l)
      \/ \E c \in 1 .. MaxCerts : Age(c) \/ Pass(c)
      \/ \E t \in Tokens : PlaceToken(t) \/ ExpireToken(t)
      => UNCHANGED <<renewer, renewing>> \/ (renewer' = "idle" /\ renewing' = 0)
  BY DEF Project, Restart, MintOutOfBand, Arrive, Vanish, Age, Pass, PlaceToken, ExpireToken,
         RenewAgainLater, renewerVars, vars
<1> QED
  BY <1>1, <1>2, <1>3, <1>4 DEF Next

\* A patch given up on is of what a loop was about to store, and its certificate
\* counts as lost.
LEMMA LateMoves ==
  ASSUME TypeOK, [Next]_vars, NEW l \in late', l.call = "store"
  PROVE  \/ l \in late
         \/ /\ enroller = "store" /\ enroller' # "store" /\ lost'
            /\ l.cert = enrolling.cert /\ l.key = enrolling.key
         \/ /\ renewer = "store" /\ UNCHANGED enrollerVars /\ lost'
            /\ l.cert = renewing /\ l.key = AnsweredKey(renewing)
<1>0. /\ late \subseteq Calls /\ enrolling.cert \in Certs /\ enrolling.key \in Keys
      /\ enrolling.token \in SomeToken
      /\ renewing \in Certs /\ AnsweredKey(renewing) \in Keys
  <2>1. renewing \in Nat
    BY CredentialAssumption DEF TypeOK, Certs
  <2> QED
    BY <2>1, KeysTyped DEF TypeOK
<1>1. CASE late' \subseteq late
  BY <1>1
<1>2. CASE EnrollerNext
  <2>1. \/ UNCHANGED late
        \/ Abandon("enroll", 0, enrolling.key, enrolling.token)
        \/ /\ enroller = "store" /\ enroller' # "store" /\ lost'
           /\ Abandon("store", enrolling.cert, enrolling.key, NoToken)
    BY <1>2 DEF EnrollerNext, EnrollerReadsCertificate, Attempt, PresentToken, LookAgain,
         NoCertificateRequest, Enroll, EnrollFails, EnrollerStores, EnrollerStoreFails
  <2>2. Abandon("enroll", 0, enrolling.key, enrolling.token) => l \in late
    BY <1>0, Nothings, Abandoned
  <2>3. Abandon("store", enrolling.cert, enrolling.key, NoToken)
        => l \in late \/ (l.cert = enrolling.cert /\ l.key = enrolling.key)
    BY <1>0, Nothings, Abandoned
  <2> QED
    BY <1>1, <2>1, <2>2, <2>3
<1>3. CASE RenewerNext
  <2>1. \/ UNCHANGED late
        \/ Abandon("renew", renewing, NoKey, NoToken)
        \/ /\ renewer = "store" /\ UNCHANGED enrollerVars /\ lost'
           /\ Abandon("store", renewing, AnsweredKey(renewing), NoToken)
    BY <1>3 DEF RenewerNext, RenewerReadsCertificate, RenewIdentity, RenewSuperseded,
         RenewFails, RenewerStores, RenewerStoreFails
  <2>2. Abandon("renew", renewing, NoKey, NoToken) => l \in late
    BY <1>0, Nothings, Abandoned
  <2>3. Abandon("store", renewing, AnsweredKey(renewing), NoToken)
        => l \in late \/ (l.cert = renewing /\ l.key = AnsweredKey(renewing))
    BY <1>0, Nothings, Abandoned
  <2> QED
    BY <1>1, <2>1, <2>2, <2>3
<1>4. \/ Project \/ Restart \/ MintOutOfBand \/ UNCHANGED vars
      \/ \E k \in late : Arrive(k) \/ Vanish(k)
      \/ \E c \in 1 .. MaxCerts : Age(c) \/ Pass(c)
      \/ \E t \in Tokens : PlaceToken(t) \/ ExpireToken(t)
      => late' \subseteq late
  BY DEF Project, Restart, MintOutOfBand, Arrive, Vanish, Age, Pass, PlaceToken, ExpireToken,
         vars
<1> QED
  BY <1>1, <1>2, <1>3, <1>4 DEF Next
-----------------------------------------------------------------------------
\* The inductive invariant of the pairs: what the Secret and the volume hold,
\* what a loop is about to store, and what a patch given up on may still store.
PInv ==
  /\ secret.cert # 0 => Good(secret.cert, secret.key)
  /\ files.cert # 0 => Good(files.cert, files.key)
  /\ enroller = "store" => Good(enrolling.cert, enrolling.key)
  /\ renewer = "store" => Good(renewing, AnsweredKey(renewing))
  /\ \A l \in late : l.call = "store" => Good(l.cert, l.key)
  /\ renewing <= issued

\* Every step keeps the pairs together: only what garam just signed is new.
LEMMA PInvKept ==
  ASSUME PInv, TypeOK, [Next]_vars
  PROVE  PInv'
<1> DEFINE GoodNext(c, k) == c <= issued' /\ c # 0 /\ signed'[c] = k
<1>0. TypeOK' /\ issued \in Nat /\ issued' \in Nat /\ issued <= issued'
  BY TypeKept, GoodKept
<1>1. ASSUME NEW c \in Certs, NEW k \in Keys, Good(c, k)  PROVE GoodNext(c, k)
  BY <1>1, GoodKept
<1>2. ASSUME NEW k \in Keys, Issue(k)  PROVE GoodNext(issued + 1, k)
  BY <1>2, GoodIssued
<1>t. /\ secret.cert \in Certs /\ secret.key \in Keys /\ files.cert \in Certs
      /\ files.key \in Keys /\ enrolling.cert \in Certs /\ enrolling.key \in Keys
      /\ renewing \in Certs /\ renewing \in Nat /\ AnsweredKey(renewing) \in Keys
      /\ AnsweredKey(issued + 1) \in Keys
      /\ \A l \in late : l.cert \in Certs /\ l.key \in Keys
  <2>1. renewing \in Nat /\ issued + 1 \in Nat
    BY CredentialAssumption DEF TypeOK, Certs
  <2> QED
    BY <2>1, KeysTyped DEF TypeOK, Store, Calls
<1>3. secret'.cert # 0 => GoodNext(secret'.cert, secret'.key)
  <2> HIDE DEF GoodNext
  <2>1. CASE secret'.cert = secret.cert /\ secret'.key = secret.key
    BY <1>1, <1>t, <2>1 DEF PInv
  <2>2. CASE /\ enroller = "store" /\ enroller' # "store"
             /\ secret'.cert = enrolling.cert /\ secret'.key = enrolling.key
    BY <1>1, <1>t, <2>2 DEF PInv
  <2>3. CASE renewer = "store" /\ secret'.cert = renewing
             /\ secret'.key = AnsweredKey(renewing)
    BY <1>1, <1>t, <2>3 DEF PInv
  <2>4. CASE \E l \in late :
               l.call = "store" /\ secret'.cert = l.cert /\ secret'.key = l.key
    BY <1>1, <1>t, <2>4 DEF PInv
  <2>5. CASE /\ MintOutOfBand /\ UNCHANGED enrollerVars
             /\ secret'.cert = issued + 1 /\ secret'.key = AnsweredKey(issued + 1)
    BY <1>2, <1>t, <2>5 DEF MintOutOfBand
  <2> QED
    BY <2>1, <2>2, <2>3, <2>4, <2>5, SecretMoves
<1>4. files'.cert # 0 => GoodNext(files'.cert, files'.key)
  <2> HIDE DEF GoodNext
  <2> QED
    BY <1>1, <1>t, FilesMoves DEF PInv
<1>5. enroller' = "store" => GoodNext(enrolling'.cert, enrolling'.key)
  <2> HIDE DEF GoodNext
  <2> QED
    BY <1>1, <1>2, <1>t, EnrollerMoves DEF PInv
<1>6. /\ renewer' = "store" => GoodNext(renewing', AnsweredKey(renewing)')
      /\ renewing' <= issued'
  <2>1. CASE UNCHANGED <<renewer, renewing>>
    <3>1. AnsweredKey(renewing)' = AnsweredKey(renewing)
      BY <2>1 DEF AnsweredKey
    <3>2. renewer = "store" => GoodNext(renewing, AnsweredKey(renewing))
      BY <1>1, <1>t DEF PInv
    <3>3. renewing <= issued'
      BY <1>0, <1>t DEF PInv
    <3> QED
      BY <2>1, <3>1, <3>2, <3>3
  <2>2. CASE renewer' = "idle" /\ renewing' = 0
    BY <1>0, <2>2
  <2>3. CASE renewer' = "key" /\ renewing' = files.cert
    <3>1. files.cert <= issued
      BY <1>0, <1>t DEF PInv, Good
    <3>2. files.cert \in Nat
      BY <1>t, CredentialAssumption DEF Certs
    <3> QED
      BY <1>0, <2>3, <3>1, <3>2
  <2>4. CASE /\ Issue(AnsweredKey(issued + 1))
             /\ renewer' = "store" /\ renewing' = issued + 1
    <3>1. AnsweredKey(renewing)' = AnsweredKey(issued + 1)
      BY <2>4 DEF AnsweredKey
    <3>2. GoodNext(issued + 1, AnsweredKey(issued + 1))
      BY <1>2, <1>t, <2>4
    <3> QED
      BY <2>4, <3>1, <3>2
  <2> QED
    BY <2>1, <2>2, <2>3, <2>4, RenewerMoves
<1>7. ASSUME NEW l \in late', l.call = "store"  PROVE GoodNext(l.cert, l.key)
  <2> HIDE DEF GoodNext
  <2> QED
    BY <1>1, <1>7, <1>t, LateMoves DEF PInv
<1> QED
  BY <1>3, <1>4, <1>5, <1>6, <1>7 DEF PInv, Good, Loads

\* The pairs are together at the start.
LEMMA InitPairs == Init => PInv
<1> SUFFICES ASSUME Init PROVE PInv
  OBVIOUS
<1>1. issued = 0 \/ (issued = 1 /\ 1 \in 1 .. MaxCerts)
  BY CredentialAssumption DEF Init
<1>2. issued = 1 => signed[1] = AnsweredKey(1)
  BY <1>1 DEF Init
<1>3. /\ secret.cert = issued /\ files.cert = issued
      /\ secret.key = AnsweredKey(issued) /\ files.key = AnsweredKey(issued)
      /\ enroller # "store" /\ renewer # "store" /\ late = {} /\ renewing = 0
  BY DEF Init
<1> QED
  BY <1>1, <1>2, <1>3 DEF PInv, Good, Loads

\* The pairs of Secret, volume, loops and patches stay together.
LEMMA PairsInv == Spec => []PInv
  BY InitPairs, PInvKept, TypeCorrect, PTL DEF Spec

\* The Secret and the volume never hold a certificate beside a key it was not
\* signed for, whichever request garam answered, whichever of the two loops or
\* of the patches they gave up on wrote last, and wherever the process stopped.
THEOREM PairsAlwaysMatch == Spec => []PairsMatch
<1>1. PInv => PairsMatch
  BY DEF PInv, Good, PairsMatch
<1> QED
  BY <1>1, PairsInv, PTL
-----------------------------------------------------------------------------
\* What a look at the three files knows: without a swap the certificate seen is
\* the one there, and none that is unexpired by the time a token is read.
BInv ==
  ~enrolling.swapped =>
    /\ enroller = "key" => enrolling.seen = files.cert
    /\ enroller = "token" => ~Unexpired(files.cert)

\* What the operator's clock has passed stays passed.
LEMMA PassedGrows ==
  ASSUME [Next]_vars
  PROVE  passed \subseteq passed'
<1>1. CASE EnrollerNext
  BY <1>1 DEF EnrollerNext, EnrollerReadsCertificate, Attempt, PresentToken,
       NoCertificateRequest, Enroll, EnrollFails, EnrollerStores, EnrollerStoreFails
<1>2. CASE RenewerNext
  BY <1>2 DEF RenewerNext, RenewerReadsCertificate, RenewIdentity, RenewSuperseded,
       RenewFails, RenewerStores, RenewerStoreFails
<1>3. \/ Project \/ Restart \/ MintOutOfBand \/ UNCHANGED vars
      \/ \E l \in late : Arrive(l) \/ Vanish(l)
      \/ \E c \in 1 .. MaxCerts : Age(c) \/ Pass(c)
      \/ \E t \in Tokens : PlaceToken(t) \/ ExpireToken(t)
      => passed \subseteq passed'
  BY DEF Project, Restart, MintOutOfBand, Arrive, Vanish, Age, Pass, PlaceToken, ExpireToken,
         vars
<1> QED
  BY <1>1, <1>2, <1>3 DEF Next

\* A look goes through its three reads in order, and the volume is only swapped
\* where the look is told.
LEMMA LookMoves ==
  ASSUME TypeOK, [Next]_vars
  PROVE  \/ enroller' \notin {"key", "token", "call"}
         \/ enroller' = enroller /\ enrolling' = enrolling
            /\ (enroller \in {"key", "token"} => files' = files)
         \/ enroller' = enroller /\ enrolling'.swapped /\ enrolling'.seen = enrolling.seen
         \/ /\ enroller' = "key" /\ enrolling'.seen = files.cert /\ UNCHANGED files
         \/ /\ Attempt /\ enroller' = "token" /\ UNCHANGED <<files, passed, signed>>
            /\ \/ enrolling' = enrolling
               \/ /\ ~Loads(enrolling.seen, files.key)
                  /\ enrolling'.swapped = enrolling.swapped /\ enrolling'.seen = 0
         \/ /\ enroller = "token" /\ enroller' = "call" /\ enrolling'.seen = enrolling.seen
<1>1. CASE EnrollerReadsCertificate
  <2>1. enrolling'.seen = files.cert
    BY <1>1 DEF EnrollerReadsCertificate, NothingEnrolling
  <2> QED
    BY <1>1, <2>1 DEF EnrollerReadsCertificate
<1>2. CASE Attempt
  <2>1. [enrolling EXCEPT !.seen = 0].seen = 0
        /\ [enrolling EXCEPT !.seen = 0].swapped = enrolling.swapped
    BY DEF TypeOK
  <2> QED
    BY <1>2, <2>1, Zenon DEF Attempt, garamVars
<1>3. CASE PresentToken
  <2>1. ASSUME NEW t, NEW k
        PROVE  [enrolling EXCEPT !.token = t, !.key = k].seen = enrolling.seen
    BY DEF TypeOK
  <2> QED
    BY <1>3, <2>1 DEF PresentToken, LookAgain
<1>4. CASE NoCertificateRequest \/ Enroll \/ EnrollFails \/ EnrollerStores
           \/ EnrollerStoreFails \/ Restart
  BY <1>4 DEF NoCertificateRequest, Enroll, EnrollFails, EnrollerStores, EnrollerStoreFails,
              Restart, LookAgain
<1>5. CASE Project
  <2>1. [enrolling EXCEPT !.swapped = TRUE].swapped
        /\ [enrolling EXCEPT !.swapped = TRUE].seen = enrolling.seen
    BY DEF TypeOK
  <2> QED
    BY <1>5, <2>1 DEF Project
<1>6. RenewerNext => UNCHANGED <<enroller, enrolling, files>>
  BY DEF RenewerNext, RenewerReadsCertificate, RenewIdentity, RenewSuperseded, RenewFails,
         RenewerStores, RenewerStoreFails, enrollerVars
<1>7. \/ MintOutOfBand \/ UNCHANGED vars
      \/ \E l \in late : Arrive(l) \/ Vanish(l)
      \/ \E c \in 1 .. MaxCerts : Age(c) \/ Pass(c)
      \/ \E t \in Tokens : PlaceToken(t) \/ ExpireToken(t)
      => UNCHANGED <<enroller, enrolling, files>>
  BY DEF MintOutOfBand, Arrive, Vanish, Age, Pass, PlaceToken, ExpireToken, vars, enrollerVars
<1> QED
  BY <1>1, <1>2, <1>3, <1>4, <1>5, <1>6, <1>7 DEF Next, EnrollerNext

\* Every step keeps what a look knows.
LEMMA BInvKept ==
  ASSUME BInv, PairsMatch, TypeOK, [Next]_vars
  PROVE  BInv'
<1>1. passed \subseteq passed'
  BY PassedGrows
<1>2. CASE /\ enroller' = enroller /\ enrolling' = enrolling
           /\ (enroller \in {"key", "token"} => files' = files)
  BY <1>1, <1>2 DEF BInv, Unexpired
<1>3. CASE Attempt /\ enroller' = "token" /\ UNCHANGED <<files, passed, signed>>
           /\ enrolling'.swapped = enrolling.swapped
  <2>1. ~enrolling.swapped => enrolling.seen = files.cert
    BY <1>3 DEF Attempt, BInv
  <2>2. ~(Loads(enrolling.seen, files.key) /\ Unexpired(enrolling.seen))
    BY <1>3 DEF Attempt
  <2>3. ~enrolling.swapped => ~Unexpired(files.cert)
    BY <2>1, <2>2 DEF PairsMatch, Unexpired
  <2> QED
    BY <1>3, <2>3 DEF BInv, Unexpired
<1> QED
  BY <1>2, <1>3, LookMoves DEF BInv

\* No step of the Enroller presents a token while the volume holds a certificate
\* that has not expired by the operator's clock, unless the kubelet swapped the
\* volume during the very look that led to it.
THEOREM NoTokenBurned == Spec => TokenNotBurned
<1>1. Init => BInv
  BY DEF Init, BInv
<1>2. BInv /\ PairsMatch /\ TypeOK /\ [Next]_vars => BInv'
  BY BInvKept
<1>3. Spec => []BInv
  BY <1>1, <1>2, PairsAlwaysMatch, TypeCorrect, PTL DEF Spec
<1>4. BInv => [(enroller = "token" /\ enroller' = "call" /\ ~enrolling.swapped)
                 => ~Unexpired(files.cert)]_vars
  BY DEF BInv
<1> QED
  BY <1>3, <1>4, PTL DEF TokenNotBurned
-----------------------------------------------------------------------------
\* A certificate the Enroller is about to store is nowhere else yet.
UInv ==
  enroller = "store" =>
    /\ enrolling.cert \notin {secret.cert, files.cert, renewing}
    /\ \A l \in late : l.call = "store" => l.cert # enrolling.cert

\* Every step keeps it so: garam gives no number twice.
LEMMA UInvKept ==
  ASSUME UInv, PInv, TypeOK, [Next]_vars
  PROVE  UInv'
<1> SUFFICES ASSUME enroller' = "store"
             PROVE  /\ enrolling'.cert # secret'.cert /\ enrolling'.cert # files'.cert
                    /\ enrolling'.cert # renewing'
                    /\ \A l \in late' : l.call = "store" => l.cert # enrolling'.cert
  BY DEF UInv
<1>t. /\ issued \in Nat /\ secret.cert \in Nat /\ files.cert \in Nat /\ renewing \in Nat
      /\ enrolling.cert \in Nat /\ \A l \in late : l.cert \in Nat
  BY CredentialAssumption DEF TypeOK, Certs, Store, Calls
<1>p. /\ secret.cert <= issued /\ files.cert <= issued /\ renewing <= issued
      /\ \A l \in late : l.call = "store" => l.cert <= issued
  <2>1. secret.cert <= issued /\ files.cert <= issued /\ renewing <= issued
    BY <1>t DEF PInv, Good
  <2>2. \A l \in late : l.call = "store" => l.cert <= issued
    BY <1>t DEF PInv, Good
  <2> QED
    BY <2>1, <2>2
<1>1. CASE enroller = "store" /\ UNCHANGED enrolling
  <2>0. enrolling.cert <= issued /\ enrolling.cert # 0
    BY <1>1 DEF PInv, Good, Loads
  <2>1. enrolling.cert # secret'.cert
    BY <1>1, <1>t, <2>0, SecretMoves DEF UInv
  <2>2. enrolling.cert # files'.cert
    BY <1>1, FilesMoves DEF UInv
  <2>3. enrolling.cert # renewing'
    BY <1>1, <1>t, <2>0, RenewerMoves DEF UInv
  <2>4. ASSUME NEW l \in late', l.call = "store"  PROVE l.cert # enrolling.cert
    BY <1>1, <2>4, LateMoves DEF UInv
  <2> QED
    BY <1>1, <2>1, <2>2, <2>3, <2>4
<1>2. CASE Enroll /\ enrolling'.cert = issued + 1
  <2>1. UNCHANGED <<secret, files, renewing, late>>
    BY <1>2 DEF Enroll, renewerVars
  <2> QED
    BY <1>2, <1>t, <1>p, <2>1
<1> QED
  BY <1>1, <1>2, EnrollerMoves

\* A token is presented where the look found no unexpired pair.
SInv == enroller \in {"token", "call"} => ~Unexpired(enrolling.seen)

\* Every step keeps it so: what was found expired stays expired.
LEMMA SInvKept ==
  ASSUME SInv, TypeOK, [Next]_vars
  PROVE  SInv'
<1>1. passed \subseteq passed'
  BY PassedGrows
<1>2. CASE Attempt /\ enroller' = "token" /\ UNCHANGED <<files, passed, signed>>
           /\ (enrolling' = enrolling \/ enrolling'.seen = 0)
  <2>1. enrolling' = enrolling \/ enrolling'.seen = 0
    BY <1>2
  <2>2. CASE enrolling'.seen = 0
    BY <2>2 DEF SInv, Unexpired
  <2>3. CASE enrolling' = enrolling /\ enrolling.seen # 0
    <3>1. ~(Loads(enrolling.seen, files.key) /\ Unexpired(enrolling.seen))
      BY <1>2 DEF Attempt
    <3>2. Loads(enrolling.seen, files.key)
      <4>1. [enrolling EXCEPT !.seen = 0].seen = 0
        BY DEF TypeOK
      <4> QED
        BY <1>2, <2>3, <4>1 DEF Attempt
    <3> QED
      BY <1>2, <2>3, <3>1, <3>2 DEF SInv, Unexpired
  <2> QED
    BY <2>1, <2>2, <2>3
<1>3. CASE enroller' = enroller /\ enrolling'.seen = enrolling.seen
  BY <1>1, <1>3 DEF SInv, Unexpired
<1>4. CASE enroller = "token" /\ enroller' = "call" /\ enrolling'.seen = enrolling.seen
  BY <1>1, <1>4 DEF SInv, Unexpired
<1> QED
  BY <1>2, <1>3, <1>4, LookMoves DEF SInv
-----------------------------------------------------------------------------
\* The inductive invariant of the lineage.  While no certificate went astray and
\* no token was answered across a renewal, one loop at most is storing, what it
\* stores is what garam last issued, and otherwise the Secret holds that.
LInv ==
  ~lost /\ ~crossed =>
    /\ \A l \in late : l.call # "store"
    /\ enroller = "store" => enrolling.cert = issued /\ renewer # "store"
    /\ renewer = "store" => renewing = issued
    /\ enroller # "store" /\ renewer # "store" => secret.cert = issued

\* Every step of the Enroller keeps the lineage.
LEMMA EnrollerLineage ==
  ASSUME LInv, SInv, TypeOK, TypeOK', EnrollerNext, ~lost', ~crossed'
  PROVE  LInv'
<1>0. /\ [Next]_vars /\ \A l \in late' : l.call = "store" => l \in late
  <2>1. [Next]_vars
    BY DEF Next
  <2> QED
    BY <2>1, LateMoves DEF EnrollerNext, EnrollerReadsCertificate, Attempt, PresentToken,
       NoCertificateRequest, Enroll, EnrollFails, EnrollerStores, EnrollerStoreFails
<1>t. enrolling.cert \in Certs /\ enrolling.key \in Keys /\ secret \in Store
  BY DEF TypeOK
<1>1. CASE EnrollerReadsCertificate \/ Attempt \/ PresentToken \/ NoCertificateRequest
           \/ EnrollFails
  <2>1. /\ UNCHANGED <<issued, secret, renewer, renewing, lost, crossed>>
        /\ enroller # "store" /\ enroller' # "store"
    BY <1>1 DEF EnrollerReadsCertificate, Attempt, PresentToken, NoCertificateRequest,
         EnrollFails, LookAgain, garamVars, renewerVars, lineageVars
  <2> QED
    BY <1>0, <2>1 DEF LInv
<1>2. CASE Enroll
  <2>0. ~lost /\ ~crossed /\ enroller' = "store"
    <3>1. (enroller' = "store" /\ lost' = lost) \/ lost' = TRUE
      BY <1>2 DEF Enroll
    <3>2. crossed' = (crossed \/ (renewer = "store" /\ ~Unexpired(enrolling.seen)))
      BY <1>2 DEF Enroll
    <3>3. ~crossed
      BY <3>2, Zenon
    <3>4. enroller' = "store" /\ lost' = lost
      BY <3>1, Zenon
    <3> QED
      BY <3>3, <3>4, Zenon
  <2>1. ~lost /\ ~crossed /\ enroller' = "store" /\ UNCHANGED <<renewer, late>>
    BY <1>2, <2>0 DEF Enroll, renewerVars
  <2>2. renewer # "store"
    BY <1>2 DEF Enroll, SInv
  <2>3. enrolling' = [enrolling EXCEPT !.cert = issued + 1] /\ issued' = issued + 1
    BY <1>2, <2>1 DEF Enroll, LookAgain, Issue
  <2>4. enrolling'.cert = issued'
    BY <2>3 DEF TypeOK
  <2> QED
    BY <2>1, <2>2, <2>4 DEF LInv
<1>3. CASE EnrollerStores
  <2>1. /\ ReplaceCredential(enrolling.cert, enrolling.key) /\ enroller' # "store"
        /\ UNCHANGED <<issued, renewer, renewing, late>> /\ enroller = "store"
    BY <1>3 DEF EnrollerStores, garamVars, renewerVars
  <2>2. Settles(enrolling.cert) \/ (~lost /\ ~crossed)
    BY <1>3 DEF EnrollerStores
  <2>3. Settles(enrolling.cert)
    BY <2>1, <2>2 DEF LInv, Settles
  <2>4. secret'.cert = enrolling.cert
    BY <1>t, <2>1, Replaced
  <2> QED
    BY <2>1, <2>3, <2>4 DEF LInv, Settles
<1>4. CASE EnrollerStoreFails
  <2>1. /\ ReplaceCredential(enrolling.cert, enrolling.key) /\ enroller' # "store"
        /\ UNCHANGED <<issued, renewer, renewing, late, lost, crossed>> /\ enroller = "store"
    BY <1>4 DEF EnrollerStoreFails, LookAgain, garamVars, renewerVars
  <2>2. secret'.cert = enrolling.cert
    BY <1>t, <2>1, Replaced
  <2> QED
    BY <2>1, <2>2 DEF LInv
<1> QED
  BY <1>1, <1>2, <1>3, <1>4 DEF EnrollerNext

\* Every step of the Renewer keeps the lineage.
LEMMA RenewerLineage ==
  ASSUME LInv, UInv, TypeOK, RenewerNext, ~lost', ~crossed'
  PROVE  LInv'
<1>0. \A l \in late' : l.call = "store" => l \in late
  <2>1. [Next]_vars
    BY DEF Next
  <2> QED
    BY <2>1, LateMoves
<1>t. renewing \in Certs /\ AnsweredKey(renewing) \in Keys /\ secret \in Store
  <2>1. renewing \in Nat
    BY CredentialAssumption DEF TypeOK, Certs
  <2> QED
    BY <2>1, KeysTyped DEF TypeOK
<1>1. CASE RenewerReadsCertificate \/ RenewSuperseded \/ RenewFails
  <2>1. /\ UNCHANGED <<issued, secret, enroller, enrolling, lost, crossed>>
        /\ renewer # "store" /\ renewer' # "store"
    BY <1>1 DEF RenewerReadsCertificate, RenewSuperseded, RenewFails, RenewAgainLater,
         garamVars, enrollerVars, lineageVars
  <2> QED
    BY <1>0, <2>1 DEF LInv
<1>2. CASE RenewIdentity
  <2>1. /\ ~lost /\ ~crossed /\ renewing = issued /\ renewing' = issued' /\ renewer' = "store"
        /\ UNCHANGED <<enroller, late>>
    BY <1>2 DEF RenewIdentity, RenewAgainLater, Renews, Issue, enrollerVars
  <2>2. enroller # "store"
    BY <2>1 DEF LInv, UInv
  <2> QED
    BY <2>1, <2>2 DEF LInv
<1>3. CASE RenewerStores \/ RenewerStoreFails
  <2>1. /\ ReplaceCredential(renewing, AnsweredKey(renewing)) /\ renewer' # "store"
        /\ UNCHANGED <<issued, enroller, enrolling, late, lost, crossed>> /\ renewer = "store"
    BY <1>3 DEF RenewerStores, RenewerStoreFails, RenewAgainLater, garamVars, enrollerVars,
                lineageVars
  <2>2. secret'.cert = renewing
    BY <1>t, <2>1, Replaced
  <2> QED
    BY <2>1, <2>2 DEF LInv
<1> QED
  BY <1>1, <1>2, <1>3 DEF RenewerNext

\* Every step keeps the lineage.
LEMMA LInvKept ==
  ASSUME LInv, SInv, UInv, TypeOK, [Next]_vars
  PROVE  LInv'
<1> SUFFICES ASSUME ~lost', ~crossed'  PROVE LInv'
  BY DEF LInv
<1>1. CASE EnrollerNext
  BY <1>1, EnrollerLineage, TypeKept
<1>2. CASE RenewerNext
  BY <1>2, RenewerLineage
<1>3. CASE MintOutOfBand
  <2>1. secret'.cert = issued'
    <3>1. secret \in Store
      BY DEF TypeOK
    <3>2. secret'.cert = issued + 1
      BY <1>3, <3>1, Zenon DEF MintOutOfBand, Store
    <3> QED
      BY <1>3, <3>2 DEF MintOutOfBand, Issue
  <2>2. /\ enroller' # "store" /\ renewer' # "store" /\ \A l \in late' : l.call # "store"
    BY <1>3 DEF MintOutOfBand, enrollerVars
  <2> QED
    BY <2>1, <2>2 DEF LInv
<1>4. CASE Restart
  <2>1. /\ ~lost /\ ~crossed /\ enroller # "store" /\ renewer # "store"
        /\ enroller' # "store" /\ renewer' # "store" /\ UNCHANGED <<issued, secret, late>>
    BY <1>4 DEF Restart, LookAgain, RenewAgainLater, garamVars
  <2> QED
    BY <2>1 DEF LInv
<1>5. CASE \E l \in late : Arrive(l) \/ Vanish(l)
  <2>1. PICK l \in late : Arrive(l) \/ Vanish(l)
    BY <1>5
  <2>2. ~lost /\ ~crossed /\ late' \subseteq late
    BY <2>1 DEF Arrive, Vanish, lineageVars
  <2>3. UNCHANGED <<issued, secret>>
    <3>1. l.call # "store"
      BY <2>2 DEF LInv
    <3>2. Vanish(l)
      BY <2>1, <3>1 DEF Arrive
    <3> QED
      BY <3>2 DEF Vanish, garamVars
  <2>4. UNCHANGED <<enroller, enrolling, renewer, renewing>>
    BY <2>1 DEF Arrive, Vanish, enrollerVars, renewerVars
  <2> QED
    BY <2>2, <2>3, <2>4 DEF LInv
<1>6. CASE Project
  <2>1. /\ UNCHANGED <<issued, secret, late, enroller, renewer, renewing, lost, crossed>>
        /\ (enroller = "store" => UNCHANGED enrolling)
    BY <1>6 DEF Project, garamVars, lineageVars
  <2> QED
    BY <2>1 DEF LInv
<1>7. CASE \E t \in Tokens : PlaceToken(t) \/ ExpireToken(t)
  <2>1. PICK t \in Tokens : PlaceToken(t) \/ ExpireToken(t)
    BY <1>7
  <2>2. [secret EXCEPT !.token = t].cert = secret.cert
    BY DEF TypeOK, Store
  <2>3. secret'.cert = secret.cert
    BY <2>1, <2>2 DEF PlaceToken, ExpireToken
  <2>4. UNCHANGED <<issued, late, enroller, enrolling, renewer, renewing, lost, crossed>>
    BY <2>1 DEF PlaceToken, ExpireToken, enrollerVars, renewerVars, lineageVars
  <2> QED
    BY <2>3, <2>4 DEF LInv
<1>8. CASE UNCHANGED vars \/ \E c \in 1 .. MaxCerts : Age(c) \/ Pass(c)
  <2>1. UNCHANGED <<issued, secret, late, enroller, enrolling, renewer, renewing, lost, crossed>>
    BY <1>8 DEF Age, Pass, vars, garamVars, enrollerVars, renewerVars, lineageVars
  <2> QED
    BY <2>1 DEF LInv
<1> QED
  BY <1>1, <1>2, <1>3, <1>4, <1>5, <1>6, <1>7, <1>8 DEF Next

\* The unversioned patches of the two loops leave the certificate garam renews
\* in the Secret, or in the hands of the loop that is about to store it, unless
\* a certificate went astray under the eyes of its writer or garam answered a
\* token while a renewal was being stored: whichever clock runs ahead, whatever
\* is given up on and arrives later, and wherever the process stops.
THEOREM LineageNeverBroken == Spec => []LineageKept
<1> DEFINE Inv == LInv /\ SInv /\ UInv
<1>1. Init => Inv
  BY DEF Init, LInv, SInv, UInv
<1>2. Inv /\ PInv /\ TypeOK /\ [Next]_vars => Inv'
  BY LInvKept, SInvKept, UInvKept
<1>3. Inv => LineageKept
  BY DEF LInv, LineageKept
<1> QED
  BY <1>1, <1>2, <1>3, PairsInv, TypeCorrect, PTL DEF Spec
=============================================================================
