---------------------------- MODULE TrustProofs ----------------------------
(***************************************************************************)
(* Proofs about TimestampAcquisition for any clients, attempts and tokens,  *)
(* about TimestampHTTP for any limits, about CertificatePaths for any        *)
(* certificates and limits, and about SignedBundle for any tree of code.     *)
(*                                                                          *)
(* A token says nothing of the attempt that receives it, but its nonce: so  *)
(* the inductive invariant follows nonces through the requests and tokens   *)
(* that the network still carries, also those of attempts long given up.    *)
(*                                                                          *)
(* The invariant of an exchange says what each place in the response has    *)
(* established: how many lines the server has got the client to read        *)
(* (Metered), how the body that is under way ends (Framed), and that a late *)
(* completion is remembered (Remembered).                                   *)
(*                                                                          *)
(* The invariant of a search says that the calls under way make a path       *)
(* without its root (PathSoFar), and that no path leaves them at a           *)
(* certificate that a loop has tried (Tried); that of the ordering, that it  *)
(* has followed the path (Followed).                                        *)
(*                                                                          *)
(* The invariant of a bundle says that the directories of each code are       *)
(* those of its last signature, or it has none, and that an envelope has only  *)
(* what can be sealed (Recorded).                                             *)
(***************************************************************************)
EXTENDS TimestampAcquisition, TimestampHTTP, CertificatePaths, SignedBundle, FiniteSetTheorems, SequenceTheorems,
        WellFoundedInduction, TLAPS

Token == [imprint : Signatures, nonce : {NoNonce} \cup (Clients \X Nat), time : Int,
          tsa : Authorities, alg : {"sha256", "sha1"}, intact : BOOLEAN]

WorldType ==
  /\ now \in 0..MaxTime /\ skew \in {-1, 0, 1} /\ common.carried \in 1..ChainLength
  /\ setup \in [Clients -> [sig : Signatures, stamped : BOOLEAN]]

ClientType ==
  /\ attempts \in [Clients -> Nat]
  /\ pc \in [Clients -> {"idle", "wait", "acquired", "last", "done", "failed"}]
  /\ start \in [Clients -> -1..MaxTime]
  /\ token \in [Clients -> issued \cup {NoToken}]

NetworkType ==
  /\ requests \subseteq [imprint : Signatures, nonce : Clients \X Nat]
  /\ issued \subseteq {t \in Token : t.intact}

\* An idle client has an attempt left.
AttemptsLeft ==
  \A c \in Clients :
    /\ attempts[c] <= MaxAttempts
    /\ pc[c] = "idle" => attempts[c] < MaxAttempts
    /\ start[c] <= now

\* Every request is of an attempt that was made.
RequestsAsked ==
  \A q \in requests, c \in Clients, k \in Nat : q.nonce = <<c, k>> => k <= attempts[c]

\* A token's time is between the request with its nonce and this moment.
Stamped ==
  \A t \in issued :
    /\ t.time - skew \in 0..now
    /\ \A c \in Clients, k \in Nat :
         t.nonce = <<c, k>> =>
           k <= attempts[c] /\ (k = attempts[c] => start[c] <= t.time - skew)

\* A token that was acquired answers the attempt that acquired it.
Answered ==
  \A c \in Clients :
    pc[c] \in {"acquired", "last", "done"} =>
      /\ token[c] \in issued
      /\ start[c] # -1 => token[c].nonce = Nonce(c)

\* What was bound has been verified.
Bound ==
  \A c \in Clients :
    pc[c] \in {"last", "done"} =>
      /\ VerifyTimestampToken(token[c], setup[c].sig, common.roots, now)
      /\ CodePolicy(token[c]) /\ checkTimestampApplePolicy(CMSPath, token[c])

IInv ==
  /\ WorldType /\ ClientType /\ NetworkType
  /\ AttemptsLeft /\ RequestsAsked /\ Stamped /\ Answered /\ Bound

---------------------------------------------------------------------------
(* Types *)

LEMMA InitInvariant == Init => IInv
<1> SUFFICES ASSUME Init PROVE IInv
  OBVIOUS
<1>1. WorldType /\ ClientType /\ NetworkType
  BY TimestampAssumption DEF Init, WorldType, ClientType, NetworkType
<1>2. AttemptsLeft /\ RequestsAsked /\ Stamped /\ Answered /\ Bound
  BY TimestampAssumption DEF Init, AttemptsLeft, RequestsAsked, Stamped, Answered, Bound
<1>3. QED
  BY <1>1, <1>2 DEF IInv

\* A token in which bytes were changed is not accepted, so what is accepted was issued.
LEMMA AcceptedWasIssued ==
  ASSUME NetworkType, NEW c \in Clients, NEW t \in issued, NEW d \in Damaged(t),
         Accepts(c, d)
  PROVE  d = t
<1>1. t \in Token
  BY DEF NetworkType
<1>2. d.intact
  BY DEF Accepts, VerifyTimestampToken, Parses
<1>3. [t EXCEPT !.intact = FALSE].intact = FALSE
  BY <1>1 DEF Token
<1>4. QED
  BY <1>2, <1>3 DEF Damaged

\* What an authority signs.
LEMMA IssuedToken ==
  ASSUME WorldType, NetworkType, TimestampAssumption,
         NEW q \in requests, NEW who \in Authorities, Issue(q, who)
  PROVE  \E t \in Token :
           /\ issued' = issued \cup {t} /\ t.intact /\ t.time = now + skew
           /\ t.nonce = q.nonce \/ t.nonce = NoNonce
<1> DEFINE full == [imprint |-> q.imprint, nonce |-> q.nonce, time |-> now + skew,
                    tsa |-> who, alg |-> "sha256", intact |-> TRUE]
<1>1. full \in Token
  <2>1. q.imprint \in Signatures /\ q.nonce \in Clients \X Nat
    BY DEF NetworkType
  <2>2. now + skew \in Int
    BY DEF WorldType
  <2>3. QED
    BY <2>1, <2>2 DEF Token
<1>2. /\ [full EXCEPT !.nonce = NoNonce] \in Token /\ [full EXCEPT !.alg = "sha1"] \in Token
      /\ [full EXCEPT !.nonce = NoNonce].nonce = NoNonce
      /\ [full EXCEPT !.nonce = NoNonce].time = now + skew
      /\ [full EXCEPT !.nonce = NoNonce].intact
      /\ [full EXCEPT !.alg = "sha1"].nonce = q.nonce
      /\ [full EXCEPT !.alg = "sha1"].time = now + skew
      /\ [full EXCEPT !.alg = "sha1"].intact
  BY <1>1 DEF Token
<1>3. PICK t \in {full, [full EXCEPT !.nonce = NoNonce], [full EXCEPT !.alg = "sha1"]} :
        issued' = issued \cup {t}
  BY DEF Issue
<1>4. QED
  BY <1>1, <1>2, <1>3

LEMMA TypeStep == IInv /\ [Next]_vars => WorldType' /\ ClientType' /\ NetworkType'
<1> SUFFICES ASSUME IInv, [Next]_vars PROVE WorldType' /\ ClientType' /\ NetworkType'
  OBVIOUS
<1>1. WorldType /\ ClientType /\ NetworkType /\ TimestampAssumption
  BY TimestampAssumption DEF IInv
<1>2. CASE Tick
  BY <1>1, <1>2 DEF Tick, WorldType, ClientType, NetworkType, TimestampAssumption
<1>3. ASSUME NEW q \in requests, NEW who \in Authorities, Issue(q, who)
      PROVE  WorldType' /\ ClientType' /\ NetworkType'
  <2>1. PICK t \in Token : issued' = issued \cup {t} /\ t.intact
    BY <1>1, <1>3, IssuedToken
  <2>2. UNCHANGED <<world, pc, attempts, token, start, requests>>
    BY <1>3 DEF Issue
  <2>3. WorldType'
    BY <1>1, <2>2 DEF WorldType, world
  <2>4. ClientType'
    BY <1>1, <2>1, <2>2 DEF ClientType
  <2>5. NetworkType'
    BY <1>1, <2>1, <2>2 DEF NetworkType
  <2>6. QED
    BY <2>3, <2>4, <2>5
<1>4. ASSUME NEW c \in Clients, Client(c) PROVE WorldType' /\ ClientType' /\ NetworkType'
  <2>1. UNCHANGED world /\ issued' = issued
    BY <1>4 DEF Client, Ask, Stop, Bind, Finish, Again, Receive, Reuse
  <2>2. WorldType'
    BY <1>1, <2>1 DEF WorldType, world
  <2>3. CASE Ask(c)
    <3>1. requests' \subseteq [imprint : Signatures, nonce : Clients \X Nat]
      <4>1. setup[c].sig \in Signatures /\ attempts[c] + 1 \in Nat
        BY <1>1 DEF WorldType, ClientType
      <4>2. QED
        BY <1>1, <2>3, <4>1 DEF Ask, NetworkType
    <3>2. attempts' \in [Clients -> Nat] /\ start' \in [Clients -> -1..MaxTime]
      <4>1. now \in -1..MaxTime /\ attempts[c] + 1 \in Nat
        BY <1>1 DEF WorldType, ClientType
      <4>2. QED
        BY <1>1, <2>3, <4>1 DEF Ask, ClientType
    <3>3. pc' \in [Clients -> {"idle", "wait", "acquired", "last", "done", "failed"}]
      BY <1>1, <2>3 DEF Ask, Fail, ClientType
    <3>4. token' = token /\ issued' = issued
      BY <2>3 DEF Ask
    <3>5. QED
      BY <1>1, <2>2, <3>1, <3>2, <3>3, <3>4 DEF ClientType, NetworkType
  <2>4. CASE Stop(c) \/ Bind(c)
    BY <1>1, <2>1, <2>2, <2>4 DEF Stop, Bind, Fail, ClientType, NetworkType
  <2>5. CASE Finish(c) \/ Again(c)
    BY <1>1, <2>1, <2>2, <2>5 DEF Finish, Again, ClientType, NetworkType
  <2>6. ASSUME NEW t \in issued, NEW d \in Damaged(t), Receive(c, d)
        PROVE  ClientType' /\ NetworkType'
    <3>1. token' \in [Clients -> issued \cup {NoToken}]
      BY <1>1, <2>6, AcceptedWasIssued DEF Receive, ClientType
    <3>2. QED
      BY <1>1, <2>1, <2>6, <3>1 DEF Receive, Fail, ClientType, NetworkType
  <2>7. ASSUME NEW t \in issued, Reuse(c, t) PROVE ClientType' /\ NetworkType'
    BY <1>1, <2>1, <2>7, TimestampAssumption DEF Reuse, ClientType, NetworkType
  <2>8. QED
    BY <1>4, <2>2, <2>3, <2>4, <2>5, <2>6, <2>7 DEF Client
<1>5. CASE UNCHANGED vars
  BY <1>1, <1>5 DEF vars, world, WorldType, ClientType, NetworkType
<1>6. QED
  BY <1>2, <1>3, <1>4, <1>5 DEF Next

---------------------------------------------------------------------------
(* Nonces and clocks *)

LEMMA AttemptsStep == IInv /\ [Next]_vars => AttemptsLeft' /\ RequestsAsked'
<1> SUFFICES ASSUME IInv, [Next]_vars PROVE AttemptsLeft' /\ RequestsAsked'
  OBVIOUS
<1>1. /\ WorldType /\ ClientType /\ NetworkType /\ AttemptsLeft /\ RequestsAsked
      /\ MaxAttempts \in Nat \ {0} /\ MaxTime \in Nat
  BY TimestampAssumption DEF IInv
<1>2. CASE Tick
  BY <1>1, <1>2 DEF Tick, WorldType, ClientType, AttemptsLeft, RequestsAsked
<1>3. ASSUME NEW q \in requests, NEW who \in Authorities, Issue(q, who)
      PROVE  AttemptsLeft' /\ RequestsAsked'
  BY <1>1, <1>3 DEF Issue, world, AttemptsLeft, RequestsAsked
<1>4. ASSUME NEW c \in Clients, Client(c) PROVE AttemptsLeft' /\ RequestsAsked'
  <2>1. now' = now
    BY <1>4 DEF Client, Ask, Stop, Bind, Finish, Again, Receive, Reuse, world
  <2>2. CASE Ask(c) /\ MayAsk(c)
    <3>1. /\ attempts' = [attempts EXCEPT ![c] = @ + 1]
          /\ start' = [start EXCEPT ![c] = now] /\ pc' = [pc EXCEPT ![c] = "wait"]
          /\ requests' = requests \cup
               {[imprint |-> setup[c].sig, nonce |-> <<c, attempts[c] + 1>>]}
          /\ attempts[c] < MaxAttempts
      BY <1>1, <2>2 DEF Ask, AttemptsLeft
    <3>2. AttemptsLeft'
      BY <1>1, <2>1, <3>1 DEF WorldType, ClientType, AttemptsLeft
    <3>3. RequestsAsked'
      <4>1. SUFFICES ASSUME NEW q \in requests', NEW d \in Clients, NEW k \in Nat,
                            q.nonce = <<d, k>>
                     PROVE  k <= attempts'[d]
        BY DEF RequestsAsked
      <4>2. attempts[d] <= attempts'[d] /\ attempts'[c] = attempts[c] + 1
            /\ attempts[d] \in Nat /\ attempts'[d] \in Nat
        BY <1>1, <3>1 DEF ClientType
      <4>3. CASE q \in requests
        <5>1. k <= attempts[d]
          BY <1>1, <4>1, <4>3 DEF RequestsAsked
        <5>2. QED
          BY <4>2, <5>1
      <4>4. CASE q \notin requests
        <5>1. <<d, k>> = <<c, attempts[c] + 1>>
          BY <3>1, <4>1, <4>4
        <5>2. QED
          BY <4>2, <5>1
      <4>5. QED
        BY <4>3, <4>4
    <3>4. QED
      BY <3>2, <3>3
  <2>3. CASE ~(Ask(c) /\ MayAsk(c))
    <3>1. attempts' = attempts /\ requests' = requests
      BY <1>4, <2>3 DEF Client, Ask, Stop, Bind, Finish, Again, Receive, Reuse
    <3>2. start' = start \/ start' = [start EXCEPT ![c] = -1]
      BY <1>4, <2>3 DEF Client, Ask, Stop, Bind, Finish, Again, Receive, Reuse
    <3>3. \A d \in Clients : pc'[d] = "idle" => attempts[d] < MaxAttempts
      BY <1>1, <1>4, <2>3 DEF Client, Ask, Stop, Bind, Finish, Again, Receive, Reuse, Fail,
                              ClientType, AttemptsLeft
    <3>4. \A d \in Clients : start'[d] <= now
      BY <1>1, <3>2 DEF WorldType, ClientType, AttemptsLeft
    <3>5. QED
      BY <1>1, <2>1, <3>1, <3>3, <3>4 DEF AttemptsLeft, RequestsAsked
  <2>4. QED
    BY <2>2, <2>3
<1>5. CASE UNCHANGED vars
  BY <1>1, <1>5 DEF vars, world, AttemptsLeft, RequestsAsked
<1>6. QED
  BY <1>2, <1>3, <1>4, <1>5 DEF Next

\* An authority signs after the request, and a new attempt has a new nonce.
LEMMA StampedStep == IInv /\ [Next]_vars => Stamped'
<1> SUFFICES ASSUME IInv, [Next]_vars PROVE Stamped'
  OBVIOUS
<1>1. /\ WorldType /\ ClientType /\ NetworkType /\ AttemptsLeft /\ RequestsAsked /\ Stamped
      /\ MaxAttempts \in Nat \ {0} /\ MaxTime \in Nat
  BY TimestampAssumption DEF IInv
<1>2. /\ now \in Nat /\ skew \in Int
      /\ \A t \in issued : t \in Token /\ t.time \in Int
      /\ \A c \in Clients : attempts[c] \in Nat /\ start[c] \in Int
  BY <1>1 DEF WorldType, ClientType, NetworkType, Token
<1>3. CASE Tick
  <2>1. /\ now' = now + 1
        /\ UNCHANGED <<skew, issued, attempts, start>>
    BY <1>3 DEF Tick
  <2>2. QED
    BY <1>1, <1>2, <2>1 DEF Stamped
<1>4. ASSUME NEW q \in requests, NEW who \in Authorities, Issue(q, who) PROVE Stamped'
  <2>1. PICK t \in Token :
          /\ issued' = issued \cup {t} /\ t.time = now + skew
          /\ t.nonce = q.nonce \/ t.nonce = NoNonce
    BY <1>1, <1>4, TimestampAssumption, IssuedToken
  <2>2. UNCHANGED <<now, skew, attempts, start>>
    BY <1>4 DEF Issue, world
  <2>3. t.time - skew = now /\ t.time - skew \in 0..now
    BY <1>2, <2>1
  <2>4. ASSUME NEW c \in Clients, NEW k \in Nat, t.nonce = <<c, k>>
        PROVE  k <= attempts[c] /\ start[c] <= t.time - skew
    <3>1. t.nonce = q.nonce
      BY <2>1, <2>4 DEF NoNonce
    <3>2. QED
      BY <1>1, <2>3, <2>4, <3>1 DEF RequestsAsked, AttemptsLeft
  <2>5. QED
    BY <1>1, <2>1, <2>2, <2>3, <2>4 DEF Stamped
<1>5. ASSUME NEW c \in Clients, Client(c) PROVE Stamped'
  <2>1. UNCHANGED <<now, skew, issued>>
    BY <1>5 DEF Client, Ask, Stop, Bind, Finish, Again, Receive, Reuse, world
  <2>2. CASE Ask(c) /\ MayAsk(c)
    <3>1. /\ attempts' = [attempts EXCEPT ![c] = @ + 1]
          /\ start' = [start EXCEPT ![c] = now]
      BY <2>2 DEF Ask
    <3>2. SUFFICES ASSUME NEW t \in issued, NEW d \in Clients, NEW k \in Nat,
                          t.nonce = <<d, k>>
                   PROVE  k <= attempts'[d]
                            /\ (k = attempts'[d] => start'[d] <= t.time - skew)
      BY <1>1, <2>1 DEF Stamped
    <3>3. k <= attempts[d] /\ (k = attempts[d] => start[d] <= t.time - skew)
      BY <1>1, <3>2 DEF Stamped
    <3>4. CASE d = c
      <4>1. attempts'[d] = attempts[d] + 1
        BY <1>1, <3>1, <3>4 DEF ClientType
      <4>2. QED
        BY <1>2, <3>3, <4>1
    <3>5. CASE d # c
      <4>1. attempts'[d] = attempts[d] /\ start'[d] = start[d]
        BY <1>1, <3>1, <3>5 DEF ClientType
      <4>2. QED
        BY <3>3, <4>1
    <3>6. QED
      BY <3>4, <3>5
  <2>3. CASE ~(Ask(c) /\ MayAsk(c))
    <3>1. attempts' = attempts
      BY <1>5, <2>3 DEF Client, Ask, Stop, Bind, Finish, Again, Receive, Reuse
    <3>2. start' = start \/ start' = [start EXCEPT ![c] = -1]
      BY <1>5, <2>3 DEF Client, Ask, Stop, Bind, Finish, Again, Receive, Reuse
    <3>3. \A d \in Clients : start'[d] = start[d] \/ start'[d] = -1
      BY <1>1, <3>2 DEF ClientType
    <3>4. \A t \in issued : 0 <= t.time - skew
      BY <1>1, <1>2 DEF Stamped
    <3>5. \A t \in issued, d \in Clients : start[d] <= t.time - skew => start'[d] <= t.time - skew
      BY <1>2, <3>3, <3>4
    <3>6. QED
      BY <1>1, <2>1, <3>1, <3>5 DEF Stamped
  <2>4. QED
    BY <2>2, <2>3
<1>6. CASE UNCHANGED vars
  BY <1>1, <1>6 DEF vars, world, Stamped
<1>7. QED
  BY <1>3, <1>4, <1>5, <1>6 DEF Next

LEMMA AnsweredStep == IInv /\ [Next]_vars => Answered'
<1> SUFFICES ASSUME IInv, [Next]_vars PROVE Answered'
  OBVIOUS
<1>1. ClientType /\ NetworkType /\ Answered
  BY DEF IInv
<1>2. ASSUME UNCHANGED <<pc, token, start, attempts>>, issued \subseteq issued'
      PROVE  Answered'
  BY <1>1, <1>2 DEF Answered, Nonce
<1>3. CASE Tick \/ UNCHANGED vars
  BY <1>2, <1>3 DEF Tick, vars
<1>4. ASSUME NEW q \in requests, NEW who \in Authorities, Issue(q, who) PROVE Answered'
  BY <1>2, <1>4 DEF Issue
<1>5. ASSUME NEW c \in Clients, Client(c) PROVE Answered'
  <2>1. issued' = issued
    BY <1>5 DEF Client, Ask, Stop, Bind, Finish, Again, Receive, Reuse
  <2>2. CASE Ask(c) \/ Stop(c) \/ Again(c)
    BY <1>1, <2>1, <2>2 DEF Ask, Stop, Again, Fail, Answered, Nonce, ClientType
  <2>3. CASE Bind(c) \/ Finish(c)
    BY <1>1, <2>1, <2>3 DEF Bind, Finish, Fail, Answered, Nonce, ClientType
  <2>4. ASSUME NEW t \in issued, NEW d \in Damaged(t), Receive(c, d) PROVE Answered'
    <3>1. CASE Accepts(c, d)
      <4>1. d \in issued /\ d.nonce = Nonce(c)
        BY <1>1, <3>1, AcceptedWasIssued DEF Accepts
      <4>2. QED
        BY <1>1, <2>1, <2>4, <3>1, <4>1 DEF Receive, Answered, Nonce, ClientType
    <3>2. CASE ~Accepts(c, d)
      BY <1>1, <2>1, <2>4, <3>2 DEF Receive, Fail, Answered, Nonce, ClientType
    <3>3. QED
      BY <3>1, <3>2
  <2>5. ASSUME NEW t \in issued, Reuse(c, t) PROVE Answered'
    BY <1>1, <2>1, <2>5 DEF Reuse, Answered, Nonce, ClientType
  <2>6. QED
    BY <1>5, <2>2, <2>3, <2>4, <2>5 DEF Client
<1>6. QED
  BY <1>3, <1>4, <1>5 DEF Next

LEMMA BoundStep == IInv /\ [Next]_vars => Bound'
<1> SUFFICES ASSUME IInv, [Next]_vars PROVE Bound'
  OBVIOUS
<1> USE DEF VerifyTimestampToken, Parses, Trusted, CodePolicy, CMSPath, certificatePolicy, appleAnchor,
            checkTimestampApplePolicy
<1>1. WorldType /\ ClientType /\ NetworkType /\ Answered /\ Bound
  BY DEF IInv
<1>2. \A c \in Clients : pc[c] \in {"last", "done"} => token[c].time \in Int
  BY <1>1 DEF Answered, NetworkType, Token
<1>3. CASE Tick
  <2>1. /\ now' = now + 1 /\ now \in Nat
        /\ UNCHANGED <<common, setup, pc, token>>
    BY <1>1, <1>3 DEF Tick, WorldType
  <2>2. QED
    BY <1>1, <1>2, <2>1 DEF Bound
<1>4. ASSUME NEW q \in requests, NEW who \in Authorities, Issue(q, who) PROVE Bound'
  BY <1>1, <1>4 DEF Issue, world, Bound
<1>5. ASSUME NEW c \in Clients, Client(c) PROVE Bound'
  <2>1. UNCHANGED <<now, common, setup>>
    BY <1>5 DEF Client, Ask, Stop, Bind, Finish, Again, Receive, Reuse, world
  <2>2. CASE Bind(c)
    BY <1>1, <2>1, <2>2 DEF Bind, Fail, Bound, ClientType
  <2>3. CASE ~Bind(c)
    <3>1. \A d \in Clients :
            pc'[d] \in {"last", "done"} => pc[d] \in {"last", "done"} /\ token'[d] = token[d]
      BY <1>1, <1>5, <2>3 DEF Client, Ask, Stop, Finish, Again, Receive, Reuse, Fail, ClientType
    <3>2. QED
      BY <1>1, <2>1, <3>1 DEF Bound
  <2>4. QED
    BY <2>2, <2>3
<1>6. CASE UNCHANGED vars
  BY <1>1, <1>6 DEF vars, world, Bound
<1>7. QED
  BY <1>3, <1>4, <1>5, <1>6 DEF Next

---------------------------------------------------------------------------
(* Theorems *)

\* Nonces, clocks and tokens stay related as IInv says, whatever the network loses,
\* repeats, delays or damages (timestamp.go, timestampCMSBound).
THEOREM InductiveInvariant == Spec => []IInv
<1>1. IInv /\ [Next]_vars => IInv'
  BY TypeStep, AttemptsStep, StampedStep, AnsweredStep, BoundStep DEF IInv
<1>2. QED
  BY <1>1, InitInvariant, PTL DEF Spec

\* A stamp that an attempt acquired was made after this attempt asked, also when
\* answers to earlier attempts or to others arrive late; and whatever was stamped
\* verifies from then on for whoever trusts a certificate that the CMS carries, while
\* who trusts its missing root judges that root only then (AcquireTimestamp,
\* timestampCMSBound, verifyInput).
THEOREM StampsLastAlways == Spec => []StampsLast
<1>1. IInv => StampsLast
  <2> SUFFICES ASSUME IInv PROVE StampsLast
    OBVIOUS
  <2>1. /\ WorldType /\ ClientType /\ NetworkType /\ AttemptsLeft /\ Stamped
        /\ Answered /\ Bound /\ MaxTime \in Nat /\ MaxAttempts \in Nat
    BY TimestampAssumption DEF IInv
  <2>2. TypeOK
    <3>1. attempts \in [Clients -> 0..MaxAttempts]
      BY <2>1 DEF ClientType, AttemptsLeft
    <3>2. \A t \in issued : t.intact /\ t.time \in -1..MaxTime + 1 /\ t.tsa \in Authorities
      <4>1. SUFFICES ASSUME NEW t \in issued
                     PROVE  t.intact /\ t.time \in -1..MaxTime + 1 /\ t.tsa \in Authorities
        OBVIOUS
      <4>2. t.intact /\ t.time \in Int /\ t.tsa \in Authorities
        BY <2>1 DEF NetworkType, Token
      <4>3. t.time - skew \in 0..now
        BY <2>1 DEF Stamped
      <4>4. QED
        BY <2>1, <4>2, <4>3 DEF WorldType
    <3>3. QED
      BY <2>1, <3>1, <3>2 DEF TypeOK, WorldType, ClientType, NetworkType
  <2>3. Timely
    <3>1. SUFFICES ASSUME NEW c \in Clients, pc[c] = "done", start[c] # -1
                   PROVE  token[c].time - skew \in start[c]..now
      BY DEF Timely
    <3>2. token[c] \in issued /\ token[c].nonce = <<c, attempts[c]>> /\ attempts[c] \in Nat
      BY <2>1, <3>1 DEF Answered, Nonce, ClientType
    <3>3. token[c].time - skew \in 0..now /\ start[c] <= token[c].time - skew
      BY <2>1, <3>2 DEF Stamped
    <3>4. QED
      BY <2>1, <3>3 DEF ClientType, WorldType
  <2>4. Lasting
    <3>1. SUFFICES ASSUME NEW c \in Clients, pc[c] = "done", NEW v \in Trusts, NEW at \in now..MaxTime + 2
                   PROVE  Verifies(v, setup[c].sig, token[c], at)
                            <=> v <= common.carried \/ AsksOfTheRoot(v, token[c])
      BY DEF Lasting
    <3> DEFINE t == token[c]
    <3>2. /\ VerifyTimestampToken(t, setup[c].sig, common.roots, now)
          /\ CodePolicy(t) /\ checkTimestampApplePolicy(CMSPath, t)
      BY <2>1, <3>1 DEF Bound
    <3>3. /\ t.time \in Int /\ now \in Int /\ ChainLength \in Nat \ {0}
          /\ common.carried \in 1..ChainLength /\ v \in 1..ChainLength
      BY <2>1, <3>1, TimestampAssumption DEF Answered, NetworkType, Token, WorldType, Trusts
    <3>4. VerifyTimestampToken(t, setup[c].sig, common.roots, at)
      BY <3>1, <3>2, <3>3 DEF VerifyTimestampToken, Trusted
    <3>5. \A i \in 1..common.carried : t.time \in common.valid[i]
      BY <3>2 DEF CodePolicy, certificatePolicy, CMSPath
    \* Whom the CMS itself leads to, no more is asked of.
    <3>6. CASE v <= common.carried
      <4>1. t.time \in common.valid[1]
        BY <3>3, <3>5
      <4>2. VerifyCertificateChain(v, t.time)
        BY <3>3, <3>5, <3>6 DEF VerifyCertificateChain, certificatePolicy
      <4>3. VerifiedPath(v) \subseteq CMSPath
        BY <3>3, <3>6 DEF VerifiedPath, CMSPath
      <4>4. checkTimestampApplePolicy(VerifiedPath(v), t)
        BY <3>2, <4>3 DEF checkTimestampApplePolicy, appleAnchor
      <4>5. QED
        BY <3>4, <3>6, <4>1, <4>2, <4>4 DEF Verifies
    <3>7. CASE v > common.carried
      <4>1. v # 1 /\ VerifiedPath(v) = 1..v
        BY <3>3, <3>7 DEF VerifiedPath
      <4>2. VerifyCertificateChain(v, t.time) <=> v = common.carried + 1 /\ t.time \in common.valid[v]
        <5>1. CASE v = common.carried + 1
          <6>1. \A i \in 1..v : i \in 1..common.carried \/ i = v
            BY <3>3, <5>1
          <6>2. v - 1 <= common.carried /\ v \in 1..v
            BY <3>3, <5>1
          <6>3. QED
            BY <3>5, <5>1, <6>1, <6>2 DEF VerifyCertificateChain, certificatePolicy
        <5>2. CASE v # common.carried + 1
          <6>1. ~(v - 1 <= common.carried)
            BY <3>3, <3>7, <5>2
          <6>2. QED
            BY <5>2, <6>1 DEF VerifyCertificateChain
        <5>3. QED
          BY <5>1, <5>2
      <4>3. t.time \in common.valid[1] /\ ~(v <= common.carried)
        BY <3>3, <3>5, <3>7
      <4>4. QED
        BY <3>4, <4>1, <4>2, <4>3 DEF Verifies, AsksOfTheRoot
    <3>8. QED
      BY <3>3, <3>6, <3>7
  <2>5. QED
    BY <2>2, <2>3, <2>4 DEF StampsLast
<1>2. QED
  BY <1>1, InductiveInvariant, PTL

---------------------------------------------------------------------------
(* The exchange *)

\* The places before the body.
Preface == {"idle", "write", "status", "headers"}

\* A line read is a line less in the budget; only a chunked body gets a second one.
Metered ==
  /\ lines + budget <= 2 * HeaderLimit
  /\ reading \in Preface => lines + budget = HeaderLimit
  /\ reading = "headers" => interim <= MaxInterim

\* What the headers said of the body that is read, and that it was read as they said.
Framed ==
  /\ body = sent
  /\ reading \in Preface => body = 0
  /\ reading \notin Preface \cup {"failed"} => statusCode = 200
  /\ reading = "length" => headers.te = "absent" /\ headers.cl \in 0..MaxBody /\ body + rest = headers.cl
  /\ reading = "rest" => headers.te = "absent" /\ headers.cl = -1
  /\ reading \in {"chunk", "data", "trailers"} => body + rest <= MaxBody
  /\ reading \in {"chunk", "trailers"} => rest = 0
  /\ reading \in {"final", "done"} =>
       whole /\ body <= MaxBody /\ (headers.cl # -1 => headers.te = "absent" /\ body = headers.cl)

\* A response that was complete only after the deadline is known to be late.
Remembered ==
  /\ late => expired
  /\ reading = "done" => ~late

ExchangeInv == ExchangeTypeOK /\ Metered /\ Framed /\ Remembered

USE DEF Preface

---------------------------------------------------------------------------
LEMMA NoHeadersType == NoHeaders \in HeaderTypes
BY ExchangeAssumption DEF NoHeaders, HeaderTypes

\* A header that is kept has a value of its own kind.
LEMMA HeaderKept ==
  ASSUME NEW h \in HeaderTypes, NEW name \in {"cl", "te", "ct", "ce"}, NEW v \in Values(name)
  PROVE  [h EXCEPT ![name] = v] \in HeaderTypes
<1>1. CASE name = "cl"
  <2>1. v \in {-2} \cup 0..MaxBody + 1
    BY <1>1 DEF Values
  <2>2. v \in -2..MaxBody + 1
    BY <2>1, ExchangeAssumption
  <2>3. QED
    BY <1>1, <2>2, ExchangeAssumption DEF HeaderTypes, Values
<1>2. CASE name = "te"
  BY <1>2, ExchangeAssumption DEF HeaderTypes, Values
<1>3. CASE name = "ct"
  BY <1>3, ExchangeAssumption DEF HeaderTypes, Values
<1>4. CASE name = "ce"
  BY <1>4, ExchangeAssumption DEF HeaderTypes, Values
<1>5. QED
  BY <1>1, <1>2, <1>3, <1>4

\* What Framing answers.
LEMMA FramingIs ==
  ASSUME NEW h \in HeaderTypes
  PROVE  /\ Framing(h) \in {"malformed", "chunk", "rest", "length"}
         /\ Framing(h) = "length" => h.te = "absent" /\ h.cl \in 0..MaxBody
         /\ Framing(h) = "rest" => h.te = "absent" /\ h.cl = -1
BY DEF Framing

\* A failure keeps what an invariant says of every place.
LEMMA FailType ==
  ASSUME NEW cause \in {"deadline", "network", "malformed"}, FailExchange(cause), ExchangeTypeOK
  PROVE  reading' = "failed" /\ failure' \in {"none", "deadline", "network", "malformed"}
BY DEF FailExchange, ExchangeTypeOK, PlaceType

\* What the invariant says of the limits and of numbers.
LEMMA Numbers ==
  ASSUME ExchangeInv
  PROVE  /\ HeaderLimit \in Nat /\ HeaderLimit > 0 /\ MaxHeaders \in Nat /\ MaxInterim \in Nat /\ MaxBody \in Nat
         /\ budget \in Int /\ budget <= HeaderLimit /\ (reading # "failed" => budget >= 0)
         /\ interim \in Nat /\ interim <= MaxInterim + 1 /\ count \in Nat /\ count <= MaxHeaders
         /\ body \in Nat /\ body <= MaxBody + 1 /\ rest \in Nat /\ rest <= MaxBody
         /\ lines \in Nat /\ sent \in Nat
BY ExchangeAssumption DEF ExchangeInv, ExchangeTypeOK, CountType

\* The conjuncts of the invariant, put together again after a step.
LEMMA Together ==
  ASSUME PlaceType', FlagType', CountType', Metered', Framed', Remembered'
  PROVE  ExchangeInv'
BY DEF ExchangeInv, ExchangeTypeOK

LEMMA FlagsKept ==
  ASSUME ExchangeInv, UNCHANGED <<expired, late, whole>>
  PROVE  FlagType'
BY DEF ExchangeInv, ExchangeTypeOK, FlagType

LEMMA CountsKept ==
  ASSUME ExchangeInv,
         budget' \in Int, -1 <= budget', budget' <= HeaderLimit, budget' < 0 => reading' = "failed",
         interim' \in Nat, interim' <= MaxInterim + 1, count' \in Nat, count' <= MaxHeaders,
         body' \in Nat, body' <= MaxBody + 1, rest' \in Nat, rest' <= MaxBody,
         lines' \in Nat, sent' \in Nat
  PROVE  CountType'
BY Numbers DEF CountType

LEMMA PlaceKept ==
  ASSUME ExchangeInv, reading' \in Stages, failure' \in {"none", "deadline", "network", "malformed"}, UNCHANGED <<statusCode, headers>>
  PROVE  PlaceType'
BY DEF ExchangeInv, ExchangeTypeOK, PlaceType

LEMMA InitExchange == ExchangeInit => ExchangeInv
<1> SUFFICES ASSUME ExchangeInit PROVE ExchangeInv
  OBVIOUS
<1>1. PlaceType
  BY NoHeadersType DEF ExchangeInit, PlaceType, Stages
<1>2. FlagType
  BY DEF ExchangeInit, FlagType
<1>3. /\ HeaderLimit \in Nat /\ MaxHeaders \in Nat /\ MaxInterim \in Nat /\ MaxBody \in Nat
  BY ExchangeAssumption
<1>4. /\ reading = "idle" /\ budget = HeaderLimit /\ interim = 0 /\ count = 0
      /\ body = 0 /\ rest = 0 /\ lines = 0 /\ sent = 0
  BY DEF ExchangeInit
<1>5. CountType
  BY <1>3, <1>4 DEF CountType
<1>6. Metered
  BY <1>3, <1>4 DEF Metered
<1>7. Framed
  BY <1>4 DEF Framed
<1>8. Remembered
  BY DEF ExchangeInit, Remembered
<1>9. QED
  BY <1>1, <1>2, <1>5, <1>6, <1>7, <1>8 DEF ExchangeInv, ExchangeTypeOK

\* A failure keeps the invariant, whatever else it keeps.
LEMMA FailKeeps ==
  ASSUME ExchangeInv, reading' = "failed", failure' \in {"none", "deadline", "network", "malformed"},
         UNCHANGED <<count, statusCode, headers, expired, late, sent, whole, body>>,
         rest' \in Nat, rest' <= MaxBody, interim' \in Nat, interim' <= MaxInterim + 1,
         budget' \in Int, -1 <= budget', budget' <= HeaderLimit,
         lines' \in Nat, lines' + budget' <= 2 * HeaderLimit
  PROVE  ExchangeInv'
<1>1. PlaceType'
  BY PlaceKept DEF Stages
<1>2. CountType'
  BY Numbers, CountsKept
<1>3. Metered'
  BY DEF Metered
<1>4. Framed'
  BY DEF ExchangeInv, Framed
<1>5. Remembered'
  BY DEF ExchangeInv, Remembered
<1>6. QED
  BY <1>1, <1>2, <1>3, <1>4, <1>5, FlagsKept, Together DEF ExchangeInv, ExchangeTypeOK

\* The same when nothing else changes.
LEMMA FailAlone ==
  ASSUME ExchangeInv, reading # "failed", reading' = "failed", failure' \in {"none", "deadline", "network", "malformed"},
         UNCHANGED <<response, content, expired, ghosts>>
  PROVE  ExchangeInv'
<1>1. UNCHANGED <<count, statusCode, headers, expired, late, sent, whole, body>>
  BY DEF response, content, ghosts
<1>5. budget' = budget /\ interim' = interim /\ rest' = rest /\ lines' = lines
  BY DEF response, content, ghosts
<1>2. lines + budget <= 2 * HeaderLimit
  BY DEF ExchangeInv, Metered
<1>3. /\ rest' \in Nat /\ rest' <= MaxBody /\ interim' \in Nat /\ interim' <= MaxInterim + 1
      /\ budget' \in Int /\ -1 <= budget' /\ budget' <= HeaderLimit
      /\ lines' \in Nat /\ lines' + budget' <= 2 * HeaderLimit
  <2>1. /\ budget \in Int /\ 0 <= budget /\ budget <= HeaderLimit /\ lines \in Nat
        /\ rest \in Nat /\ rest <= MaxBody /\ interim \in Nat /\ interim <= MaxInterim + 1
    BY Numbers
  <2>2. QED
    BY <1>2, <1>5, <2>1
<1>4. QED
  BY <1>1, <1>3, FailKeeps

\* A step to another place, which changes nothing else.
LEMMA MoveKeeps ==
  ASSUME ExchangeInv, reading' # reading, UNCHANGED <<response, content, expired, failure, ghosts>>,
         \/ reading = "idle" /\ reading' = "write"
         \/ reading = "write" /\ reading' = "status"
         \/ reading = "final" /\ reading' = "done" /\ late = FALSE
  PROVE  ExchangeInv'
<1>1. reading' \in Stages \ {"failed"} /\ reading # "failed" /\ UNCHANGED failure
  BY DEF Stages
<1>2. UNCHANGED <<budget, interim, count, statusCode, headers, body, rest, lines, sent>> /\ UNCHANGED <<expired, late, whole>>
  BY DEF response, content, ghosts
<1>3. PlaceType'
  BY <1>1, <1>2, PlaceKept DEF ExchangeInv, ExchangeTypeOK, PlaceType
<1>4. CountType'
  BY <1>1, <1>2, Numbers, CountsKept
<1>5. Metered'
  BY <1>2 DEF ExchangeInv, Metered
<1>6. Framed'
  BY <1>2 DEF ExchangeInv, Framed
<1>7. Remembered'
  BY <1>2 DEF ExchangeInv, Remembered
<1>8. QED
  BY <1>2, <1>3, <1>4, <1>5, <1>6, <1>7, FlagsKept, Together DEF ExchangeInv, ExchangeTypeOK

LEMMA QuietKeeps ==
  ASSUME ExchangeInv,
         Dial \/ WriteRequest \/ CallFails \/ TooManyInterim \/ TooManyHeaders \/ TooLong \/ Return
  PROVE  ExchangeInv'
<1>1. UNCHANGED <<response, content, expired, ghosts>> /\ reading # "failed"
  BY DEF Dial, WriteRequest, CallFails, TooManyInterim, TooManyHeaders, TooLong, Return
<1>2. CASE reading' = "failed"
  <2>1. \E cause \in {"deadline", "network", "malformed"} : FailExchange(cause)
    BY <1>2 DEF Dial, WriteRequest, CallFails, TooManyInterim, TooManyHeaders, TooLong, Return
  <2>2. failure' \in {"none", "deadline", "network", "malformed"}
    BY <2>1, FailType DEF ExchangeInv
  <2>3. QED
    BY <1>1, <1>2, <2>2, FailAlone
<1>3. CASE reading' # "failed"
  <2>1. UNCHANGED failure
    BY <1>3 DEF Dial, WriteRequest, CallFails, TooManyInterim, TooManyHeaders, TooLong, Return, FailExchange
  <2>2. \/ reading = "idle" /\ reading' = "write"
        \/ reading = "write" /\ reading' = "status"
        \/ reading = "final" /\ reading' = "done" /\ ~expired
    BY <1>3 DEF Dial, WriteRequest, CallFails, TooManyInterim, TooManyHeaders, TooLong, Return, FailExchange
  <2>3. ~expired => late = FALSE
    BY DEF ExchangeInv, ExchangeTypeOK, FlagType, Remembered
  <2>4. QED
    BY <1>1, <2>1, <2>2, <2>3, MoveKeeps
<1>4. QED
  BY <1>2, <1>3

LEMMA ExpireKeeps ==
  ASSUME ExchangeInv, Expire
  PROVE  ExchangeInv'
<1>1. UNCHANGED <<reading, budget, interim, count, statusCode, headers, body, rest, failure, lines, sent>> /\ reading # "done"
  BY DEF Expire, Ended, response, content, ghosts
<1>2. expired' = TRUE /\ UNCHANGED <<late, whole>>
  BY DEF Expire, ghosts
<1>3. PlaceType'
  BY <1>1 DEF ExchangeInv, ExchangeTypeOK, PlaceType
<1>4. FlagType'
  BY <1>2 DEF ExchangeInv, ExchangeTypeOK, FlagType
<1>5. CountType'
  BY <1>1 DEF ExchangeInv, ExchangeTypeOK, CountType
<1>6. Metered'
  BY <1>1 DEF ExchangeInv, Metered
<1>7. Framed'
  BY <1>1, <1>2 DEF ExchangeInv, Framed
<1>8. Remembered'
  BY <1>1, <1>2 DEF Remembered
<1>9. QED
  BY <1>3, <1>4, <1>5, <1>6, <1>7, <1>8, Together DEF ExchangeInv, ExchangeTypeOK

---------------------------------------------------------------------------
(* Lines *)

LEMMA BadLineKeeps ==
  ASSUME ExchangeInv, BadLine
  PROVE  ExchangeInv'
<1>1. /\ budget' = budget - 1 /\ lines' = lines + 1 /\ reading # "failed"
      /\ UNCHANGED <<interim, count, statusCode, headers, body, rest, expired, late, sent, whole>>
  BY DEF BadLine, Charged, content
<1>2. reading' = "failed" /\ failure' \in {"none", "deadline", "network", "malformed"}
  BY FailType DEF BadLine, ExchangeInv
<1>3. lines + budget <= 2 * HeaderLimit
  BY DEF ExchangeInv, Metered
<1>4. /\ budget' \in Int /\ -1 <= budget' /\ budget' <= HeaderLimit
      /\ lines' \in Nat /\ lines' + budget' <= 2 * HeaderLimit
  BY <1>1, <1>3, Numbers
<1>5. QED
  BY <1>1, <1>2, <1>4, Numbers, FailKeeps

\* What a line that was read costs.
LEMMA LineCosts ==
  ASSUME ExchangeInv, NEW where, Line(where)
  PROVE  /\ reading = where /\ budget > 0 /\ budget' = budget - 1 /\ lines' = lines + 1
         /\ budget' \in Int /\ 0 <= budget' /\ budget' <= HeaderLimit
         /\ lines' \in Nat /\ lines' + budget' = lines + budget
<1>1. reading = where /\ budget > 0 /\ budget' = budget - 1 /\ lines' = lines + 1
  BY DEF Line, Charged
<1>2. QED
  BY <1>1, Numbers

LEMMA StatusLineKeeps ==
  ASSUME ExchangeInv, NEW code \in {100, 101, 200, 500}, StatusLine(code)
  PROVE  ExchangeInv'
<1>1. /\ reading = "status" /\ reading' = "headers" /\ statusCode' = code /\ headers' = NoHeaders /\ count' = 0
      /\ interim <= MaxInterim
      /\ UNCHANGED <<interim, body, rest, failure, sent>>
  BY DEF StatusLine, Line, content
<1>2. UNCHANGED <<expired, late, whole>>
  BY DEF StatusLine
<1>3. /\ budget' \in Int /\ 0 <= budget' /\ budget' <= HeaderLimit
      /\ lines' \in Nat /\ lines' + budget' = lines + budget
  BY LineCosts DEF StatusLine
<1>4. PlaceType'
  <2>1. headers' \in HeaderTypes
    BY <1>1, NoHeadersType DEF ExchangeInv, ExchangeTypeOK
  <2>2. QED
    BY <1>1, <2>1 DEF ExchangeInv, ExchangeTypeOK, PlaceType, Stages
<1>5. CountType'
  BY <1>1, <1>3, Numbers, CountsKept
<1>6. Metered'
  BY <1>1, <1>3 DEF ExchangeInv, Metered
<1>7. Framed'
  BY <1>1 DEF ExchangeInv, Framed
<1>8. Remembered'
  BY <1>1, <1>2 DEF ExchangeInv, Remembered
<1>9. QED
  BY <1>2, <1>4, <1>5, <1>6, <1>7, <1>8, FlagsKept, Together DEF ExchangeInv, ExchangeTypeOK

LEMMA HeaderLineKeeps ==
  ASSUME ExchangeInv, NEW name \in {"cl", "te", "ct", "ce", "other"}, NEW where \in {"headers", "trailers"},
         NEW value \in Values(name), HeaderLine(name, value, where)
  PROVE  ExchangeInv'
<1>1. /\ reading = where /\ count < MaxHeaders /\ count' = count + 1
      /\ UNCHANGED <<interim, statusCode, body, rest, sent>>
  BY DEF HeaderLine, Line, content
<1>2. UNCHANGED <<expired, late, whole>>
  BY DEF HeaderLine
<1>3. /\ budget' \in Int /\ 0 <= budget' /\ budget' <= HeaderLimit
      /\ lines' \in Nat /\ lines' + budget' = lines + budget
  BY LineCosts DEF HeaderLine
<1>4. headers \in HeaderTypes /\ reading \in Stages /\ failure \in {"none", "deadline", "network", "malformed"}
  BY DEF ExchangeInv, ExchangeTypeOK, PlaceType
<1>5. headers' \in HeaderTypes
  <2>1. CASE headers' = headers
    BY <1>4, <2>1
  <2>2. CASE name # "other" /\ headers' = [headers EXCEPT ![name] = value]
    BY <1>4, <2>2, HeaderKept
  <2>3. QED
    BY <2>1, <2>2 DEF HeaderLine
<1>6. /\ reading' = reading \/ reading' = "failed"
      /\ failure' \in {"none", "deadline", "network", "malformed"}
  BY <1>4, FailType DEF HeaderLine, ExchangeInv
<1>7. PlaceType'
  BY <1>1, <1>4, <1>5, <1>6 DEF ExchangeInv, ExchangeTypeOK, PlaceType, Stages
<1>8. CountType'
  BY <1>1, <1>3, Numbers, CountsKept
<1>9. Metered'
  BY <1>1, <1>3, <1>6 DEF ExchangeInv, Metered
<1>10. Framed'
  BY <1>1, <1>6 DEF ExchangeInv, Framed
<1>11. Remembered'
  BY <1>1, <1>2, <1>6 DEF ExchangeInv, Remembered
<1>12. QED
  BY <1>2, <1>4, <1>7, <1>8, <1>9, <1>10, <1>11, FlagsKept, Together

LEMMA EndHeadersKeeps ==
  ASSUME ExchangeInv, EndHeaders
  PROVE  ExchangeInv'
<1> DEFINE framing == Framing(headers)
<1>1. /\ reading = "headers" /\ budget > 0 /\ lines' = lines + 1
      /\ UNCHANGED <<count, statusCode, headers, body, sent>>
  BY DEF EndHeaders
<1>2. UNCHANGED <<expired, late, whole>>
  BY DEF EndHeaders
<1>3. headers \in HeaderTypes /\ failure \in {"none", "deadline", "network", "malformed"}
  BY DEF ExchangeInv, ExchangeTypeOK, PlaceType
<1>4. lines + budget = HeaderLimit /\ interim <= MaxInterim
  BY <1>1 DEF ExchangeInv, Metered
<1>5. body = 0
  BY <1>1 DEF ExchangeInv, Framed
<1>6. /\ framing \in {"malformed", "chunk", "rest", "length"}
      /\ framing = "length" => headers.te = "absent" /\ headers.cl \in 0..MaxBody
      /\ framing = "rest" => headers.te = "absent" /\ headers.cl = -1
  BY <1>3, FramingIs
<1> HIDE DEF framing
<1>7. CASE statusCode \in Informational
  <2>1. /\ interim' = interim + 1 /\ budget' = budget - 1 /\ rest' = rest
        /\ reading' \in {"status", "failed"} /\ failure' \in {"none", "deadline", "network", "malformed"}
    BY <1>3, <1>7, FailType DEF EndHeaders, ExchangeInv
  <2>2. /\ budget' \in Int /\ 0 <= budget' /\ budget' <= HeaderLimit /\ lines' \in Nat
        /\ lines' + budget' = HeaderLimit /\ interim' \in Nat /\ interim' <= MaxInterim + 1
    BY <1>1, <1>4, <2>1, Numbers
  <2>3. PlaceType'
    BY <1>1, <2>1, PlaceKept DEF Stages
  <2>4. CountType'
    BY <1>1, <2>1, <2>2, Numbers, CountsKept
  <2>5. Metered'
    BY <2>1, <2>2, Numbers DEF Metered
  <2>6. Framed'
    BY <1>1, <2>1 DEF ExchangeInv, Framed
  <2>7. Remembered'
    BY <1>2, <2>1 DEF ExchangeInv, Remembered
  <2>8. QED
    BY <1>2, <1>3, <2>3, <2>4, <2>5, <2>6, <2>7, FlagsKept, Together
<1>8. CASE statusCode \notin Informational
  <2>1. /\ rest' = IF framing = "length" THEN headers.cl ELSE 0
        /\ budget' = IF framing = "chunk" THEN HeaderLimit ELSE budget - 1
        /\ interim' = interim
    BY <1>8 DEF EndHeaders, framing
  <2>2. /\ failure' \in {"none", "deadline", "network", "malformed"}
        /\ reading' = "failed" \/ (reading' = framing /\ framing # "malformed" /\ statusCode = 200)
    BY <1>3, <1>8, FailType DEF EndHeaders, ExchangeInv, Acceptable, framing
  <2>3. /\ budget' \in Int /\ 0 <= budget' /\ budget' <= HeaderLimit /\ lines' \in Nat
        /\ lines' + budget' <= 2 * HeaderLimit
    BY <1>1, <1>4, <2>1, Numbers
  <2>4. rest' \in Nat /\ rest' <= MaxBody
    <3>1. CASE framing = "length"
      BY <1>6, <2>1, <3>1, Numbers
    <3>2. CASE framing # "length"
      BY <2>1, <3>2, Numbers
    <3>3. QED
      BY <3>1, <3>2
  <2>5. PlaceType'
    BY <1>1, <1>6, <2>2, PlaceKept DEF Stages
  <2>6. CountType'
    BY <1>1, <2>1, <2>3, <2>4, Numbers, CountsKept
  <2>7. Metered'
    BY <1>6, <2>2, <2>3 DEF Metered
  <2>8. Framed'
    <3>1. body' = 0 /\ sent' = 0
      BY <1>1, <1>5 DEF ExchangeInv, Framed
    <3>2. CASE reading' = "failed"
      BY <3>1, <3>2 DEF Framed
    <3>3. CASE reading' = framing /\ framing # "malformed" /\ statusCode = 200
      <4>1. /\ headers' = headers /\ statusCode' = 200
            /\ framing = "length" => rest' = headers.cl
            /\ framing # "length" => rest' = 0
        BY <1>1, <2>1, <3>3
      <4>2. CASE framing = "length"
        BY <1>6, <3>1, <3>3, <4>1, <4>2, Numbers DEF Framed
      <4>3. CASE framing \in {"rest", "chunk"}
        BY <1>6, <3>1, <3>3, <4>1, <4>3, Numbers DEF Framed
      <4>4. QED
        BY <1>6, <3>3, <4>2, <4>3
    <3>4. QED
      BY <2>2, <3>2, <3>3
  <2>9. Remembered'
    BY <1>2, <1>6, <2>2 DEF ExchangeInv, Remembered
  <2>10. QED
    BY <1>2, <1>3, <2>5, <2>6, <2>7, <2>8, <2>9, FlagsKept, Together
<1>9. QED
  BY <1>7, <1>8

---------------------------------------------------------------------------
(* The body *)

LEMMA ByteKeeps ==
  ASSUME ExchangeInv, Byte \/ RestByte
  PROVE  ExchangeInv'
<1>1. /\ UNCHANGED <<reading, budget, interim, count, statusCode, headers, failure, lines>>
      /\ reading \in {"length", "data", "rest"} /\ body' = body + 1 /\ sent' = sent + 1
      /\ \/ reading \in {"length", "data"} /\ rest > 0 /\ rest' = rest - 1
         \/ reading = "rest" /\ body <= MaxBody /\ rest' = rest
  BY DEF Byte, RestByte, response
<1>2. UNCHANGED <<expired, late, whole>>
  BY DEF Byte, RestByte
<1>3. /\ reading = "length" => headers.cl \in 0..MaxBody /\ body + rest = headers.cl
      /\ reading = "data" => body + rest <= MaxBody
      /\ body = sent
  BY DEF ExchangeInv, Framed
<1>4. /\ body' \in Nat /\ body' <= MaxBody + 1 /\ rest' \in Nat /\ rest' <= MaxBody
      /\ reading # "rest" => body' + rest' = body + rest
  BY <1>1, <1>3, Numbers
<1>5. PlaceType'
  BY <1>1 DEF ExchangeInv, ExchangeTypeOK, PlaceType
<1>6. CountType'
  BY <1>1, <1>3, <1>4, Numbers, CountsKept
<1>7. Metered'
  BY <1>1 DEF ExchangeInv, Metered
<1>8. Framed'
  BY <1>1, <1>3, <1>4 DEF ExchangeInv, Framed
<1>9. Remembered'
  BY <1>1, <1>2 DEF ExchangeInv, Remembered
<1>10. QED
  BY <1>2, <1>5, <1>6, <1>7, <1>8, <1>9, FlagsKept, Together DEF ExchangeInv, ExchangeTypeOK

\* The body is complete, as the headers said that it would be.
LEMMA CompleteKeeps ==
  ASSUME ExchangeInv, reading \in {"length", "rest", "trailers"}, CompleteResponse, UNCHANGED <<interim, count, statusCode, headers, body, rest, sent>>,
         UNCHANGED <<failure, expired>>,
         budget' \in Int, 0 <= budget', budget' <= HeaderLimit, lines' \in Nat, lines' + budget' = lines + budget,
         body <= MaxBody, headers.cl # -1 => headers.te = "absent" /\ body = headers.cl
  PROVE  ExchangeInv'
<1>1. reading' = "final" /\ whole' = TRUE /\ late' = expired
  BY DEF CompleteResponse
<1>2. PlaceType'
  BY <1>1 DEF ExchangeInv, ExchangeTypeOK, PlaceType, Stages
<1>3. FlagType'
  BY <1>1 DEF ExchangeInv, ExchangeTypeOK, FlagType
<1>4. CountType'
  BY <1>1, Numbers, CountsKept
<1>5. Metered'
  BY <1>1 DEF ExchangeInv, Metered
<1>6. Framed'
  BY <1>1 DEF ExchangeInv, Framed
<1>7. Remembered'
  BY <1>1 DEF Remembered
<1>8. QED
  BY <1>2, <1>3, <1>4, <1>5, <1>6, <1>7, Together DEF ExchangeInv, ExchangeTypeOK

LEMMA EndBodyKeeps ==
  ASSUME ExchangeInv, EndLength \/ ServerCloses
  PROVE  ExchangeInv'
<1>1. /\ UNCHANGED <<budget, interim, count, statusCode, headers, body, rest, lines, sent>>
      /\ \/ reading = "length" /\ rest = 0
         \/ reading = "rest" /\ body <= MaxBody
  BY DEF EndLength, ServerCloses, response, content
<1>2. CompleteResponse /\ UNCHANGED <<failure, expired>>
  BY DEF EndLength, ServerCloses
<1>3. /\ reading = "length" => headers.te = "absent" /\ headers.cl \in 0..MaxBody /\ body + rest = headers.cl
      /\ reading = "rest" => headers.cl = -1
  BY DEF ExchangeInv, Framed
<1>4. body <= MaxBody /\ (headers.cl # -1 => headers.te = "absent" /\ body = headers.cl)
  BY <1>1, <1>3, Numbers
<1>5. budget' \in Int /\ 0 <= budget' /\ budget' <= HeaderLimit /\ lines' \in Nat /\ lines' + budget' = lines + budget
  BY <1>1, Numbers
<1>6. QED
  BY <1>1, <1>2, <1>4, <1>5, CompleteKeeps

LEMMA EndTrailersKeeps ==
  ASSUME ExchangeInv, EndTrailers
  PROVE  ExchangeInv'
<1>1. reading = "trailers" /\ UNCHANGED <<interim, count, statusCode, headers, body, rest, sent>> /\ UNCHANGED expired
  BY DEF EndTrailers, Line, content
<1>2. /\ budget' \in Int /\ 0 <= budget' /\ budget' <= HeaderLimit
      /\ lines' \in Nat /\ lines' + budget' = lines + budget
  BY LineCosts DEF EndTrailers
<1>3. CASE headers = NoHeaders
  <2>1. CompleteResponse /\ UNCHANGED failure
    BY <1>3 DEF EndTrailers
  <2>2. body <= MaxBody
    BY <1>1, Numbers DEF ExchangeInv, Framed
  <2>3. headers.cl = -1
    BY <1>3 DEF NoHeaders
  <2>4. QED
    BY <1>1, <1>2, <2>1, <2>2, <2>3, CompleteKeeps
<1>4. CASE headers # NoHeaders
  <2>1. FailExchange("malformed") /\ UNCHANGED <<late, whole>>
    BY <1>4 DEF EndTrailers
  <2>2. reading' = "failed" /\ failure' \in {"none", "deadline", "network", "malformed"}
    BY <2>1, FailType DEF ExchangeInv
  <2>3. lines + budget <= 2 * HeaderLimit
    BY DEF ExchangeInv, Metered
  <2>4. QED
    BY <1>1, <1>2, <2>1, <2>2, <2>3, Numbers, FailKeeps
<1>5. QED
  BY <1>3, <1>4

\* A chunk starts, or the body ends, within what is left of the limit.
LEMMA ChunkSizeKeeps ==
  ASSUME ExchangeInv, NEW n \in 0..MaxBody + 1, ChunkSize(n)
  PROVE  ExchangeInv'
<1>1. reading = "chunk" /\ UNCHANGED <<interim, statusCode, body, sent>>
  BY DEF ChunkSize, Line
<1>2. UNCHANGED <<expired, late, whole>>
  BY DEF ChunkSize
<1>3. /\ budget' \in Int /\ 0 <= budget' /\ budget' <= HeaderLimit
      /\ lines' \in Nat /\ lines' + budget' = lines + budget
  BY LineCosts DEF ChunkSize
<1>4. lines + budget <= 2 * HeaderLimit
  BY DEF ExchangeInv, Metered
<1>5. CASE n > MaxBody - body
  <2>1. FailExchange("malformed") /\ UNCHANGED <<rest, headers, count>>
    BY <1>5 DEF ChunkSize
  <2>2. reading' = "failed" /\ failure' \in {"none", "deadline", "network", "malformed"}
    BY <2>1, FailType DEF ExchangeInv
  <2>3. QED
    BY <1>1, <1>2, <1>3, <1>4, <2>1, <2>2, Numbers, FailKeeps
<1>6. CASE ~(n > MaxBody - body)
  <2>1. /\ rest' = n /\ headers' = NoHeaders /\ count' = 0 /\ failure' = failure
        /\ reading' = IF n = 0 THEN "trailers" ELSE "data"
    BY <1>6 DEF ChunkSize
  <2>2. n \in Nat /\ n <= MaxBody /\ body + n <= MaxBody
    BY <1>6, Numbers
  <2>3. PlaceType'
    <3>1. headers' \in HeaderTypes
      BY <2>1, NoHeadersType DEF ExchangeInv, ExchangeTypeOK
    <3>2. QED
      BY <1>1, <2>1, <3>1 DEF ExchangeInv, ExchangeTypeOK, PlaceType, Stages
  <2>4. CountType'
    BY <1>1, <1>3, <2>1, <2>2, Numbers, CountsKept
  <2>5. Metered'
    BY <1>3, <1>4, <2>1 DEF Metered
  <2>6. Framed'
    BY <1>1, <2>1, <2>2 DEF ExchangeInv, Framed
  <2>7. Remembered'
    BY <1>2, <2>1 DEF ExchangeInv, Remembered
  <2>8. QED
    BY <1>2, <2>3, <2>4, <2>5, <2>6, <2>7, FlagsKept, Together DEF ExchangeInv, ExchangeTypeOK
<1>7. QED
  BY <1>5, <1>6

LEMMA ChunkEndKeeps ==
  ASSUME ExchangeInv, NEW good \in BOOLEAN, ChunkEnd(good)
  PROVE  ExchangeInv'
<1>1. /\ reading = "data" /\ rest = 0 /\ budget' = budget - 1 /\ lines' = lines + 1
      /\ UNCHANGED <<interim, count, statusCode, headers, body, rest, sent>>
  BY DEF ChunkEnd, content
<1>2. UNCHANGED <<expired, late, whole>>
  BY DEF ChunkEnd
<1>3. lines + budget <= 2 * HeaderLimit
  BY DEF ExchangeInv, Metered
<1>4. /\ budget' \in Int /\ -1 <= budget' /\ budget' <= HeaderLimit
      /\ lines' \in Nat /\ lines' + budget' <= 2 * HeaderLimit
  BY <1>1, <1>3, Numbers
<1>5. CASE reading' = "chunk" /\ UNCHANGED failure /\ budget > 0
  <2>1. PlaceType'
    BY <1>1, <1>5 DEF ExchangeInv, ExchangeTypeOK, PlaceType, Stages
  <2>2. CountType'
    BY <1>1, <1>4, <1>5, Numbers, CountsKept
  <2>3. Metered'
    BY <1>4, <1>5 DEF Metered
  <2>4. Framed'
    BY <1>1, <1>5 DEF ExchangeInv, Framed
  <2>5. Remembered'
    BY <1>2, <1>5 DEF ExchangeInv, Remembered
  <2>6. QED
    BY <1>2, <2>1, <2>2, <2>3, <2>4, <2>5, FlagsKept, Together DEF ExchangeInv, ExchangeTypeOK
<1>6. CASE FailExchange("malformed")
  <2>1. reading' = "failed" /\ failure' \in {"none", "deadline", "network", "malformed"}
    BY <1>6, FailType DEF ExchangeInv
  <2>2. QED
    BY <1>1, <1>2, <1>4, <2>1, Numbers, FailKeeps
<1>7. QED
  BY <1>5, <1>6 DEF ChunkEnd

---------------------------------------------------------------------------

LEMMA StepKeeps == ExchangeInv /\ [ExchangeNext]_exchangeVars => ExchangeInv'
<1> SUFFICES ASSUME ExchangeInv, [ExchangeNext]_exchangeVars PROVE ExchangeInv'
  OBVIOUS
<1>1. CASE Server
  <2>1. CASE \E code \in {100, 101, 200, 500} : StatusLine(code)
    BY <2>1, StatusLineKeeps
  <2>2. CASE \E name \in {"cl", "te", "ct", "ce", "other"}, where \in {"headers", "trailers"} :
               \E value \in Values(name) : HeaderLine(name, value, where)
    BY <2>2, HeaderLineKeeps
  <2>3. CASE \E n \in 0..MaxBody + 1 : ChunkSize(n)
    BY <2>3, ChunkSizeKeeps
  <2>4. CASE \E good \in BOOLEAN : ChunkEnd(good)
    BY <2>4, ChunkEndKeeps
  <2>5. CASE BadLine \/ EndHeaders \/ EndTrailers
    BY <2>5, BadLineKeeps, EndHeadersKeeps, EndTrailersKeeps
  <2>6. CASE Byte \/ RestByte \/ ServerCloses
    BY <2>6, ByteKeeps, EndBodyKeeps
  <2>7. QED
    BY <1>1, <2>1, <2>2, <2>3, <2>4, <2>5, <2>6 DEF Server
<1>2. CASE ExchangeClient \/ CallFails
  BY <1>2, QuietKeeps, EndBodyKeeps DEF ExchangeClient
<1>3. CASE Expire
  BY <1>3, ExpireKeeps
<1>4. CASE UNCHANGED exchangeVars
  <2>1. /\ UNCHANGED <<reading, budget, interim, count, statusCode, headers, body, rest, failure, lines, sent>>
        /\ UNCHANGED <<expired, late, whole>>
    BY <1>4 DEF exchangeVars, response, content, ghosts
  <2>2. PlaceType' /\ CountType'
    BY <2>1 DEF ExchangeInv, ExchangeTypeOK, PlaceType, CountType
  <2>3. Metered' /\ Framed' /\ Remembered'
    BY <2>1 DEF ExchangeInv, Metered, Framed, Remembered
  <2>4. QED
    BY <2>1, <2>2, <2>3, FlagsKept, Together DEF ExchangeInv, ExchangeTypeOK
<1>5. QED
  BY <1>1, <1>2, <1>3, <1>4 DEF ExchangeNext

\* What each place in the response has established holds in every state of an exchange,
\* whatever the limits (timestamp_http.go:31-290).
THEOREM ExchangeInvariant == ExchangeSpec => []ExchangeInv
BY InitExchange, StepKeeps, PTL DEF ExchangeSpec

\* Whatever a server sends, and whenever the deadline passes, what the exchange returns
\* is a whole response, ended as its headers said, in time, for no more than two budgets
\* of lines and one byte over the limit (timestamp_http.go:31-290).
THEOREM ResponseIsWholeAlways == ExchangeSpec => []ResponseIsWhole
<1>1. ExchangeInv => ResponseIsWhole
  <2> SUFFICES ASSUME ExchangeInv PROVE ResponseIsWhole
    OBVIOUS
  <2>1. WholeResponse
    BY DEF ExchangeInv, Framed, WholeResponse
  <2>2. NoLateResponse
    BY DEF ExchangeInv, Remembered, NoLateResponse
  <2>3. BoundedReading
    <3>1. lines + budget <= 2 * HeaderLimit /\ (reading \in Preface => lines + budget = HeaderLimit)
      BY DEF ExchangeInv, Metered
    <3>2. body = sent
      BY DEF ExchangeInv, Framed
    <3>3. -1 <= budget
      BY DEF ExchangeInv, ExchangeTypeOK, CountType
    <3>4. QED
      BY <3>1, <3>2, <3>3, Numbers DEF BoundedReading
  <2>4. QED
    BY <2>1, <2>2, <2>3 DEF ExchangeInv, ResponseIsWhole
<1>2. QED
  BY <1>1, ExchangeInvariant, PTL

---------------------------------------------------------------------------
(* CertificatePaths *)

Collection == pool \in UNION {[1..n -> Pool] : n \in 0..PoolSize}

\* The calls of search that are under way make a path without its root.
Underway == phase \in {"search", "loop", "link", "done"}

PathSoFar ==
  /\ Len(path) >= 1 /\ path[1] = 0 /\ leaf.purpose
  /\ \A j, k \in 1..Len(path) : path[j] = path[k] => j = k
  /\ \A k \in 1..Len(path) - 1 : ~IsAnchor(path[k])
  /\ \A k \in 2..Len(path) : Signs(path[k], path[k - 1]) /\ CAPolicy(path[k], below[k])
  /\ \A k \in 1..Len(path) : below[k] = Between(path, k)

\* Where a call is: before its loop, in it, or at its root.
Places ==
  /\ phase \in {"policy", "search"} => next = 1
  /\ phase = "loop" => ~IsAnchor(Last(path))
  /\ Verified => IsAnchor(Last(path)) /\ (Len(path) = 1 => CAPolicy(0, 0))

\* A path leaves the calls under way at a certificate that the loop has tried.
Agrees(p, k) == k <= Len(p) /\ \A j \in 1..k : p[j] = path[j]
Upto(k) == IF k < Len(path) THEN path[k + 1] ELSE next
Before(p) == \E k \in 1..Len(path) : k < Len(p) /\ Agrees(p, k) /\ p[k + 1] < Upto(k)

\* Whatever has been tried leads to no path.
Tried ==
  ~limited =>
    /\ phase \in {"search", "loop"} => \A p \in Paths : ~Before(p)
    /\ phase = "failed" => Paths = {}

\* The premise of SameOrder.
Ordered ==
  /\ \A k \in 1..Len(path) - 1 : ~SelfIssued(path[k])
  /\ SelfIssued(Last(path)) \/ Parents(Last(path)) = {}

\* linkedCertificates has so far followed the path.
Followed ==
  /\ Len(linked) \in 1..Len(path)
  /\ \A k \in 1..Len(linked) : linked[k] = path[k]
  /\ phase = "done" => Len(linked) = Len(path)

Linking ==
  /\ phase = "link" => linked \in Seq(Indices) /\ linked # <<>>
  /\ Verified /\ Ordered =>
       \/ phase = "done" /\ linked = NotLinked /\ \E i \in ToSet(path) : Ambiguous(i)
       \/ linked \in Seq(Indices) /\ Followed

PathInv ==
  /\ Collection /\ PathTypeOK
  /\ Underway => PathSoFar
  /\ Places /\ Tried /\ Linking

---------------------------------------------------------------------------
(* What the given certificates are does not change. *)

LEMMA PoolIsSeq ==
  ASSUME Collection
  PROVE  pool \in Seq(Pool) /\ Len(pool) \in Nat /\ DOMAIN pool = 1..Len(pool)
<1>1. PICK n \in 0..PoolSize : pool \in [1..n -> Pool]
  BY DEF Collection
<1>2. n \in Nat
  BY PathAssumption
<1> QED BY <1>1, <1>2

LEMMA GivenAnchors ==
  ASSUME UNCHANGED given, NEW i
  PROVE  IsAnchor(i)' <=> IsAnchor(i)
BY DEF given, IsAnchor

LEMMA GivenSelfIssued ==
  ASSUME UNCHANGED given, NEW i
  PROVE  SelfIssued(i)' <=> SelfIssued(i)
BY DEF given, SelfIssued, Cert

LEMMA GivenSigns ==
  ASSUME UNCHANGED given, NEW i, NEW j
  PROVE  Signs(i, j)' <=> Signs(i, j)
BY DEF given, Signs, Cert

LEMMA GivenPolicy ==
  ASSUME UNCHANGED given, NEW i, NEW c
  PROVE  CAPolicy(i, c)' <=> CAPolicy(i, c)
BY DEF given, CAPolicy, Cert

LEMMA GivenBetween ==
  ASSUME UNCHANGED given, NEW p, NEW k
  PROVE  Between(p, k)' = Between(p, k)
<1>1. {j \in 2..k - 1 : ~SelfIssued(p[j])}' = {j \in 2..k - 1 : ~SelfIssued(p[j])}
  BY GivenSelfIssued
<1> QED BY <1>1 DEF Between

LEMMA GivenIsPath ==
  ASSUME UNCHANGED given, NEW p
  PROVE  IsPath(p)' <=> IsPath(p)
<1>1. \A k \in DOMAIN p : IsAnchor(p[k])' <=> IsAnchor(p[k])
  BY GivenAnchors
<1>2. \A k \in DOMAIN p : Signs(p[k], p[k - 1])' <=> Signs(p[k], p[k - 1])
  BY GivenSigns
<1>3. \A k \in DOMAIN p : CAPolicy(p[k], Between(p, k))' <=> CAPolicy(p[k], Between(p, k))
  <2> TAKE k \in DOMAIN p
  <2>1. Between(p, k)' = Between(p, k)
    BY GivenBetween
  <2> QED BY <2>1, GivenPolicy DEF CAPolicy, given, Cert
<1>4. CAPolicy(0, 0)' <=> CAPolicy(0, 0)
  BY GivenPolicy
<1>5. leaf' = leaf
  BY DEF given
<1> QED BY <1>1, <1>2, <1>3, <1>4, <1>5 DEF IsPath

LEMMA GivenPaths ==
  ASSUME UNCHANGED given
  PROVE  Paths' = Paths
<1> DEFINE All == UNION {[1..n -> Indices] : n \in 1..Len(pool) + 1}
<1>1. All' = All
  BY DEF given, Indices
<1>2. \A p : IsPath(p)' <=> IsPath(p)
  BY GivenIsPath
<1>3. Paths' = {p \in All' : IsPath(p)'} /\ Paths = {p \in All : IsPath(p)}
  BY DEF Paths
<1> HIDE DEF All
<1> QED BY <1>1, <1>2, <1>3

---------------------------------------------------------------------------
(* How many CAs are between the leaf and a certificate. *)

LEMMA BetweenSame ==
  ASSUME NEW p, NEW q, NEW k, \A j \in 2..k - 1 : p[j] = q[j]
  PROVE  Between(p, k) = Between(q, k)
<1>1. {j \in 2..k - 1 : ~SelfIssued(p[j])} = {j \in 2..k - 1 : ~SelfIssued(q[j])}
  OBVIOUS
<1> QED BY <1>1 DEF Between

LEMMA BetweenFinite ==
  ASSUME NEW p, NEW k \in Nat
  PROVE  IsFiniteSet({j \in 2..k - 1 : ~SelfIssued(p[j])}) /\ Between(p, k) \in Nat
<1>1. IsFiniteSet(2..k - 1)
  BY FS_Interval
<1>2. IsFiniteSet({j \in 2..k - 1 : ~SelfIssued(p[j])})
  BY <1>1, FS_Subset
<1> QED BY <1>2, FS_CardinalityType DEF Between

LEMMA BetweenFirst ==
  ASSUME NEW p
  PROVE  Between(p, 1) = 0
<1>1. {j \in 2..1 - 1 : ~SelfIssued(p[j])} = {}
  OBVIOUS
<1> QED BY <1>1, FS_EmptySet DEF Between

LEMMA BetweenNext ==
  ASSUME NEW p, NEW k \in Nat \ {0}
  PROVE  Between(p, k + 1) = IF k > 1 /\ ~SelfIssued(p[k]) THEN Between(p, k) + 1 ELSE Between(p, k)
<1> DEFINE S(n) == {j \in 2..n - 1 : ~SelfIssued(p[j])}
<1>1. k + 1 - 1 = k
  OBVIOUS
<1>2. CASE k > 1 /\ ~SelfIssued(p[k])
  <2>1. S(k + 1) = S(k) \cup {k} /\ k \notin S(k)
    BY <1>2
  <2>2. IsFiniteSet(S(k))
    BY BetweenFinite
  <2> HIDE DEF S
  <2>3. Cardinality(S(k + 1)) = Cardinality(S(k)) + 1
    BY <2>1, <2>2, FS_AddElement
  <2> QED BY <1>2, <2>3 DEF Between, S
<1>3. CASE ~(k > 1 /\ ~SelfIssued(p[k]))
  <2>1. S(k + 1) = S(k)
    BY <1>3
  <2> QED BY <1>3, <2>1 DEF Between
<1> QED BY <1>2, <1>3

LEMMA BetweenAll ==
  ASSUME NEW p, NEW k \in Nat, k > 1, \A j \in 2..k - 1 : ~SelfIssued(p[j])
  PROVE  Between(p, k) = k - 2
<1>1. {j \in 2..k - 1 : ~SelfIssued(p[j])} = 2..k - 1
  OBVIOUS
<1>2. Cardinality(2..k - 1) = IF 2 > k - 1 THEN 0 ELSE (k - 1) - 2 + 1
  BY FS_Interval
<1>3. Between(p, k) = Cardinality(2..k - 1)
  BY <1>1 DEF Between
<1>4. (IF 2 > k - 1 THEN 0 ELSE (k - 1) - 2 + 1) = k - 2
  OBVIOUS
<1> QED BY <1>2, <1>3, <1>4


---------------------------------------------------------------------------
(* Paths and the calls of search. *)

\* The shape of a path, whatever its elements mean.
LEMMA PathShape ==
  ASSUME Collection, NEW p \in Paths
  PROVE  /\ p \in Seq(Indices) /\ Len(p) >= 1 /\ DOMAIN p = 1..Len(p) /\ p[1] = 0
         /\ IsPath(p)
<1>1. Len(pool) \in Nat
  BY PoolIsSeq
<1>2. PICK n \in 1..Len(pool) + 1 : p \in [1..n -> Indices]
  BY DEF Paths
<1>3. p \in Seq(Indices) /\ Len(p) = n /\ DOMAIN p = 1..n
  BY <1>1, <1>2
<1>4. IsPath(p)
  BY DEF Paths
<1> QED BY <1>1, <1>2, <1>3, <1>4 DEF IsPath

\* Each certificate of a path has signed the one before it.
LEMMA PathSigned ==
  ASSUME NEW p, IsPath(p), NEW k \in DOMAIN p \ {1}
  PROVE  Signs(p[k], p[k - 1]) /\ CAPolicy(p[k], Between(p, k))
BY DEF IsPath

\* After the leaf come certificates of the pool.
LEMMA PathIsOfPool ==
  ASSUME Collection, NEW p \in Paths, NEW k \in 2..Len(p)
  PROVE  p[k] \in 1..Len(pool)
<1>1. /\ p \in Seq(Indices) /\ Len(p) >= 1 /\ DOMAIN p = 1..Len(p) /\ p[1] = 0
      /\ IsPath(p)
  BY PathShape
<1>2. k \in DOMAIN p /\ 1 \in DOMAIN p /\ k # 1
  BY <1>1
<1>3. p[k] # p[1]
  BY <1>1, <1>2 DEF IsPath
<1>4. p[k] \in 0..Len(pool) /\ Len(pool) \in Nat
  BY <1>1, <1>2, PoolIsSeq DEF Indices
<1> QED BY <1>1, <1>3, <1>4

\* A path that agrees with the calls under way goes on to a certificate that the loop
\* of the last call would follow.
LEMMA GoesOn ==
  ASSUME Collection, PathTypeOK, PathSoFar, ~IsAnchor(Last(path)),
         NEW p \in Paths, Agrees(p, Len(path))
  PROVE  /\ Len(path) < Len(p)
         /\ p[Len(path) + 1] \in 1..Len(pool)
         /\ MayFollow(p[Len(path) + 1])
<1> DEFINE n == Len(path)
<1>1. /\ p \in Seq(Indices) /\ Len(p) >= 1 /\ DOMAIN p = 1..Len(p) /\ p[1] = 0
      /\ IsPath(p)
  BY PathShape
<1>2. n \in Nat /\ n >= 1 /\ path \in Seq(Indices) /\ Last(path) = path[n] /\ Last(below) = below[n]
  BY DEF PathTypeOK, PathSoFar, Last
<1>3. \A j \in 1..n : p[j] = path[j]
  BY DEF Agrees
<1>4. n <= Len(p)
  BY DEF Agrees
<1>5. n < Len(p)
  <2>1. n \in DOMAIN p /\ p[n] = path[n]
    BY <1>1, <1>2, <1>3, <1>4
  <2>2. IsAnchor(p[n]) <=> n = Len(p)
    BY <1>1, <2>1 DEF IsPath
  <2> QED BY <1>1, <1>2, <1>4, <2>1, <2>2
<1>6. n + 1 \in DOMAIN p \ {1} /\ n + 1 \in 2..Len(p)
  BY <1>1, <1>2, <1>5
<1>7. \A j \in 1..n : p[j] # p[n + 1]
  <2> TAKE j \in 1..n
  <2>1. j \in DOMAIN p /\ n + 1 \in DOMAIN p /\ j # n + 1
    BY <1>1, <1>2, <1>4, <1>6
  <2>2. \A i, k \in DOMAIN p : p[i] = p[k] => i = k
    BY <1>1 DEF IsPath
  <2> QED BY <2>1, <2>2
<1>8. p[n + 1] \in 1..Len(pool)
  <2>1. p[n + 1] \in 0..Len(pool) /\ Len(pool) \in Nat
    BY <1>1, <1>6, PoolIsSeq DEF Indices
  <2>2. p[n + 1] # p[1]
    BY <1>2, <1>7
  <2> QED BY <1>1, <2>1, <2>2
<1>9. p[n + 1] \notin ToSet(path)
  <2>1. \A x \in ToSet(path) : \E j \in 1..n : x = p[j]
    BY <1>2, <1>3 DEF ToSet
  <2> QED BY <1>7, <2>1
<1>10. Signs(p[n + 1], Last(path)) /\ CAPolicy(p[n + 1], Between(p, n + 1))
  <2> DEFINE k == n + 1
  <2>1. k \in DOMAIN p \ {1} /\ k - 1 = n /\ p[n] = path[n]
    BY <1>2, <1>3, <1>6
  <2> HIDE DEF k
  <2>2. Signs(p[k], p[k - 1]) /\ CAPolicy(p[k], Between(p, k))
    BY <1>1, <2>1, PathSigned
  <2>3. Signs(p[k], Last(path)) /\ CAPolicy(p[k], Between(p, k))
    BY <1>2, <2>1, <2>2
  <2> QED BY <2>3 DEF k
<1>11. Between(p, n + 1) = NextBelow
  <2>1. \A j \in 2..n + 1 - 1 : p[j] = path[j]
    BY <1>2, <1>3
  <2>2. Between(p, n + 1) = Between(path, n + 1)
    BY <2>1, BetweenSame
  <2>3. Between(path, n + 1) = IF n > 1 /\ ~SelfIssued(path[n]) THEN Between(path, n) + 1 ELSE Between(path, n)
    <3> HIDE DEF n
    <3>1. n \in Nat \ {0}
      BY <1>2
    <3> QED BY <3>1, BetweenNext
  <2>4. below[n] = Between(path, n)
    BY <1>2 DEF PathSoFar
  <2> QED BY <1>2, <2>2, <2>3, <2>4 DEF NextBelow
<1> HIDE DEF n
<1>12. MayFollow(p[n + 1])
  BY <1>9, <1>10, <1>11 DEF MayFollow
<1> QED BY <1>5, <1>8, <1>12 DEF n

\* At a root a path ends.
LEMMA EndsAtRoot ==
  ASSUME Collection, PathTypeOK, PathSoFar, IsAnchor(Last(path)),
         NEW p \in Paths, Agrees(p, Len(path))
  PROVE  RootAllowed
<1> DEFINE n == Len(path)
<1>1. /\ p \in Seq(Indices) /\ DOMAIN p = 1..Len(p) /\ IsPath(p)
  BY PathShape
<1>2. n \in Nat /\ n >= 1 /\ path \in Seq(Indices) /\ Last(path) = path[n] /\ Last(below) = below[n]
  BY DEF PathTypeOK, PathSoFar, Last
<1>3. n \in DOMAIN p /\ p[n] = path[n]
  BY <1>1, <1>2 DEF Agrees
<1>4. Len(p) = n
  <2>1. IsAnchor(p[n]) <=> n = Len(p)
    BY <1>1, <1>3 DEF IsPath
  <2> QED BY <1>2, <1>3, <2>1
<1>5. CASE n = 1
  <2>1. CAPolicy(0, 0)
    BY <1>1, <1>4, <1>5 DEF IsPath
  <2>2. path[1] = 0 /\ below[1] = 0
    BY <1>5, BetweenFirst DEF PathSoFar
  <2> QED BY <1>2, <1>5, <2>1, <2>2 DEF RootAllowed
<1>6. CASE n # 1
  <2>1. n \in 2..n
    <3> HIDE DEF n
    <3> QED BY <1>2, <1>6
  <2>2. \A k \in 2..Len(path) : CAPolicy(path[k], below[k])
    BY DEF PathSoFar
  <2>3. CAPolicy(Last(path), Last(below))
    BY <1>2, <2>1, <2>2
  <2> QED BY <2>3 DEF RootAllowed
<1> QED BY <1>5, <1>6

---------------------------------------------------------------------------
(* Every action keeps the invariant. *)

LEMMA SoFarKept ==
  ASSUME Collection, PathTypeOK, PathSoFar, UNCHANGED given,
         Len(path') \in 1..Len(path), path' \in Seq(Indices), Len(below') = Len(path'),
         \A k \in 1..Len(path') : path'[k] = path[k] /\ below'[k] = below[k]
  PROVE  PathSoFar'
<1>1. path \in Seq(Indices) /\ Len(path) \in Nat
  BY DEF PathTypeOK
<1>2. \A k \in 1..Len(path') : k \in 1..Len(path)
  BY <1>1
<1>3. Len(path') >= 1 /\ path'[1] = 0 /\ leaf'.purpose
  BY <1>1 DEF PathSoFar, given
<1>4. \A j, k \in 1..Len(path') : path'[j] = path'[k] => j = k
  BY <1>2 DEF PathSoFar
<1>5. \A k \in 1..Len(path') - 1 : ~IsAnchor(path[k])'
  <2> TAKE k \in 1..Len(path') - 1
  <2>1. k \in 1..Len(path) - 1 /\ path'[k] = path[k]
    BY <1>1
  <2>2. ~IsAnchor(path[k])
    BY <2>1 DEF PathSoFar
  <2> QED BY <2>1, <2>2 DEF IsAnchor, given
<1>6. \A k \in 2..Len(path') : Signs(path[k], path[k - 1])' /\ CAPolicy(path[k], below[k])'
  <2> TAKE k \in 2..Len(path')
  <2>1. k \in 2..Len(path) /\ path'[k] = path[k] /\ path'[k - 1] = path[k - 1] /\ below'[k] = below[k]
    BY <1>1
  <2>2. Signs(path[k], path[k - 1]) /\ CAPolicy(path[k], below[k])
    BY <2>1 DEF PathSoFar
  <2> QED BY <2>1, <2>2 DEF Signs, CAPolicy, Cert, given
<1>7. \A k \in 1..Len(path') : below'[k] = Between(path, k)'
  <2> TAKE k \in 1..Len(path')
  <2>1. below'[k] = Between(path, k)
    BY <1>2 DEF PathSoFar
  <2>2. \A j \in 2..k - 1 : path'[j] = path[j]
    BY <1>1
  <2>3. Between(path', k) = Between(path, k)
    BY <2>2, BetweenSame
  <2>4. Between(path, k)' = Between(path', k)
    <3>1. \A j : SelfIssued(path[j])' <=> SelfIssued(path'[j])
      BY DEF SelfIssued, Cert, given
    <3> QED BY <3>1 DEF Between
  <2> QED BY <2>1, <2>3, <2>4
<1> QED BY <1>3, <1>4, <1>5, <1>6, <1>7 DEF PathSoFar

\* The first elements of a sequence.
LEMMA PrefixLength ==
  ASSUME NEW S, NEW s \in Seq(S), NEW n \in Nat, n <= Len(s)
  PROVE  Len(SubSeq(s, 1, n)) = n
OBVIOUS

LEMMA PrefixIsSeq ==
  ASSUME NEW S, NEW s \in Seq(S), NEW n \in Nat, n <= Len(s)
  PROVE  SubSeq(s, 1, n) \in Seq(S)
OBVIOUS

LEMMA PrefixElements ==
  ASSUME NEW S, NEW s \in Seq(S), NEW n \in Nat, n <= Len(s)
  PROVE  \A k \in 1..n : SubSeq(s, 1, n)[k] = s[k]
OBVIOUS

\* A sequence without its last element.
LEMMA FrontOf ==
  ASSUME NEW S, NEW s \in Seq(S), Len(s) >= 1
  PROVE  /\ Front(s) \in Seq(S) /\ Len(Front(s)) = Len(s) - 1
         /\ \A k \in 1..Len(s) - 1 : Front(s)[k] = s[k]
<1> DEFINE n == Len(s) - 1
<1>1. n \in Nat /\ n <= Len(s) /\ Front(s) = SubSeq(s, 1, n)
  BY DEF Front
<1> HIDE DEF n
<1>2. Front(s) \in Seq(S) /\ Len(Front(s)) = n /\ \A k \in 1..n : Front(s)[k] = s[k]
  BY <1>1, PrefixLength, PrefixIsSeq, PrefixElements
<1> QED BY <1>2 DEF n

\* Where a call returns to its caller, that has one certificate more behind it.
LEMMA BackKeeps ==
  ASSUME PathInv, Underway, ~Verified, Back, UNCHANGED given,
         visits' \in Nat, limited' \in BOOLEAN, limited => limited',
         ~limited' => \A p \in Paths : ~Agrees(p, Len(path))
  PROVE  PathInv'
<1> DEFINE n == Len(path)
<1>1. /\ Collection /\ PathTypeOK /\ PathSoFar /\ path \in Seq(Indices) /\ below \in Seq(Nat)
      /\ n \in Nat /\ n >= 1 /\ Len(below) = n /\ Len(pool) \in Nat
  BY PoolIsSeq DEF PathInv, PathTypeOK, PathSoFar
<1>2. /\ path' \in Seq(Indices) /\ Len(path') = n - 1 /\ below' \in Seq(Nat) /\ Len(below') = n - 1
      /\ \A k \in 1..n - 1 : path'[k] = path[k] /\ below'[k] = below[k]
      /\ next' = path[n] + 1 /\ path[n] \in Indices
  <2>1. path' = Front(path) /\ below' = Front(below) /\ next' = Last(path) + 1
    BY DEF Back
  <2>2. Last(path) = path[n] /\ path[n] \in Indices
    BY <1>1 DEF Last
  <2>3. /\ path' \in Seq(Indices) /\ Len(path') = n - 1
        /\ \A k \in 1..n - 1 : path'[k] = path[k]
    BY <1>1, <2>1, FrontOf
  <2>4. /\ below' \in Seq(Nat) /\ Len(below') = n - 1
        /\ \A k \in 1..n - 1 : below'[k] = below[k]
    BY <1>1, <2>1, FrontOf
  <2> QED BY <2>1, <2>2, <2>3, <2>4
<1>3. phase \in {"search", "loop"} /\ phase' = (IF n = 1 THEN "failed" ELSE "loop") /\ linked' = linked
  BY DEF Underway, Verified, Back
<1>4. Collection' /\ Indices' = Indices
  BY <1>1 DEF given, Collection, Indices
<1>5. PathTypeOK'
  <2>1. next' \in 1..Len(pool) + 1
    <3>1. path[n] \in 0..Len(pool)
      BY <1>2 DEF Indices
    <3> QED BY <1>1, <1>2, <3>1
  <2>2. Len(path') <= DepthLimit
    BY <1>1, <1>2, PathAssumption DEF PathTypeOK
  <2>3. roots' \in 0..Len(pool') /\ Len(pool') <= PoolSize
    BY <1>1 DEF PathTypeOK, given
  <2>4. linked' \in Seq(Indices') \/ linked' = NotLinked
    BY <1>1, <1>3, <1>4 DEF PathTypeOK
  <2>5. pool' = pool /\ phase' # "search" /\ phase' \in {"loop", "failed"}
    BY <1>3 DEF given
  <2>6. NotLinked' = NotLinked
    BY DEF NotLinked
  <2> QED BY <1>2, <1>4, <2>1, <2>2, <2>3, <2>4, <2>5, <2>6 DEF PathTypeOK
<1>6. n > 1 => PathSoFar'
  <2> HAVE n > 1
  <2>1. Len(path') \in 1..Len(path)
    BY <1>1, <1>2
  <2> QED BY <1>1, <1>2, <2>1, SoFarKept
<1>7. Places'
  <2>1. n > 1 => ~IsAnchor(Last(path))'
    <3> HAVE n > 1
    <3>1. n - 1 \in 1..n - 1 /\ Last(path)' = path[n - 1]
      BY <1>1, <1>2 DEF Last
    <3>2. ~IsAnchor(path[n - 1])
      BY <1>1, <3>1 DEF PathSoFar
    <3> QED BY <3>1, <3>2 DEF IsAnchor, given
  <2>2. phase' \in {"loop", "failed"} /\ (phase' = "loop" => n > 1)
    BY <1>1, <1>3
  <2> QED BY <2>1, <2>2 DEF Places, Verified
<1>8. Tried'
  <2> SUFFICES ASSUME ~limited'
               PROVE  /\ phase' \in {"search", "loop"} => \A p \in Paths' : ~Before(p)'
                      /\ phase' = "failed" => Paths' = {}
    BY DEF Tried
  <2>1. Paths' = Paths /\ \A p \in Paths : ~Before(p) /\ ~Agrees(p, n)
    BY <1>3, GivenPaths DEF PathInv, Tried
  <2>2. n = 1 => Paths = {}
    <3> HAVE n = 1
    <3>1. \A p \in Paths : Agrees(p, 1)
      BY <1>1, PathShape DEF Agrees, PathSoFar
    <3> QED BY <2>1, <3>1
  <2>3. ASSUME n > 1, NEW p \in Paths, Before(p)'
        PROVE  FALSE
    <3>1. PICK k \in 1..n - 1 : k < Len(p) /\ Agrees(p, k)' /\ p[k + 1] < Upto(k)'
      BY <1>2, <2>3 DEF Before
    <3>2. p \in Seq(Indices) /\ Len(p) \in Nat /\ k \in 1..n
      BY <1>1, PathShape
    <3>3. Agrees(p, k)
      <4>1. k <= Len(p) /\ \A j \in 1..k : j \in 1..n - 1
        BY <1>1, <3>1, <3>2
      <4>2. \A j \in 1..k : p[j] = path'[j]
        BY <3>1 DEF Agrees
      <4> QED BY <1>2, <4>1, <4>2 DEF Agrees
    <3>4. CASE k < n - 1
      <4>1. k < Len(path') /\ k < Len(path) /\ path'[k + 1] = path[k + 1]
        <5>1. k + 1 \in 1..n - 1
          BY <1>1, <3>2, <3>4
        <5> QED BY <1>1, <1>2, <3>2, <3>4, <5>1
      <4>2. Upto(k)' = path'[k + 1] /\ Upto(k) = path[k + 1]
        BY <4>1 DEF Upto
      <4>3. p[k + 1] < Upto(k)
        BY <3>1, <4>1, <4>2
      <4>4. Before(p)
        BY <3>1, <3>2, <3>3, <4>3 DEF Before
      <4> QED BY <2>1, <4>4
    <3>5. CASE k = n - 1
      <4>1. Upto(k)' = path[n] + 1 /\ Upto(k) = path[n] /\ k + 1 = n
        BY <1>1, <1>2, <3>5 DEF Upto
      <4>2. p[n] \in Int /\ path[n] \in Int
        <5>1. n \in 1..Len(p)
          BY <1>1, <3>1, <3>2, <4>1
        <5>2. p[n] \in Indices /\ path[n] \in Indices
          BY <1>2, <3>2, <5>1
        <5> QED BY <1>1, <5>2 DEF Indices
      <4>3. CASE p[n] < path[n]
        <5>1. Before(p)
          BY <3>1, <3>2, <3>3, <4>1, <4>3 DEF Before
        <5> QED BY <2>1, <5>1
      <4>4. CASE p[n] = path[n]
        <5>1. n <= Len(p) /\ \A j \in 1..n : j = n \/ j \in 1..k
          BY <1>1, <3>1, <3>2, <4>1
        <5>2. \A j \in 1..n : p[j] = path[j]
          BY <3>3, <4>4, <5>1 DEF Agrees
        <5> QED BY <2>1, <5>1, <5>2 DEF Agrees
      <4>5. p[n] < path[n] \/ p[n] = path[n]
        BY <3>1, <4>1, <4>2
      <4> QED BY <4>3, <4>4, <4>5
    <3> QED BY <1>1, <3>2, <3>4, <3>5
  <2>4. phase' = "failed" => n = 1
    BY <1>3
  <2>5. phase' \in {"search", "loop"} => n > 1
    BY <1>1, <1>3
  <2> QED BY <2>1, <2>2, <2>3, <2>4, <2>5
<1>9. Linking'
  BY <1>3 DEF Linking, Verified
<1>10. Underway' => n > 1
  BY <1>1, <1>3 DEF Underway
<1> QED BY <1>4, <1>5, <1>6, <1>7, <1>8, <1>9, <1>10 DEF PathInv

LEMMA PathInitKeeps == PathInit => PathInv
<1> SUFFICES ASSUME PathInit PROVE PathInv
  OBVIOUS
<1>1. Collection
  BY DEF PathInit, Collection
<1>2. PICK m \in 0..PoolSize : pool \in [1..m -> Pool]
  BY <1>1 DEF Collection
<1>3. Len(pool) = m /\ m \in Nat /\ m <= PoolSize
  BY <1>2, PathAssumption
<1>4. PathTypeOK
  <2>1. next \in 1..Len(pool) + 1 /\ Len(path) = 0 /\ Len(below) = 0 /\ 0 <= DepthLimit
    BY <1>3, PathAssumption DEF PathInit
  <2>2. path \in Seq(Indices) /\ below \in Seq(Nat) /\ linked \in Seq(Indices)
    BY DEF PathInit
  <2> QED BY <1>3, <2>1, <2>2 DEF PathInit, PathTypeOK
<1> QED BY <1>1, <1>4 DEF PathInit, PathInv, Underway, Places, Verified, Tried, Linking

LEMMA PolicyKeeps == PathInv /\ Policy => PathInv'
<1> SUFFICES ASSUME PathInv, Policy PROVE PathInv'
  OBVIOUS
<1>1. Collection /\ PathTypeOK /\ Len(pool) \in Nat /\ phase = "policy"
  BY PoolIsSeq DEF PathInv, Policy
<1>2. Collection' /\ Indices' = Indices /\ pool' = pool
  BY <1>1 DEF given, Collection, Indices, Policy
<1>3. \A p \in Paths : leaf.purpose /\ (roots # 0 \/ pinned)
  <2> TAKE p \in Paths
  <2>1. /\ p \in Seq(Indices) /\ Len(p) >= 1 /\ DOMAIN p = 1..Len(p) /\ IsPath(p)
    BY <1>1, PathShape
  <2>2. Len(p) \in DOMAIN p /\ p[Len(p)] \in 0..Len(pool)
    BY <2>1 DEF Indices
  <2>3. IsAnchor(p[Len(p)])
    BY <2>1, <2>2 DEF IsPath
  <2>4. pinned \/ roots # 0
    <3>1. roots \in Nat
      BY <1>1 DEF PathTypeOK
    <3> QED BY <1>1, <2>2, <2>3, <3>1 DEF IsAnchor
  <2> QED BY <2>1, <2>4 DEF IsPath
<1>4. CASE (roots = 0 /\ ~pinned) \/ ~leaf.purpose
  <2>1. phase' = "failed" /\ UNCHANGED <<given, search, linked>>
    BY <1>4 DEF Policy, search
  <2>2. PathTypeOK'
    <3>1. Len(path) <= DepthLimit /\ Len(path') = Len(path)
      BY <1>1, <2>1 DEF PathTypeOK, search
    <3>2. NotLinked' = NotLinked
      BY DEF NotLinked
    <3> QED BY <1>1, <1>2, <2>1, <3>1, <3>2 DEF PathTypeOK, search, given
  <2>3. Tried'
    <3>1. Paths' = {}
      BY <1>3, <1>4, <2>1, GivenPaths
    <3> QED BY <2>1, <3>1 DEF Tried
  <2> QED BY <1>2, <2>1, <2>2, <2>3 DEF PathInv, Underway, Places, Verified, Linking
<1>5. CASE ~((roots = 0 /\ ~pinned) \/ ~leaf.purpose)
  <2>1. /\ phase' = "search" /\ path' = <<0>> /\ below' = <<0>>
        /\ UNCHANGED <<given, next, visits, limited, linked>>
    BY <1>5 DEF Policy
  <2>2. Len(path') = 1 /\ Len(below') = 1 /\ path' \in Seq(Indices) /\ below' \in Seq(Nat)
    BY <1>1, <2>1 DEF Indices
  <2>3. PathTypeOK'
    <3>1. 1 <= DepthLimit + 1
      BY PathAssumption
    <3>2. NotLinked' = NotLinked
      BY DEF NotLinked
    <3> QED BY <1>1, <1>2, <2>1, <2>2, <3>1, <3>2 DEF PathTypeOK, given
  <2>4. PathSoFar'
    <3>1. below'[1] = Between(path', 1)
      BY <2>1, BetweenFirst
    <3>2. Between(path, 1)' = Between(path', 1)
      <4>1. \A j : SelfIssued(path[j])' <=> SelfIssued(path'[j])
        BY <2>1 DEF SelfIssued, Cert, given
      <4> QED BY <4>1 DEF Between
    <3>3. \A k \in 1..Len(path') : k = 1
      BY <2>2
    <3>4. leaf'.purpose /\ path'[1] = 0
      BY <1>5, <2>1 DEF given
    <3>5. \A k \in 2..Len(path') : FALSE
      BY <2>2
    <3>6. \A k \in 1..Len(path') - 1 : FALSE
      BY <2>2
    <3> QED BY <2>2, <3>1, <3>2, <3>3, <3>4, <3>5, <3>6 DEF PathSoFar
  <2>5. next' = 1
    BY <1>1, <2>1 DEF PathInv, Places
  <2>6. Tried'
    <3>1. \A p \in Paths : ~Before(p)'
      <4> SUFFICES ASSUME NEW p \in Paths, Before(p)' PROVE FALSE
        OBVIOUS
      <4>1. PICK k \in 1..Len(path') : k < Len(p) /\ p[k + 1] < Upto(k)'
        BY DEF Before
      <4>2. k = 1 /\ Upto(k)' = 1
        BY <2>2, <2>5 DEF Upto
      <4>3. 2 \in 2..Len(p)
        BY <1>1, <4>1, <4>2, PathShape
      <4>4. p[2] \in 1..Len(pool)
        BY <1>1, <4>3, PathIsOfPool
      <4> QED BY <1>1, <4>1, <4>2, <4>4
    <3>2. Paths' = Paths
      BY <2>1, GivenPaths
    <3> QED BY <2>1, <3>1, <3>2 DEF Tried
  <2> QED BY <1>2, <2>1, <2>3, <2>4, <2>5, <2>6 DEF PathInv, Underway, Places, Verified, Linking
<1> QED BY <1>4, <1>5

LEMMA AtLimitKeeps == PathInv /\ AtLimit => PathInv'
<1> SUFFICES ASSUME PathInv, AtLimit PROVE PathInv'
  OBVIOUS
<1>1. visits' \in Nat /\ limited' = TRUE /\ Back /\ UNCHANGED given /\ phase = "search"
  BY DEF AtLimit, PathInv, PathTypeOK
<1> QED BY <1>1, BackKeeps DEF Underway, Verified

LEMMA GiveUpKeeps == PathInv /\ GiveUp => PathInv'
<1> SUFFICES ASSUME PathInv, GiveUp PROVE PathInv'
  OBVIOUS
<1>1. /\ visits' \in Nat /\ limited' = limited /\ limited \in BOOLEAN /\ Back /\ UNCHANGED given
      /\ phase = "loop" /\ Candidates = {}
  BY DEF GiveUp, PathInv, PathTypeOK
<1>2. /\ Collection /\ PathTypeOK /\ PathSoFar /\ ~IsAnchor(Last(path))
      /\ Len(path) \in 1..Len(path) /\ Len(path) \in Nat /\ Len(pool) \in Nat /\ next \in Nat
  BY <1>1, PoolIsSeq DEF PathInv, Underway, Places, PathSoFar, PathTypeOK
<1>3. ~limited => \A p \in Paths : ~Agrees(p, Len(path))
  <2> SUFFICES ASSUME ~limited, NEW p \in Paths, Agrees(p, Len(path)) PROVE FALSE
    OBVIOUS
  <2> DEFINE i == p[Len(path) + 1]
  <2>1. Len(path) < Len(p) /\ i \in 1..Len(pool) /\ MayFollow(i)
    BY <1>2, GoesOn
  <2>2. ~Before(p)
    BY <1>1 DEF PathInv, Tried
  <2>3. Upto(Len(path)) = next
    BY <1>2 DEF Upto
  <2>4. ~(i < next)
    BY <1>2, <2>1, <2>2, <2>3 DEF Before
  <2>5. i \in next..Len(pool)
    BY <1>2, <2>1, <2>4
  <2> HIDE DEF i
  <2> QED BY <1>1, <2>1, <2>5 DEF Candidates
<1> QED BY <1>1, <1>3, BackKeeps DEF Underway, Verified

LEMMA EnterKeeps == PathInv /\ Enter => PathInv'
<1> SUFFICES ASSUME PathInv, Enter PROVE PathInv'
  OBVIOUS
<1>1. /\ phase = "search" /\ phase' = "loop" /\ ~IsAnchor(Last(path)) /\ ~TooFar
      /\ UNCHANGED <<given, path, below, next, limited, linked>> /\ visits' = visits + 1
  BY DEF Enter
<1>2. /\ Collection /\ PathTypeOK /\ PathSoFar /\ Tried /\ path \in Seq(Indices) /\ Len(path) >= 1
      /\ Len(path) \in Nat
  BY <1>1 DEF PathInv, Underway, PathTypeOK, PathSoFar
<1>3. Collection' /\ Indices' = Indices
  BY <1>1, <1>2 DEF given, Collection, Indices
<1>4. PathTypeOK'
  <2>1. Len(path) <= DepthLimit
    BY <1>1, <1>2, PathAssumption DEF TooFar
  <2>2. NotLinked' = NotLinked
    BY DEF NotLinked
  <2> QED BY <1>1, <1>2, <1>3, <2>1, <2>2 DEF PathTypeOK, given
<1>5. PathSoFar'
  <2>1. Len(path') \in 1..Len(path) /\ Len(below') = Len(path')
    BY <1>1, <1>2 DEF PathTypeOK
  <2> QED BY <1>1, <1>2, <2>1, SoFarKept
<1>6. ~IsAnchor(Last(path))'
  BY <1>1 DEF IsAnchor, given
<1>7. Tried'
  <2>1. Paths' = Paths
    BY <1>1, GivenPaths
  <2>2. \A p : Before(p)' <=> Before(p)
    BY <1>1 DEF Before, Upto, Agrees
  <2> QED BY <1>1, <1>2, <2>1, <2>2 DEF Tried
<1> QED BY <1>1, <1>3, <1>4, <1>5, <1>6, <1>7 DEF PathInv, Underway, Places, Verified, Linking

LEMMA DescendKeeps == PathInv /\ Descend => PathInv'
<1> SUFFICES ASSUME PathInv, Descend PROVE PathInv'
  OBVIOUS
<1> DEFINE n == Len(path)
<1>1. PICK i \in Candidates : /\ \A j \in Candidates : i <= j
                              /\ path' = Append(path, i) /\ below' = Append(below, NextBelow)
  BY DEF Descend
<1>2. /\ phase = "loop" /\ next' = 1 /\ phase' = "search"
      /\ UNCHANGED <<given, visits, limited, linked>>
  BY DEF Descend
<1>3. /\ Collection /\ PathTypeOK /\ PathSoFar /\ Tried /\ path \in Seq(Indices) /\ below \in Seq(Nat)
      /\ n \in Nat /\ n >= 1 /\ Len(below) = n /\ Len(pool) \in Nat /\ ~IsAnchor(Last(path))
      /\ next \in 1..Len(pool) + 1
  BY <1>2, PoolIsSeq DEF PathInv, Underway, Places, PathTypeOK, PathSoFar
<1>4. /\ i \in next..Len(pool) /\ i \in Indices
      /\ i \notin ToSet(path) /\ Signs(i, Last(path)) /\ CAPolicy(i, NextBelow)
  BY <1>1, <1>3 DEF Candidates, MayFollow, Indices
<1>5. Last(path) = path[n] /\ Last(below) = below[n] /\ below[n] \in Nat /\ NextBelow \in Nat
  BY <1>3 DEF Last, NextBelow
<1>6. /\ path' \in Seq(Indices) /\ Len(path') = n + 1 /\ below' \in Seq(Nat) /\ Len(below') = n + 1
      /\ \A k \in 1..n : path'[k] = path[k] /\ below'[k] = below[k]
      /\ path'[n + 1] = i /\ below'[n + 1] = NextBelow
  BY <1>1, <1>3, <1>4, <1>5
<1>7. Collection' /\ Indices' = Indices
  BY <1>2, <1>3 DEF given, Collection, Indices
<1>8. PathTypeOK'
  <2>1. n + 1 <= DepthLimit + 1 /\ next' \in 1..Len(pool) + 1
    BY <1>2, <1>3, PathAssumption DEF PathTypeOK
  <2>2. NotLinked' = NotLinked
    BY DEF NotLinked
  <2> QED BY <1>2, <1>3, <1>6, <1>7, <2>1, <2>2 DEF PathTypeOK, given
<1>9. PathSoFar'
  <2> HIDE DEF n
  <2>1. Len(path') >= 1 /\ path'[1] = 0 /\ leaf'.purpose
    BY <1>2, <1>3, <1>6 DEF PathSoFar, given, n
  <2>2. \A j, k \in 1..n + 1 : path'[j] = path'[k] => j = k
    <3>1. \A j \in 1..n : path[j] # i
      <4>1. DOMAIN path = 1..n
        BY <1>3 DEF n
      <4>2. \A j \in DOMAIN path : path[j] \in ToSet(path)
        BY DEF ToSet
      <4> QED BY <1>4, <4>1, <4>2
    <3>2. \A j, k \in 1..n : path[j] = path[k] => j = k
      BY <1>3 DEF PathSoFar, n
    <3>3. \A j \in 1..n + 1 : j = n + 1 \/ j \in 1..n
      BY <1>3
    <3> QED BY <1>6, <3>1, <3>2, <3>3
  <2>3. \A k \in 1..n : ~IsAnchor(path[k])'
    <3> TAKE k \in 1..n
    <3>1. ~IsAnchor(path[k])
      <4>1. k = n \/ k \in 1..Len(path) - 1
        BY <1>3 DEF n
      <4> QED BY <1>3, <1>5, <4>1 DEF PathSoFar
    <3> QED BY <1>2, <1>6, <3>1 DEF IsAnchor, given
  <2>4. \A k \in 2..n + 1 : Signs(path[k], path[k - 1])' /\ CAPolicy(path[k], below[k])'
    <3> TAKE k \in 2..n + 1
    <3>1. CASE k = n + 1
      <4>1. k - 1 = n /\ n \in 1..n
        BY <1>3, <3>1
      <4>2. path'[k] = i /\ path'[k - 1] = path[n] /\ below'[k] = NextBelow
        BY <1>6, <3>1, <4>1
      <4> QED BY <1>2, <1>4, <1>5, <4>2 DEF Signs, CAPolicy, Cert, given
    <3>2. CASE k # n + 1
      <4>1. k \in 2..Len(path) /\ k \in 1..n /\ k - 1 \in 1..n
        BY <1>3, <3>2 DEF n
      <4>2. Signs(path[k], path[k - 1]) /\ CAPolicy(path[k], below[k])
        BY <1>3, <4>1 DEF PathSoFar
      <4>3. path'[k] = path[k] /\ path'[k - 1] = path[k - 1] /\ below'[k] = below[k]
        BY <1>6, <4>1
      <4> QED BY <1>2, <4>2, <4>3 DEF Signs, CAPolicy, Cert, given
    <3> QED BY <3>1, <3>2
  <2>5. \A k \in 1..n + 1 : below'[k] = Between(path, k)'
    <3> TAKE k \in 1..n + 1
    <3>1. Between(path, k)' = Between(path', k)
      <4>1. \A j : SelfIssued(path[j])' <=> SelfIssued(path'[j])
        BY <1>2 DEF SelfIssued, Cert, given
      <4> QED BY <4>1 DEF Between
    <3>2. Between(path', k) = Between(path, k)
      <4>1. \A j \in 2..k - 1 : j \in 1..n
        BY <1>3
      <4>2. \A j \in 2..k - 1 : path'[j] = path[j]
        BY <1>6, <4>1
      <4> QED BY <4>2, BetweenSame
    <3>3. CASE k = n + 1
      <4>1. below[n] = Between(path, n)
        BY <1>3 DEF PathSoFar, n
      <4>2. Between(path, n + 1) = IF n > 1 /\ ~SelfIssued(path[n]) THEN Between(path, n) + 1 ELSE Between(path, n)
        <5>1. n \in Nat \ {0}
          BY <1>3
        <5> QED BY <5>1, BetweenNext
      <4>3. NextBelow = Between(path, n + 1)
        BY <1>5, <4>1, <4>2 DEF NextBelow, n
      <4> QED BY <1>6, <3>1, <3>2, <3>3, <4>3
    <3>4. CASE k # n + 1
      <4>1. k \in 1..n
        BY <1>3, <3>4
      <4>2. below[k] = Between(path, k)
        BY <1>3, <4>1 DEF PathSoFar, n
      <4> QED BY <1>6, <3>1, <3>2, <4>1, <4>2
    <3> QED BY <3>3, <3>4
  <2>6. Len(path') = n + 1 /\ Len(path') - 1 = n
    BY <1>3, <1>6
  <2> QED BY <2>1, <2>2, <2>3, <2>4, <2>5, <2>6 DEF PathSoFar
<1>10. Tried'
  <2> SUFFICES ASSUME ~limited PROVE \A p \in Paths : ~Before(p)'
    <3>1. Paths' = Paths
      BY <1>2, GivenPaths
    <3> QED BY <1>2, <3>1 DEF Tried
  <2> SUFFICES ASSUME NEW p \in Paths, Before(p)' PROVE FALSE
    OBVIOUS
  <2>1. ~Before(p)
    BY <1>2, <1>3 DEF Tried
  <2>2. PICK k \in 1..n + 1 : k < Len(p) /\ Agrees(p, k)' /\ p[k + 1] < Upto(k)'
    BY <1>6 DEF Before
  <2>3. p \in Seq(Indices) /\ Len(p) \in Nat /\ k \in Nat
    BY <1>3, PathShape
  <2>4. CASE k = n + 1
    <3>1. Upto(k)' = 1
      BY <1>2, <1>6, <2>4, <1>3 DEF Upto
    <3>2. k + 1 \in 2..Len(p)
      BY <1>3, <2>2, <2>3
    <3>3. p[k + 1] \in 1..Len(pool)
      BY <1>3, <3>2, PathIsOfPool
    <3> QED BY <1>3, <2>2, <3>1, <3>3
  <2>5. CASE k # n + 1
    <3>1. k \in 1..n /\ k <= Len(p)
      BY <1>3, <2>2, <2>3, <2>5
    <3>2. Agrees(p, k)
      <4>1. \A j \in 1..k : j \in 1..n
        BY <1>3, <3>1
      <4>2. \A j \in 1..k : p[j] = path'[j]
        BY <2>2 DEF Agrees
      <4> QED BY <1>6, <3>1, <4>1, <4>2 DEF Agrees
    <3>3. CASE k < n
      <4>1. k + 1 \in 1..n /\ k < Len(path') /\ k < Len(path)
        <5>1. Len(path') = n + 1 /\ n \in Nat /\ k \in Nat
          BY <1>3, <1>6, <2>3
        <5> QED BY <3>1, <3>3, <5>1
      <4>2. Upto(k)' = path[k + 1] /\ Upto(k) = path[k + 1]
        BY <1>6, <4>1 DEF Upto
      <4> QED BY <2>1, <2>2, <3>1, <3>2, <4>2 DEF Before
    <3>4. CASE k = n
      <4>1. Upto(k)' = i /\ Upto(k) = next
        BY <1>3, <1>6, <3>4 DEF Upto
      <4>2. p[n + 1] \in 1..Len(pool) /\ MayFollow(p[n + 1])
        BY <1>3, <3>2, <3>4, GoesOn
      <4>3. ~(p[n + 1] < next)
        BY <2>1, <2>2, <3>1, <3>2, <3>4, <4>1 DEF Before
      <4>4. p[n + 1] \in next..Len(pool)
        BY <1>3, <4>2, <4>3
      <4>5. i <= p[n + 1]
        BY <1>1, <4>2, <4>4 DEF Candidates
      <4>6. p[n + 1] \in Int /\ i \in Int
        BY <1>3, <1>4, <4>4
      <4>7. p[n + 1] < i
        BY <2>2, <3>4, <4>1
      <4> QED BY <4>5, <4>6, <4>7
    <3> QED BY <1>3, <3>1, <3>3, <3>4
  <2> QED BY <2>4, <2>5
<1> QED BY <1>2, <1>7, <1>8, <1>9, <1>10 DEF PathInv, Underway, Places, Verified, Linking

LEMMA AtRootKeeps == PathInv /\ AtRoot => PathInv'
<1> SUFFICES ASSUME PathInv, AtRoot PROVE PathInv'
  OBVIOUS
<1>1. /\ phase = "search" /\ ~TooFar /\ IsAnchor(Last(path)) /\ visits' = visits + 1
      /\ UNCHANGED <<given, limited>>
  BY DEF AtRoot
<1>2. /\ Collection /\ PathTypeOK /\ PathSoFar /\ Tried /\ path \in Seq(Indices) /\ Len(path) >= 1
      /\ Len(path) \in Nat /\ visits \in Nat /\ limited \in BOOLEAN
  BY <1>1 DEF PathInv, Underway, PathTypeOK, PathSoFar
<1>3. CASE ~RootAllowed
  <2>1. Back
    BY <1>3 DEF AtRoot
  <2>2. \A p \in Paths : ~Agrees(p, Len(path))
    BY <1>1, <1>2, <1>3, EndsAtRoot
  <2> QED BY <1>1, <1>2, <2>1, <2>2, BackKeeps DEF Underway, Verified
<1>4. CASE RootAllowed
  <2>1. phase' = "link" /\ linked' = <<0>> /\ UNCHANGED <<path, below, next>>
    BY <1>4 DEF AtRoot
  <2>2. Collection' /\ Indices' = Indices /\ 0 \in Indices
    BY <1>1, <1>2, PoolIsSeq DEF given, Collection, Indices
  <2>3. linked' \in Seq(Indices') /\ Len(linked') = 1 /\ linked'[1] = 0
    BY <2>1, <2>2
  <2>4. PathTypeOK'
    <3>1. Len(path) <= DepthLimit
      BY <1>1, <1>2, PathAssumption DEF TooFar
    <3> QED BY <1>1, <1>2, <2>1, <2>2, <2>3, <3>1 DEF PathTypeOK, given
  <2>5. PathSoFar'
    <3>1. Len(path') \in 1..Len(path) /\ Len(below') = Len(path')
      BY <1>2, <2>1 DEF PathTypeOK
    <3> QED BY <1>1, <1>2, <2>1, <3>1, SoFarKept
  <2>6. IsAnchor(Last(path))' /\ (Len(path) = 1 => CAPolicy(0, 0))'
    <3>1. Len(path) = 1 => CAPolicy(0, 0)
      <4> HAVE Len(path) = 1
      <4>1. Last(path) = 0 /\ Last(below) = 0
        BY <1>2, BetweenFirst DEF PathSoFar, PathTypeOK, Last
      <4> QED BY <1>4, <4>1 DEF RootAllowed
    <3> QED BY <1>1, <2>1, <3>1 DEF IsAnchor, CAPolicy, Cert, given
  <2>7. Linking'
    <3>1. Followed'
      <4>1. \A k \in 1..Len(linked') : k = 1
        BY <2>3
      <4>2. Len(linked') \in 1..Len(path')
        BY <1>2, <2>1, <2>3
      <4> QED BY <1>2, <2>1, <2>3, <4>1, <4>2 DEF Followed, PathSoFar
    <3> QED BY <2>1, <2>3, <3>1 DEF Linking
  <2> QED BY <1>1, <2>1, <2>2, <2>4, <2>5, <2>6, <2>7 DEF PathInv, Underway, Places, Verified, Tried
<1> QED BY <1>3, <1>4

\* While certificates are linked, nothing else changes.
LEMMA LinkFrame ==
  ASSUME PathInv, phase = "link", phase' \in {"link", "done"}, UNCHANGED <<given, search>>,
         linked' \in Seq(Indices) \/ linked' = NotLinked, Linking'
  PROVE  PathInv'
<1>1. /\ Collection /\ PathTypeOK /\ PathSoFar /\ Places /\ Tried /\ path \in Seq(Indices)
      /\ Len(path) >= 1 /\ Len(path) \in Nat
  BY DEF PathInv, Underway, PathTypeOK, PathSoFar
<1>2. UNCHANGED <<path, below, next, visits, limited>>
  BY DEF search
<1>3. Collection' /\ Indices' = Indices /\ NotLinked' = NotLinked
  BY <1>1 DEF given, Collection, Indices, NotLinked
<1>4. PathTypeOK'
  BY <1>1, <1>2, <1>3 DEF PathTypeOK, given
<1>5. PathSoFar'
  <2>1. Len(path') \in 1..Len(path) /\ Len(below') = Len(path')
    BY <1>1, <1>2 DEF PathTypeOK
  <2> QED BY <1>1, <1>2, <2>1, SoFarKept
<1>6. IsAnchor(Last(path))' /\ (Len(path) = 1 => CAPolicy(0, 0))'
  BY <1>1, <1>2 DEF Places, Verified, IsAnchor, CAPolicy, Cert, given
<1> QED BY <1>2, <1>3, <1>4, <1>5, <1>6 DEF PathInv, Underway, Places, Verified, Tried

LEMMA LinkGiven ==
  ASSUME UNCHANGED <<given, search>>
  PROVE  /\ Ordered' <=> Ordered
         /\ \A i : Ambiguous(i)' <=> Ambiguous(i)
<1>1. path' = path
  BY DEF search
<1>2. \A i : Parents(i)' = Parents(i)
  <2> TAKE i
  <2>1. \A p : Signs(p, i)' <=> Signs(p, i)
    BY DEF Signs, Cert, given
  <2> QED BY <1>1, <2>1 DEF Parents
<1>3. \A i : SelfIssued(i)' <=> SelfIssued(i)
  BY DEF SelfIssued, Cert, given
<1>4. Parents(Last(path))' = Parents(Last(path)) /\ (SelfIssued(Last(path))' <=> SelfIssued(Last(path)))
  BY <1>1, <1>2, <1>3 DEF Parents, SelfIssued, Signs, Cert, given
<1>5. \A k \in 1..Len(path) - 1 : SelfIssued(path[k])' <=> SelfIssued(path[k])
  BY <1>1 DEF SelfIssued, Cert, given
<1>6. Ordered' <=> Ordered
  BY <1>1, <1>4, <1>5 DEF Ordered
<1> QED BY <1>2, <1>6 DEF Ambiguous

\* As long as the path is followed, what was linked last goes on to the next certificate.
LEMMA NextParent ==
  ASSUME PathInv, phase = "link", Ordered, linked \in Seq(Indices), Followed
  PROVE  /\ Last(linked) = path[Len(linked)] /\ Len(linked) \in Nat
         /\ Len(linked) = Len(path) => Ends(Last(linked))
         /\ Len(linked) < Len(path) =>
              path[Len(linked) + 1] \in Parents(Last(linked)) /\ ~Ends(Last(linked))
<1> DEFINE m == Len(linked)
<1>1. /\ PathTypeOK /\ PathSoFar /\ path \in Seq(Indices) /\ Len(path) \in Nat /\ m \in Nat
      /\ m \in 1..Len(path) /\ \A k \in 1..m : linked[k] = path[k]
  BY DEF PathInv, Underway, PathTypeOK, Followed
<1>2. Last(linked) = path[m]
  BY <1>1 DEF Last
<1>3. m = Len(path) => Ends(Last(linked))
  BY <1>1, <1>2 DEF Ordered, Ends, Last
<1>4. ASSUME m < Len(path)
      PROVE  path[m + 1] \in Parents(Last(linked)) /\ ~Ends(Last(linked))
  <2>1. m + 1 \in 2..Len(path) /\ m \in 1..Len(path) - 1 /\ m + 1 - 1 = m
    BY <1>1, <1>4
  <2>2. Signs(path[m + 1], path[m])
    BY <1>1, <2>1 DEF PathSoFar
  <2>3. path[m + 1] \in ToSet(path)
    BY <1>1, <2>1 DEF ToSet
  <2>4. ~SelfIssued(path[m])
    BY <2>1 DEF Ordered
  <2> QED BY <1>2, <2>2, <2>3, <2>4 DEF Parents, Ends
<1> QED BY <1>1, <1>2, <1>3, <1>4

LEMMA EndLinkKeeps == PathInv /\ EndLink => PathInv'
<1> SUFFICES ASSUME PathInv, EndLink PROVE PathInv'
  OBVIOUS
<1>1. /\ phase = "link" /\ phase' = "done" /\ UNCHANGED <<given, search>> /\ linked' = linked
      /\ Ends(Last(linked))
  BY DEF EndLink
<1>2. Linking /\ linked \in Seq(Indices)
  BY <1>1 DEF PathInv, Linking
<1>3. Linking'
  <2> SUFFICES ASSUME Ordered' PROVE (linked \in Seq(Indices))' /\ Followed'
    BY <1>1 DEF Linking
  <2>1. Ordered /\ path' = path /\ Indices' = Indices
    BY <1>1, LinkGiven DEF search, given, Indices
  <2>2. Followed
    BY <1>1, <1>2, <2>1 DEF Linking, Verified
  <2>3. Len(linked) = Len(path)
    <3>1. Len(linked) \in 1..Len(path) /\ Len(path) \in Nat
      BY <2>2 DEF Followed, PathInv, PathTypeOK
    <3>2. ~(Len(linked) < Len(path))
      BY <1>1, <1>2, <2>1, <2>2, NextParent
    <3> QED BY <3>1, <3>2
  <2> QED BY <1>1, <1>2, <2>1, <2>2, <2>3 DEF Followed
<1> QED BY <1>1, <1>2, <1>3, LinkFrame

LEMMA LinkKeeps == PathInv /\ Link => PathInv'
<1> SUFFICES ASSUME PathInv, Link PROVE PathInv'
  OBVIOUS
<1> DEFINE m == Len(linked)
<1>1. phase = "link" /\ UNCHANGED <<given, search>> /\ ~Ends(Last(linked))
  BY DEF Link
<1>2. /\ Linking /\ linked \in Seq(Indices) /\ PathTypeOK /\ PathSoFar
      /\ path \in Seq(Indices) /\ Len(path) \in Nat /\ below \in Seq(Nat)
  BY <1>1 DEF PathInv, Underway, Linking, PathTypeOK
<1>3. path' = path /\ Indices' = Indices
  BY <1>1 DEF search, given, Indices
<1>4. Ordered => /\ Followed /\ m \in 1..Len(path) /\ m < Len(path) /\ Last(linked) = path[m]
                 /\ path[m + 1] \in Parents(path[m])
  <2> HAVE Ordered
  <2>1. Followed
    BY <1>1, <1>2 DEF Linking, Verified
  <2>2. m \in 1..Len(path)
    BY <2>1 DEF Followed
  <2>3. m # Len(path) /\ Last(linked) = path[m]
    BY <1>1, <1>2, <2>1, NextParent
  <2>4. m < Len(path)
    BY <1>2, <2>2, <2>3
  <2> QED BY <1>1, <1>2, <2>1, <2>2, <2>3, <2>4, NextParent
<1>5. CASE Refused /\ linked' = NotLinked /\ phase' = "done"
  <2>1. Ordered => \E i \in ToSet(path) : Ambiguous(i)
    <3> HAVE Ordered
    <3>1. path[m] \in ToSet(path)
      BY <1>2, <1>4 DEF ToSet
    <3>2. CASE Ambiguous(path[m])
      BY <3>1, <3>2
    <3>3. CASE ~Ambiguous(path[m])
      <4>1. PICK p \in Parents(path[m]) : p \in ToSet(linked) \/ ~CAPolicy(p, m - 1)
        BY <1>4, <1>5, <3>3 DEF Refused
      <4>2. p = path[m + 1]
        BY <1>4, <3>3, <4>1 DEF Ambiguous
      <4>3. m + 1 \in 2..Len(path) /\ m + 1 \in 1..Len(path) /\ \A j \in 1..m : j \in 1..Len(path) /\ j # m + 1
        BY <1>2, <1>4
      <4>4. p \notin ToSet(linked)
        <5>1. \A x \in ToSet(linked) : \E j \in 1..m : x = path[j]
          BY <1>2, <1>4 DEF Followed, ToSet
        <5>2. \A j \in 1..m : path[j] # path[m + 1]
          BY <1>2, <4>3 DEF PathSoFar
        <5> QED BY <4>2, <5>1, <5>2
      <4>5. CAPolicy(path[m + 1], below[m + 1]) /\ below[m + 1] = Between(path, m + 1)
        BY <1>2, <4>3 DEF PathSoFar
      <4>6. Between(path, m + 1) = m - 1
        <5>1. \A j \in 2..m + 1 - 1 : j \in 1..Len(path) - 1
          BY <1>2, <1>4
        <5>2. \A j \in 2..m + 1 - 1 : ~SelfIssued(path[j])
          BY <5>1 DEF Ordered
        <5>3. m + 1 \in Nat /\ m + 1 > 1 /\ m + 1 - 2 = m - 1
          BY <1>2, <1>4
        <5>4. Between(path, m + 1) = m + 1 - 2
          BY <5>2, <5>3, BetweenAll
        <5> QED BY <5>3, <5>4
      <4> QED BY <4>1, <4>2, <4>4, <4>5, <4>6
    <3> QED BY <3>2, <3>3
  <2>2. Linking'
    <3>1. NotLinked' = NotLinked
      BY DEF NotLinked
    <3> QED BY <1>1, <1>3, <1>5, <2>1, <3>1, LinkGiven DEF Linking
  <2> QED BY <1>1, <1>5, <2>2, LinkFrame
<1>6. CASE ~Refused /\ phase' = phase /\ \E p \in Parents(Last(linked)) : linked' = Append(linked, p)
  <2>1. PICK p \in Parents(Last(linked)) : linked' = Append(linked, p)
    BY <1>6
  <2>2. p \in Indices
    BY <1>2, <2>1 DEF Parents, ToSet
  <2>3. /\ linked' \in Seq(Indices) /\ Len(linked') = m + 1 /\ linked' # <<>>
        /\ linked'[m + 1] = p /\ \A k \in 1..m : linked'[k] = linked[k]
    <3>1. m \in Nat
      BY <1>2
    <3>2. /\ linked' \in Seq(Indices) /\ Len(linked') = m + 1 /\ linked'[m + 1] = p
          /\ \A k \in 1..m : linked'[k] = linked[k]
      BY <1>2, <2>1, <2>2
    <3>3. Len(linked') # 0
      BY <3>1, <3>2
    <3>4. linked' # <<>>
      BY <3>3
    <3> QED BY <3>2, <3>4
  <2>4. Linking'
    <3>1. Ordered => Followed'
      <4> HAVE Ordered
      <4>1. p = path[m + 1]
        BY <1>4, <1>6, <2>1 DEF Refused, Ambiguous
      <4>2. \A k \in 1..m + 1 : k = m + 1 \/ k \in 1..m
        BY <1>2
      <4>3. m + 1 \in 1..Len(path)
        BY <1>2, <1>4
      <4>4. \A k \in 1..m : linked[k] = path[k]
        BY <1>4 DEF Followed
      <4> QED BY <1>1, <1>3, <1>6, <2>3, <4>1, <4>2, <4>3, <4>4 DEF Followed
    <3> QED BY <1>1, <1>3, <1>6, <2>3, <3>1, LinkGiven DEF Linking
  <2> QED BY <1>1, <1>6, <2>3, <2>4, LinkFrame
<1> QED BY <1>5, <1>6 DEF Link

LEMMA PathStutter == PathInv /\ UNCHANGED pathVars => PathInv'
<1> SUFFICES ASSUME PathInv, UNCHANGED pathVars PROVE PathInv'
  OBVIOUS
<1>1. UNCHANGED <<leaf, pool, roots, pinned, path, below, next, visits, limited, linked, phase>>
  BY DEF pathVars, given, search
<1>2. Collection' /\ PathTypeOK' /\ (Underway' <=> Underway)
  BY <1>1 DEF PathInv, Collection, PathTypeOK, Underway, Indices, NotLinked
<1>3. Underway => PathSoFar'
  <2> HAVE Underway
  <2>1. PathSoFar /\ PathTypeOK /\ Collection
    BY DEF PathInv
  <2>2. Len(path') \in 1..Len(path) /\ path' \in Seq(Indices) /\ Len(below') = Len(path')
    BY <1>1, <2>1 DEF PathTypeOK, PathSoFar
  <2> QED BY <1>1, <2>1, <2>2, SoFarKept DEF given
<1>4. Places'
  BY <1>1 DEF PathInv, Places, Verified, IsAnchor, CAPolicy, Cert
<1>5. Tried'
  <2>1. Paths' = Paths
    BY <1>1, GivenPaths DEF given
  <2>2. \A p : Before(p)' <=> Before(p)
    BY <1>1 DEF Before, Upto, Agrees
  <2> QED BY <1>1, <2>1, <2>2 DEF PathInv, Tried
<1>6. Linking'
  <2>1. UNCHANGED <<given, search>> /\ path' = path /\ Indices' = Indices /\ NotLinked' = NotLinked
    BY <1>1 DEF given, search, Indices, NotLinked
  <2>2. (Verified' <=> Verified) /\ (Followed' <=> Followed)
    BY <1>1 DEF Verified, Followed
  <2> QED BY <1>1, <2>1, <2>2, LinkGiven DEF PathInv, Linking
<1> QED BY <1>2, <1>3, <1>4, <1>5, <1>6 DEF PathInv

(* At every moment of a search, what its loops have tried leads to no path, in any   *)
(* collection of certificates that share names and keys and sign each other.          *)
THEOREM PathInvariant == PathSpec => []PathInv
<1>1. PathInv /\ [PathNext]_pathVars => PathInv'
  BY PolicyKeeps, AtLimitKeeps, AtRootKeeps, EnterKeeps, DescendKeeps, GiveUpKeeps, EndLinkKeeps, LinkKeeps, PathStutter
     DEF PathNext
<1> QED BY PathInitKeeps, <1>1, PTL DEF PathSpec

\* A path has no more certificates than there are.
LEMMA PathIsShort ==
  ASSUME Collection, path \in Seq(Indices), \A j, k \in 1..Len(path) : path[j] = path[k] => j = k
  PROVE  Len(path) <= Len(pool) + 1
<1>1. Len(pool) \in Nat /\ Len(path) \in Nat
  BY PoolIsSeq
<1>2. path \in [1..Len(path) -> 0..Len(pool)]
  BY DEF Indices
<1>3. path \in Injection(1..Len(path), 0..Len(pool))
  BY <1>2 DEF Injection, IsInjective
<1>4. IsFiniteSet(0..Len(pool)) /\ Cardinality(0..Len(pool)) = Len(pool) + 1
  BY <1>1, FS_Interval
<1>5. Cardinality(1..Len(path)) = Len(path)
  <2>1. \A n \in Nat : Cardinality(1..n) = IF 1 > n THEN 0 ELSE n - 1 + 1
    BY FS_Interval
  <2>2. \A n \in Nat : (IF 1 > n THEN 0 ELSE n - 1 + 1) = n
    OBVIOUS
  <2> QED BY <1>1, <2>1, <2>2
<1>6. Cardinality(1..Len(path)) <= Cardinality(0..Len(pool))
  BY <1>3, <1>4, FS_Injection
<1> QED BY <1>4, <1>5, <1>6

LEMMA InvFindsPaths == PathInv => FoundIsPath
<1> SUFFICES ASSUME PathInv, Verified PROVE path \in Paths
  BY DEF FoundIsPath
<1> DEFINE n == Len(path)
<1>1. /\ Collection /\ PathSoFar /\ Places /\ path \in Seq(Indices) /\ n \in Nat /\ n >= 1
      /\ Len(pool) \in Nat /\ DOMAIN path = 1..n
  BY PoolIsSeq DEF PathInv, Verified, Underway, PathTypeOK, PathSoFar
<1>2. n <= Len(pool) + 1
  BY <1>1, PathIsShort DEF PathSoFar
<1>3. path \in [1..n -> Indices] /\ n \in 1..Len(pool) + 1
  BY <1>1, <1>2
<1>4. IsPath(path)
  <2>1. path[1] = 0 /\ leaf.purpose /\ \A j, k \in DOMAIN path : path[j] = path[k] => j = k
    BY <1>1 DEF PathSoFar
  <2>2. \A k \in DOMAIN path : IsAnchor(path[k]) <=> k = n
    <3> TAKE k \in DOMAIN path
    <3>1. k = n \/ k \in 1..n - 1
      BY <1>1
    <3>2. IsAnchor(path[n])
      BY <1>1 DEF Places, Last
    <3>3. k \in 1..n - 1 => ~IsAnchor(path[k]) /\ k # n
      BY <1>1 DEF PathSoFar
    <3> QED BY <3>1, <3>2, <3>3
  <2>3. \A k \in DOMAIN path \ {1} : Signs(path[k], path[k - 1]) /\ CAPolicy(path[k], Between(path, k))
    <3> TAKE k \in DOMAIN path \ {1}
    <3>1. k \in 2..n /\ k \in 1..n
      BY <1>1
    <3> QED BY <1>1, <3>1 DEF PathSoFar
  <2>4. n = 1 => CAPolicy(0, 0)
    BY <1>1 DEF Places
  <2> QED BY <2>1, <2>2, <2>3, <2>4 DEF IsPath
<1> HIDE DEF n
<1> QED BY <1>3, <1>4 DEF Paths

LEMMA InvOrders == PathInv => SameOrder
<1> SUFFICES ASSUME PathInv, phase = "done", Ordered
             PROVE  linked = path \/ (linked = NotLinked /\ \E i \in ToSet(path) : Ambiguous(i))
  BY DEF SameOrder, Ordered
<1>1. path \in Seq(Indices) /\ Linking /\ Verified
  BY DEF PathInv, PathTypeOK, Verified
<1>2. CASE linked \in Seq(Indices) /\ Followed
  <2>1. Len(linked) = Len(path) /\ \A k \in 1..Len(linked) : linked[k] = path[k]
    BY <1>2 DEF Followed
  <2>2. linked \in [1..Len(path) -> Indices] /\ path \in [1..Len(path) -> Indices]
    BY <1>1, <1>2, <2>1
  <2> QED BY <2>1, <2>2
<1> QED BY <1>1, <1>2 DEF Linking

(* verifyCertificateChainFor finds a path exactly when there is one, unless a limit    *)
(* stops it, and linkedCertificates orders its certificates in the same way or finds   *)
(* them ambiguous.                                                                   *)
THEOREM PathsAgreeAlways == PathSpec => []PathsAgree
<1>1. PathInv => PathsAgree
  <2>1. PathInv => PathIsFound
    BY DEF PathInv, Tried, PathIsFound
  <2> QED BY <2>1, InvFindsPaths, InvOrders DEF PathInv, PathsAgree
<1> QED BY <1>1, PathInvariant, PTL

---------------------------------------------------------------------------
(* SignedBundle: the inductive invariant BundleInv says that code has the       *)
(* directories of its last signature or none, and what that signature recorded.  *)

\* Code on the disk, and what it is of.
States == {"absent", "old", "new"}
CodeOf(present, pages, info, files, env, dirs) ==
  [present |-> present, pages |-> pages, info |-> info, files |-> files, env |-> env, dirs |-> dirs]
IsCode(d) ==
  /\ d = CodeOf(d.present, d.pages, d.info, d.files, d.env, d.dirs)
  /\ d.present \in BOOLEAN /\ d.pages \in [Arch -> 0..1] /\ d.info \in 0..1
  /\ d.files \in [Names -> States]

\* An envelope that code may have.
MaySeal(c, env) ==
  \/ env = <<>>
  \/ /\ c \in Bundles /\ env = <<env[1]>>
     /\ DOMAIN env[1].files \subseteq Sealable /\ DOMAIN env[1].kids \subseteq Children[c]

\* What a signature that the history h tells of made: its directories, what its code then
\* requires of itself, and the envelope of its bundle.
DirectoriesOf(h) == [a \in Arch |-> Directory(h, a, h.signer, h.env)]
RequirementOf(h) ==
  IF h.signer = "certificate" THEN [signer |-> "certificate", hashes |-> {}]
  ELSE [signer |-> "", hashes |-> {DirectoriesOf(h)[a] : a \in Arch}]
EnvelopeOf(h) ==
  [files |-> [n \in {m \in Sealable : h.files[m] # "absent"} |-> h.files[n]],
   kids |-> [k \in DOMAIN h.kids |-> RequirementOf(h.kids[k])]]

\* A history of code that was signed, and one of any code.
WasSigned(h) == h.signer \in Signers /\ h.pages \in [Arch -> 0..1]
History(c, h) ==
  /\ WasSigned(h)
  /\ h.files \in [Sealable -> States]
  /\ DOMAIN h.kids \subseteq Children[c] /\ \A k \in DOMAIN h.kids : WasSigned(h.kids[k])
  /\ h.env = IF c \in Bundles THEN <<EnvelopeOf(h)>> ELSE <<>>

Recorded(c, d, h) ==
  /\ IsCode(d) /\ MaySeal(c, d.env)
  /\ \/ h.signer = "" /\ d.dirs = <<>>
     \/ History(c, h) /\ d.dirs \in {<<>>, <<DirectoriesOf(h)>>}

BundleInv ==
  /\ steps \in 0..MaxSteps /\ first \in Seq(Codes)
  /\ disk = [c \in Codes |-> disk[c]] /\ sealed = [c \in Codes |-> sealed[c]]
  /\ \A c \in Codes : Recorded(c, disk[c], sealed[c])

\* What code is, and what a step makes of it.
LEMMA CodeIs ==
  ASSUME NEW present \in BOOLEAN, NEW pages \in [Arch -> 0..1], NEW info \in 0..1, NEW files \in [Names -> States],
         NEW env, NEW dirs
  PROVE  LET d == CodeOf(present, pages, info, files, env, dirs)
         IN IsCode(d) /\ d.present = present /\ d.pages = pages /\ d.info = info /\ d.files = files /\ d.env = env /\ d.dirs = dirs
BY DEF IsCode, CodeOf

LEMMA PageCode ==
  ASSUME NEW d, IsCode(d), NEW a
  PROVE  [d EXCEPT !.pages[a] = 1 - @] = CodeOf(d.present, [d.pages EXCEPT ![a] = 1 - @], d.info, d.files, d.env, d.dirs)
BY DEF IsCode, CodeOf

LEMMA InfoCode ==
  ASSUME NEW d, IsCode(d)
  PROVE  [d EXCEPT !.info = 1 - @] = CodeOf(d.present, d.pages, 1 - d.info, d.files, d.env, d.dirs)
BY DEF IsCode, CodeOf

LEMMA FileCode ==
  ASSUME NEW d, IsCode(d), NEW n, NEW v
  PROVE  [d EXCEPT !.files[n] = v] = CodeOf(d.present, d.pages, d.info, [d.files EXCEPT ![n] = v], d.env, d.dirs)
BY DEF IsCode, CodeOf

LEMMA EnvelopeCode ==
  ASSUME NEW d, IsCode(d), NEW env
  PROVE  [d EXCEPT !.env = env] = CodeOf(d.present, d.pages, d.info, d.files, env, d.dirs)
BY DEF IsCode, CodeOf

LEMMA SignedCode ==
  ASSUME NEW d, IsCode(d), NEW env, NEW dirs
  PROVE  [d EXCEPT !.env = env, !.dirs = dirs] = CodeOf(d.present, d.pages, d.info, d.files, env, dirs)
<1>1. [d EXCEPT !.env = env, !.dirs = dirs] = [[d EXCEPT !.env = env] EXCEPT !.dirs = dirs]
  OBVIOUS
<1>2. [d EXCEPT !.env = env] = CodeOf(d.present, d.pages, d.info, d.files, env, d.dirs)
  BY EnvelopeCode
<1>3. [CodeOf(d.present, d.pages, d.info, d.files, env, d.dirs) EXCEPT !.dirs = dirs]
      = CodeOf(d.present, d.pages, d.info, d.files, env, dirs)
  BY DEF CodeOf
<1> QED BY <1>1, <1>2, <1>3, Zenon

LEMMA UnsignedCode ==
  ASSUME NEW d, IsCode(d), NEW dirs
  PROVE  [d EXCEPT !.dirs = dirs] = CodeOf(d.present, d.pages, d.info, d.files, d.env, dirs)
BY DEF IsCode, CodeOf

LEMMA MovedCode ==
  ASSUME NEW c, IsCode(disk[c])
  PROVE  [disk EXCEPT ![c].present = ~@]
         = [disk EXCEPT ![c] = CodeOf(~disk[c].present, disk[c].pages, disk[c].info, disk[c].files, disk[c].env, disk[c].dirs)]
<1>1. ASSUME NEW d, IsCode(d), NEW b
      PROVE  [d EXCEPT !.present = b] = CodeOf(b, d.pages, d.info, d.files, d.env, d.dirs)
  BY <1>1 DEF IsCode, CodeOf
<1>2. [disk EXCEPT ![c].present = ~@] = [disk EXCEPT ![c] = [disk[c] EXCEPT !.present = ~disk[c].present]]
  BY Zenon
<1>3. [disk[c] EXCEPT !.present = ~disk[c].present]
      = CodeOf(~disk[c].present, disk[c].pages, disk[c].info, disk[c].files, disk[c].env, disk[c].dirs)
  BY <1>1
<1> QED BY <1>2, <1>3, Zenon

LEMMA SeqElements ==
  ASSUME NEW S, NEW s \in Seq(S)
  PROVE  DOMAIN s = 1..Len(s) /\ Len(s) \in Nat /\ \A i \in 1..Len(s) : s[i] \in S
OBVIOUS

LEMMA ArchIs == Arch # {} /\ "" \notin Arch /\ Arch = {Architectures[i] : i \in 1..Len(Architectures)}
               /\ Len(Architectures) \in Nat /\ Architectures[1] \in Arch
               /\ DOMAIN Architectures = 1..Len(Architectures)
<1> DEFINE S == STRING \ {""}
<1>1. Architectures \in Seq(S) /\ Len(Architectures) > 0 /\ \A x \in S : x # ""
  BY BundleAssumption
<1> HIDE DEF S
<1>2. /\ DOMAIN Architectures = 1..Len(Architectures) /\ Len(Architectures) \in Nat
      /\ \A i \in 1..Len(Architectures) : Architectures[i] \in S
  BY <1>1, SeqElements
<1>3. Arch = {Architectures[i] : i \in 1..Len(Architectures)}
  BY <1>2 DEF Arch, ToSet
<1>4. 1 \in 1..Len(Architectures)
  <2>1. Len(Architectures) > 0 /\ Len(Architectures) \in Nat
    BY <1>1, <1>2
  <2> QED BY <2>1
<1> QED BY <1>1, <1>2, <1>3, <1>4

\* Signed code has its signer in every directory, and is what its history says.
LEMMA SignedIs ==
  ASSUME NEW c, NEW d, NEW h, Recorded(c, d, h), d.dirs # <<>>
  PROVE  History(c, h) /\ d.dirs = <<DirectoriesOf(h)>> /\ d.dirs[1] = DirectoriesOf(h)
<1>1. History(c, h) /\ d.dirs = <<DirectoriesOf(h)>>
  BY DEF Recorded
<1>2. d.dirs[1] = DirectoriesOf(h)
  BY <1>1
<1> QED BY <1>1, <1>2

LEMMA DirectoryIs ==
  ASSUME NEW h, NEW a \in Arch
  PROVE  /\ DirectoriesOf(h)[a] = Directory(h, a, h.signer, h.env)
         /\ DirectoriesOf(h)[a].arch = a /\ DirectoriesOf(h)[a].signer = h.signer
         /\ DirectoriesOf(h)[a].page = h.pages[a] /\ DirectoriesOf(h)[a].info = h.info
         /\ DirectoriesOf(h)[a].resources = h.env
<1>1. DirectoriesOf(h)[a] = Directory(h, a, h.signer, h.env)
  BY DEF DirectoriesOf
<1> QED BY <1>1 DEF Directory

LEMMA DesignatedIs ==
  ASSUME BundleInv, NEW k \in Codes, disk[k].dirs # <<>>
  PROVE  designated(disk, k) = RequirementOf(sealed[k]) /\ WasSigned(sealed[k])
<1>1. Recorded(k, disk[k], sealed[k])
  BY DEF BundleInv
<1>2. WasSigned(sealed[k]) /\ disk[k].dirs[1] = DirectoriesOf(sealed[k])
  BY <1>1, SignedIs DEF History
<1>3. Architectures[1] \in Arch
  BY ArchIs
<1>4. DirectoriesOf(sealed[k])[Architectures[1]].signer = sealed[k].signer
  BY <1>3, DirectoryIs
<1>5. disk[k].dirs[1][Architectures[1]].signer = sealed[k].signer
  BY <1>2, <1>4
<1> QED BY <1>2, <1>5 DEF designated, RequirementOf

LEMMA PresentIs ==
  ASSUME NEW c \in Codes
  PROVE  Present(disk, c) \subseteq Children[c] /\ Children[c] \subseteq Codes
BY BundleAssumption DEF Present

\* What a step does to one code.
Becomes(c, d, h) ==
  /\ disk' = [disk EXCEPT ![c] = d] /\ sealed' = [sealed EXCEPT ![c] = h]

LEMMA StepsAre == BundleInv => steps \in Nat /\ MaxSteps \in Nat
<1>1. MaxSteps \in Nat
  BY BundleAssumption
<1> QED BY <1>1 DEF BundleInv

LEMMA CodeKeeps ==
  ASSUME BundleInv, NEW c \in Codes, NEW d, NEW h, Becomes(c, d, h), Recorded(c, d, h),
         steps' \in 0..MaxSteps, first' \in Seq(Codes)
  PROVE  BundleInv'
<1>1. disk' = [x \in Codes |-> disk'[x]] /\ sealed' = [x \in Codes |-> sealed'[x]]
  BY DEF BundleInv, Becomes
<1>2. disk'[c] = d /\ sealed'[c] = h
  BY DEF BundleInv, Becomes
<1>3. \A x \in Codes \ {c} : disk'[x] = disk[x] /\ sealed'[x] = sealed[x]
  BY DEF BundleInv, Becomes
<1>4. \A x, e, g : Recorded(x, e, g)' <=> Recorded(x, e, g)
  OBVIOUS
<1> QED BY <1>1, <1>2, <1>3, <1>4 DEF BundleInv

LEMMA SignedKeeps ==
  ASSUME BundleInv, NEW c \in Codes, NEW signer \in Signers, Signed(c, signer),
         steps' \in 0..MaxSteps, first' \in Seq(Codes)
  PROVE  BundleInv'
<1> DEFINE E == Sealing(c)
           h == [signer |-> signer, pages |-> disk[c].pages, info |-> disk[c].info, env |-> E,
                 files |-> [n \in Sealable |-> disk[c].files[n]], kids |-> [k \in Present(disk, c) |-> sealed[k]]]
           D == <<[a \in Arch |-> Directory(disk[c], a, signer, E)]>>
           d == [disk[c] EXCEPT !.env = E, !.dirs = D]
<1>1. Becomes(c, d, h) /\ Signable(disk, c)
  BY DEF Signed, Becomes
<1>2. IsCode(disk[c])
  BY DEF BundleInv, Recorded
<1>3. d = CodeOf(disk[c].present, disk[c].pages, disk[c].info, disk[c].files, E, D)
  BY <1>2, SignedCode
<1>4. /\ h.signer = signer /\ h.pages = disk[c].pages /\ h.info = disk[c].info /\ h.env = E
      /\ h.files = [n \in Sealable |-> disk[c].files[n]]
      /\ h.kids = [k \in Present(disk, c) |-> sealed[k]]
  OBVIOUS
<1>5. D = <<DirectoriesOf(h)>>
  BY <1>4 DEF DirectoriesOf, Directory
<1> HIDE DEF h, D, d
<1>6. \A k \in Present(disk, c) : designated(disk, k) = RequirementOf(sealed[k]) /\ WasSigned(sealed[k])
  BY <1>1, PresentIs, DesignatedIs DEF Signable
<1>7. Envelope(disk, c) = EnvelopeOf(h)
  <2>1. \A n \in Sealable : h.files[n] = disk[c].files[n]
    BY <1>4
  <2>2. [n \in {m \in Sealable : disk[c].files[m] # "absent"} |-> disk[c].files[n]]
        = [n \in {m \in Sealable : h.files[m] # "absent"} |-> h.files[n]]
    BY <2>1
  <2>3. DOMAIN h.kids = Present(disk, c) /\ \A k \in Present(disk, c) : h.kids[k] = sealed[k]
    BY <1>4
  <2>4. [k \in Present(disk, c) |-> designated(disk, k)] = [k \in DOMAIN h.kids |-> RequirementOf(h.kids[k])]
    BY <1>6, <2>3
  <2> QED BY <2>2, <2>4 DEF Envelope, EnvelopeOf
<1>8. E = IF c \in Bundles THEN <<EnvelopeOf(h)>> ELSE <<>>
  BY <1>7 DEF Sealing
<1>9. History(c, h)
  <2>1. WasSigned(h)
    BY <1>2, <1>4 DEF WasSigned, IsCode
  <2>2. h.files \in [Sealable -> States]
    BY <1>2, <1>4 DEF IsCode, Names, Sealable
  <2>3. DOMAIN h.kids \subseteq Children[c] /\ \A k \in DOMAIN h.kids : WasSigned(h.kids[k])
    BY <1>4, <1>6, PresentIs
  <2> QED BY <1>4, <1>8, <2>1, <2>2, <2>3 DEF History
<1>10. IsCode(d) /\ d.env = E /\ d.dirs = <<DirectoriesOf(h)>>
  <2>1. /\ disk[c].present \in BOOLEAN /\ disk[c].pages \in [Arch -> 0..1] /\ disk[c].info \in 0..1
        /\ disk[c].files \in [Names -> States]
    BY <1>2 DEF IsCode
  <2> QED BY <2>1, <1>3, <1>5, CodeIs
<1>11. MaySeal(c, E)
  <2>1. CASE c \in Bundles
    <3>1. E = <<EnvelopeOf(h)>> /\ E[1] = EnvelopeOf(h)
      BY <1>8, <2>1
    <3>2. DOMAIN EnvelopeOf(h).files \subseteq Sealable /\ DOMAIN EnvelopeOf(h).kids = DOMAIN h.kids
      BY DEF EnvelopeOf
    <3> QED BY <1>9, <2>1, <3>1, <3>2 DEF MaySeal, History
  <2>2. CASE c \notin Bundles
    BY <1>8, <2>2 DEF MaySeal
  <2> QED BY <2>1, <2>2
<1>12. Recorded(c, d, h)
  BY <1>9, <1>10, <1>11 DEF Recorded
<1> QED BY <1>1, <1>12, CodeKeeps

LEMMA EditKeeps ==
  ASSUME BundleInv, NEW c \in Codes, NEW d, disk' = [disk EXCEPT ![c] = d], sealed' = sealed,
         steps < MaxSteps, steps' = steps + 1, first' = first,
         IsCode(d), MaySeal(c, d.env), d.dirs \in {<<>>, disk[c].dirs}
  PROVE  BundleInv'
<1>1. steps \in Nat /\ MaxSteps \in Nat
  BY StepsAre
<1>2. steps' \in 0..MaxSteps /\ first' \in Seq(Codes)
  BY <1>1 DEF BundleInv
<1>3. Becomes(c, d, sealed[c])
  <2>1. sealed = [sealed EXCEPT ![c] = sealed[c]]
    BY DEF BundleInv
  <2> QED BY <2>1 DEF Becomes
<1>4. Recorded(c, disk[c], sealed[c])
  BY DEF BundleInv
<1>5. Recorded(c, d, sealed[c])
  BY <1>4 DEF Recorded
<1> QED BY <1>2, <1>3, <1>5, CodeKeeps

\* An edit that makes code of the given parts.
LEMMA EditCode ==
  ASSUME BundleInv, NEW c \in Codes, NEW pages \in [Arch -> 0..1], NEW info \in 0..1, NEW files \in [Names -> States],
         NEW env, NEW dirs, MaySeal(c, env), dirs \in {<<>>, disk[c].dirs},
         Edit(c, CodeOf(disk[c].present, pages, info, files, env, dirs))
  PROVE  BundleInv'
<1> DEFINE d == CodeOf(disk[c].present, pages, info, files, env, dirs)
<1>1. Recorded(c, disk[c], sealed[c])
  BY DEF BundleInv
<1>2. disk[c].present \in BOOLEAN
  BY <1>1 DEF Recorded, IsCode
<1>3. IsCode(d) /\ d.env = env /\ d.dirs = dirs
  BY <1>2, CodeIs
<1>4. disk' = [disk EXCEPT ![c] = d] /\ sealed' = sealed /\ steps < MaxSteps /\ steps' = steps + 1 /\ first' = first
  BY DEF Edit
<1> HIDE DEF d
<1> QED BY <1>3, <1>4, EditKeeps

LEMMA BundleStep == BundleInv /\ [BundleNext]_bundleVars => BundleInv'
<1> SUFFICES ASSUME BundleInv, [BundleNext]_bundleVars PROVE BundleInv'
  OBVIOUS
<1>1. ASSUME NEW signer \in Signers, SignNext(signer) PROVE BundleInv'
  <2>1. first \in Seq(Codes) /\ first # <<>> /\ first' = Tail(first) /\ steps' = steps
    BY <1>1 DEF SignNext, BundleInv
  <2>2. Head(first) \in Codes /\ first' \in Seq(Codes)
    BY <2>1
  <2>3. steps' \in 0..MaxSteps
    BY <2>1 DEF BundleInv
  <2>4. Signed(Head(first), signer)
    BY <1>1 DEF SignNext
  <2> QED BY <2>2, <2>3, <2>4, SignedKeeps
<1>2. ASSUME NEW c \in Codes, NEW signer \in Signers, Sign(c, signer) PROVE BundleInv'
  <2>1. /\ steps \in Nat /\ steps < MaxSteps /\ MaxSteps \in Nat /\ steps' = steps + 1 /\ first' = first
    BY <1>2, StepsAre DEF Sign
  <2>2. steps' \in 0..MaxSteps /\ first' \in Seq(Codes)
    BY <2>1 DEF BundleInv
  <2>3. Signed(c, signer)
    BY <1>2 DEF Sign
  <2> QED BY <2>2, <2>3, SignedKeeps
<1>3. ASSUME NEW c \in Codes
      PROVE  /\ IsCode(disk[c]) /\ MaySeal(c, disk[c].env)
             /\ disk[c].present \in BOOLEAN /\ disk[c].pages \in [Arch -> 0..1] /\ disk[c].info \in 0..1
             /\ disk[c].files \in [Names -> States] /\ MaySeal(c, <<>>)
  BY DEF BundleInv, Recorded, IsCode, MaySeal
<1>4. ASSUME NEW c \in Codes, EditPage(c) PROVE BundleInv'
  <2>1. PICK a \in Arch : Edit(c, [disk[c] EXCEPT !.pages[a] = 1 - @])
    BY <1>4 DEF EditPage
  <2>2. Edit(c, CodeOf(disk[c].present, [disk[c].pages EXCEPT ![a] = 1 - @], disk[c].info, disk[c].files, disk[c].env, disk[c].dirs))
    BY <1>3, <2>1, PageCode
  <2>3. [disk[c].pages EXCEPT ![a] = 1 - @] \in [Arch -> 0..1]
    BY <1>3
  <2> QED BY <1>3, <2>2, <2>3, EditCode
<1>5. ASSUME NEW c \in Codes, EditInfo(c) PROVE BundleInv'
  <2>1. Edit(c, CodeOf(disk[c].present, disk[c].pages, 1 - disk[c].info, disk[c].files, disk[c].env, disk[c].dirs))
    BY <1>3, <1>5, InfoCode DEF EditInfo
  <2>2. 1 - disk[c].info \in 0..1
    BY <1>3
  <2> QED BY <1>3, <2>1, <2>2, EditCode
<1>6. ASSUME NEW c \in Codes, EditFile(c) PROVE BundleInv'
  <2>1. PICK n \in Names, v \in States : Edit(c, [disk[c] EXCEPT !.files[n] = v])
    BY <1>6 DEF EditFile, States
  <2>2. Edit(c, CodeOf(disk[c].present, disk[c].pages, disk[c].info, [disk[c].files EXCEPT ![n] = v], disk[c].env, disk[c].dirs))
    BY <1>3, <2>1, FileCode
  <2>3. [disk[c].files EXCEPT ![n] = v] \in [Names -> States]
    BY <1>3
  <2> QED BY <1>3, <2>2, <2>3, EditCode
<1>7. ASSUME NEW c \in Codes, EditEnvelope(c) PROVE BundleInv'
  <2>1. PICK env \in {<<>>, <<Envelope(disk, c)>>} : Edit(c, [disk[c] EXCEPT !.env = env])
    BY <1>7 DEF EditEnvelope
  <2>2. Edit(c, CodeOf(disk[c].present, disk[c].pages, disk[c].info, disk[c].files, env, disk[c].dirs))
    BY <1>3, <2>1, EnvelopeCode
  <2>3. MaySeal(c, env)
    <3>1. c \in Bundles
      BY <1>7 DEF EditEnvelope
    <3>2. DOMAIN Envelope(disk, c).files \subseteq Sealable /\ DOMAIN Envelope(disk, c).kids \subseteq Children[c]
      BY PresentIs DEF Envelope
    <3>3. CASE env = <<Envelope(disk, c)>>
      <4>1. env[1] = Envelope(disk, c)
        BY <3>3
      <4> QED BY <3>1, <3>2, <3>3, <4>1 DEF MaySeal
    <3> QED BY <1>3, <3>3
  <2> QED BY <1>3, <2>2, <2>3, EditCode
<1>8. ASSUME NEW c \in Codes, Unsign(c) PROVE BundleInv'
  <2>1. Edit(c, CodeOf(disk[c].present, disk[c].pages, disk[c].info, disk[c].files, disk[c].env, <<>>))
    BY <1>3, <1>8, UnsignedCode DEF Unsign
  <2> QED BY <1>3, <2>1, EditCode
<1>9. ASSUME NEW c \in Codes, Move(c) PROVE BundleInv'
  <2> DEFINE d == CodeOf(~disk[c].present, disk[c].pages, disk[c].info, disk[c].files, disk[c].env, disk[c].dirs)
  <2>1. /\ disk' = [disk EXCEPT ![c].present = ~@] /\ sealed' = sealed
        /\ steps < MaxSteps /\ steps' = steps + 1 /\ first' = first
    BY <1>9 DEF Move
  <2>2. disk' = [disk EXCEPT ![c] = d]
    <3>1. [disk EXCEPT ![c].present = ~@] = [disk EXCEPT ![c] = d]
      BY <1>3, MovedCode
    <3> QED BY <2>1, <3>1
  <2>3. IsCode(d) /\ d.env = disk[c].env /\ d.dirs = disk[c].dirs
    <3>1. ASSUME NEW b \in BOOLEAN
          PROVE  LET x == CodeOf(b, disk[c].pages, disk[c].info, disk[c].files, disk[c].env, disk[c].dirs)
                 IN IsCode(x) /\ x.env = disk[c].env /\ x.dirs = disk[c].dirs
      BY <1>3, CodeIs
    <3>2. (~disk[c].present) \in BOOLEAN
      OBVIOUS
    <3> QED BY <3>1, <3>2, Zenon
  <2> HIDE DEF d
  <2> QED BY <1>3, <2>1, <2>2, <2>3, EditKeeps
<1>10. ASSUME UNCHANGED bundleVars PROVE BundleInv'
  <2>1. \A x, e, g : Recorded(x, e, g)' <=> Recorded(x, e, g)
    OBVIOUS
  <2>2. disk' = disk /\ sealed' = sealed /\ first' = first /\ steps' = steps
    BY <1>10 DEF bundleVars
  <2> QED BY <2>1, <2>2 DEF BundleInv
<1> QED BY <1>1, <1>2, <1>4, <1>5, <1>6, <1>7, <1>8, <1>9, <1>10 DEF BundleNext

\* Code before anything was signed.
StartFiles(have, c) == [n \in Names |-> IF n \in have /\ c \in Bundles THEN "old" ELSE "absent"]

LEMMA UnsignedIs == IsCode(Unsigned) /\ Unsigned.env = <<>> /\ Unsigned.dirs = <<>>
<1>1. Unsigned = CodeOf(TRUE, [a \in Arch |-> 0], 0, [n \in Names |-> "absent"], <<>>, <<>>)
  BY DEF Unsigned, CodeOf
<1>2. [a \in Arch |-> 0] \in [Arch -> 0..1] /\ 0 \in 0..1 /\ [n \in Names |-> "absent"] \in [Names -> States]
  BY DEF States
<1>3. ASSUME NEW present \in BOOLEAN, NEW pages \in [Arch -> 0..1], NEW info \in 0..1, NEW files \in [Names -> States]
      PROVE  LET d == CodeOf(present, pages, info, files, <<>>, <<>>)
             IN IsCode(d) /\ d.env = <<>> /\ d.dirs = <<>>
  BY CodeIs
<1> QED BY <1>1, <1>2, <1>3

LEMMA StartKnown ==
  ASSUME NEW have, NEW c, NEW d, d = [Unsigned EXCEPT !.files = StartFiles(have, c)]
  PROVE  IsCode(d) /\ d.env = <<>> /\ d.dirs = <<>>
<1>1. StartFiles(have, c) \in [Names -> States]
  BY DEF StartFiles, States
<1>2. ASSUME NEW e, IsCode(e), NEW F
      PROVE  [e EXCEPT !.files = F] = CodeOf(e.present, e.pages, e.info, F, e.env, e.dirs)
  BY <1>2 DEF IsCode, CodeOf
<1>3. d = CodeOf(Unsigned.present, Unsigned.pages, Unsigned.info, StartFiles(have, c), Unsigned.env, Unsigned.dirs)
  BY <1>2, UnsignedIs
<1>4. Unsigned.present \in BOOLEAN /\ Unsigned.pages \in [Arch -> 0..1] /\ Unsigned.info \in 0..1
  BY UnsignedIs DEF IsCode
<1> QED BY <1>1, <1>3, <1>4, UnsignedIs, CodeIs

LEMMA BundleStart == BundleInit => BundleInv
<1> SUFFICES ASSUME BundleInit PROVE BundleInv
  OBVIOUS
<1>1. PICK have \in InitialFiles : disk = [c \in Codes |-> [Unsigned EXCEPT !.files = StartFiles(have, c)]]
  BY DEF BundleInit, StartFiles
<1>2. ASSUME NEW c \in Codes PROVE Recorded(c, disk[c], sealed[c])
  <2>1. disk[c] = [Unsigned EXCEPT !.files = StartFiles(have, c)]
    BY <1>1, Zenon
  <2>2. IsCode(disk[c]) /\ disk[c].env = <<>> /\ disk[c].dirs = <<>>
    <3> DEFINE d == [Unsigned EXCEPT !.files = StartFiles(have, c)]
    <3>1. IsCode(d) /\ d.env = <<>> /\ d.dirs = <<>>
      BY StartKnown
    <3>2. disk[c] = d
      BY <2>1
    <3> HIDE DEF d
    <3> QED BY <3>1, <3>2, Zenon
  <2>3. sealed[c] = [signer |-> ""]
    BY DEF BundleInit
  <2>4. sealed[c].signer = ""
    <3>1. [signer |-> ""].signer = ""
      OBVIOUS
    <3> QED BY <2>3, <3>1, Zenon
  <2>5. MaySeal(c, disk[c].env)
    BY <2>2 DEF MaySeal
  <2> QED BY <2>2, <2>4, <2>5 DEF Recorded
<1>3. disk = [c \in Codes |-> disk[c]] /\ sealed = [c \in Codes |-> sealed[c]]
  BY <1>1 DEF BundleInit
<1>4. steps \in 0..MaxSteps
  <2>1. MaxSteps \in Nat
    BY BundleAssumption
  <2>2. steps = 0
    BY DEF BundleInit
  <2> QED BY <2>1, <2>2
<1>5. first \in Seq(Codes)
  <2>1. InsideOut \in Seq(Codes)
    BY BundleAssumption
  <2>2. <<>> \in Seq(Codes)
    OBVIOUS
  <2>3. first \in {<<>>, InsideOut}
    BY DEF BundleInit
  <2> QED BY <2>1, <2>2, <2>3
<1> QED BY <1>2, <1>3, <1>4, <1>5 DEF BundleInv

LEMMA BundleInvTypes == BundleInv => BundleTypes
<1> SUFFICES ASSUME BundleInv PROVE BundleTypes
  OBVIOUS
<1>1. ASSUME NEW c \in Codes
      PROVE  /\ disk[c].pages \in [Arch -> 0..1] /\ disk[c].info \in 0..1 /\ disk[c].present \in BOOLEAN
             /\ disk[c].files \in [Names -> {"absent", "old", "new"}]
             /\ disk[c].env # <<>> => /\ c \in Bundles /\ DOMAIN disk[c].env[1].files \subseteq Sealable
                                      /\ DOMAIN disk[c].env[1].kids \subseteq Children[c]
             /\ disk[c].dirs # <<>> => DOMAIN disk[c].dirs[1] = Arch /\ sealed[c].signer \in Signers
  <2>1. Recorded(c, disk[c], sealed[c])
    BY DEF BundleInv
  <2>2. IsCode(disk[c]) /\ MaySeal(c, disk[c].env)
    BY <2>1 DEF Recorded
  <2>3. disk[c].dirs # <<>> => DOMAIN disk[c].dirs[1] = Arch /\ sealed[c].signer \in Signers
    <3>1. DOMAIN DirectoriesOf(sealed[c]) = Arch
      BY DEF DirectoriesOf
    <3>2. disk[c].dirs # <<>> => disk[c].dirs[1] = DirectoriesOf(sealed[c]) /\ History(c, sealed[c])
      BY <2>1, SignedIs
    <3> QED BY <3>1, <3>2 DEF History, WasSigned
  <2> QED BY <2>2, <2>3 DEF IsCode, MaySeal, States
<1> QED BY <1>1 DEF BundleTypes, BundleInv

---------------------------------------------------------------------------
\* A slice of code fails exactly when something that its directory covers is not as it was.
SliceKept(c, a, directoryOnly, ignore) ==
  /\ disk[c].dirs # <<>> /\ disk[c].info = sealed[c].info
  /\ ~directoryOnly => disk[c].pages[a] = sealed[c].pages[a] /\ (ignore \/ disk[c].env = sealed[c].env)

LEMMA SliceJudged ==
  ASSUME BundleInv, NEW c \in Codes, NEW a \in Arch, NEW directoryOnly \in BOOLEAN, NEW ignore \in BOOLEAN
  PROVE  SliceFailure(c, a, directoryOnly, ignore) = "" <=> SliceKept(c, a, directoryOnly, ignore)
<1>1. CASE disk[c].dirs = <<>>
  BY <1>1 DEF SliceFailure, SliceKept
<1>2. CASE disk[c].dirs # <<>>
  <2>1. Recorded(c, disk[c], sealed[c])
    BY DEF BundleInv
  <2>2. disk[c].dirs[1][a] = DirectoriesOf(sealed[c])[a]
    BY <1>2, <2>1, SignedIs
  <2>3. /\ disk[c].dirs[1][a].page = sealed[c].pages[a] /\ disk[c].dirs[1][a].info = sealed[c].info
        /\ disk[c].dirs[1][a].resources = sealed[c].env
    BY <2>2, DirectoryIs
  <2> QED BY <1>2, <2>3 DEF SliceFailure, SliceKept, PagesChecked
<1> QED BY <1>1, <1>2

LEMMA SingleIs ==
  ASSUME NEW x
  PROVE  {<<x>>[i] : i \in DOMAIN <<x>>} = {x} /\ DOMAIN <<x>> \subseteq Nat
<1>1. DOMAIN <<x>> = 1..1
  OBVIOUS
<1>2. 1..1 = {1} /\ <<x>>[1] = x
  OBVIOUS
<1> QED BY <1>1, <1>2

LEMMA IndicesAre ==
  ASSUME NEW n \in Nat PROVE 1..n \subseteq Nat
OBVIOUS

LEMMA SelectedIs ==
  ASSUME NEW arch \in {""} \cup Arch
  PROVE  /\ DOMAIN Selected(arch) \subseteq Nat
         /\ {Selected(arch)[i] : i \in DOMAIN Selected(arch)} = IF arch = "" THEN Arch ELSE {arch}
<1>1. CASE arch = ""
  <2>1. Selected(arch) = Architectures
    BY <1>1 DEF Selected
  <2>2. DOMAIN Architectures \subseteq Nat
    <3>1. DOMAIN Architectures = 1..Len(Architectures) /\ Len(Architectures) \in Nat
      BY ArchIs
    <3>2. 1..Len(Architectures) \subseteq Nat
      BY <3>1, IndicesAre
    <3> QED BY <3>1, <3>2
  <2>3. {Architectures[i] : i \in DOMAIN Architectures} = Arch
    BY ArchIs
  <2> QED BY <1>1, <2>1, <2>2, <2>3
<1>2. CASE arch # ""
  <2>1. Selected(arch) = <<arch>>
    BY <1>2 DEF Selected
  <2>2. {<<arch>>[i] : i \in DOMAIN <<arch>>} = {arch} /\ DOMAIN <<arch>> \subseteq Nat
    BY SingleIs
  <2> QED BY <1>2, <2>1, <2>2, Zenon
<1> QED BY <1>1, <1>2

\* There is a first of the slices that fail.
LEMMA HasFirst ==
  ASSUME NEW S \in SUBSET Nat, S # {}
  PROVE  \E i \in S : \A j \in S : i <= j
<1>1. PICK i \in S : \A j \in S : ~(j < i)
  <2>1. IsWellFoundedOn(OpToRel(<, Nat), Nat)
    BY NatLessThanWellFounded
  <2>2. PICK i \in S : \A j \in S : ~(<<j, i>> \in OpToRel(<, Nat))
    BY <2>1, WFMin
  <2> QED BY <2>2 DEF OpToRel
<1> QED BY <1>1

LEMMA InputJudged == BundleInv => CodeJudged
<1> SUFFICES ASSUME BundleInv, NEW c \in Codes, NEW arch \in {""} \cup Arch,
                    NEW directoryOnly \in BOOLEAN, NEW ignore \in BOOLEAN
             PROVE  verifyInput(c, arch, directoryOnly, ignore) = ""
                    <=> CodeKept(c, IF arch = "" THEN Arch ELSE {arch}, directoryOnly, ignore)
  BY DEF CodeJudged
<1> DEFINE sel == Selected(arch)
           all == [i \in DOMAIN sel |-> SliceFailure(c, sel[i], directoryOnly, ignore)]
           bad == {i \in DOMAIN all : all[i] # ""}
           archs == IF arch = "" THEN Arch ELSE {arch}
<1>1. DOMAIN sel \subseteq Nat /\ {sel[i] : i \in DOMAIN sel} = archs /\ archs # {} /\ archs \subseteq Arch
  BY SelectedIs, ArchIs
<1>2. DOMAIN all = DOMAIN sel /\ \A i \in DOMAIN sel : all[i] = SliceFailure(c, sel[i], directoryOnly, ignore)
  OBVIOUS
<1>3. verifyInput(c, arch, directoryOnly, ignore)
      = IF bad = {} THEN "" ELSE all[CHOOSE i \in bad : \A j \in bad : i <= j]
  BY DEF verifyInput
<1> HIDE DEF sel, all, archs
<1>4. bad # {} => all[CHOOSE i \in bad : \A j \in bad : i <= j] # ""
  <2> SUFFICES ASSUME bad # {} PROVE all[CHOOSE i \in bad : \A j \in bad : i <= j] # ""
    OBVIOUS
  <2>1. \E i \in bad : \A j \in bad : i <= j
    BY <1>1, <1>2, HasFirst
  <2>2. (CHOOSE i \in bad : \A j \in bad : i <= j) \in bad
    BY <2>1
  <2> QED BY <2>2
<1>5. verifyInput(c, arch, directoryOnly, ignore) = "" <=> \A i \in DOMAIN sel : all[i] = ""
  BY <1>2, <1>3, <1>4
<1>6. (\A i \in DOMAIN sel : all[i] = "") <=> \A a \in archs : SliceFailure(c, a, directoryOnly, ignore) = ""
  BY <1>1, <1>2
<1>7. (\A i \in DOMAIN sel : all[i] = "") <=> \A a \in archs : SliceKept(c, a, directoryOnly, ignore)
  BY <1>1, <1>6, SliceJudged
<1>8. (\A a \in archs : SliceKept(c, a, directoryOnly, ignore)) <=> CodeKept(c, archs, directoryOnly, ignore)
  BY <1>1 DEF SliceKept, CodeKept
<1>9. (verifyInput(c, arch, directoryOnly, ignore) = "") <=> CodeKept(c, archs, directoryOnly, ignore)
  BY <1>5, <1>7, <1>8
<1> QED BY <1>9 DEF archs

---------------------------------------------------------------------------
\* Code satisfies what other code required of itself when it is what the other was.
KindIs(h, g) == IF g.signer = "certificate" THEN h.signer = "certificate" ELSE SameCode(h, g)

LEMMA SameDirectories ==
  ASSUME NEW h, NEW g, WasSigned(h), WasSigned(g)
  PROVE  (\A a \in Arch : DirectoriesOf(h)[a] \in {DirectoriesOf(g)[b] : b \in Arch}) <=> SameCode(h, g)
<1>1. ASSUME NEW a \in Arch, DirectoriesOf(h)[a] \in {DirectoriesOf(g)[b] : b \in Arch}
      PROVE  h.signer = g.signer /\ h.pages[a] = g.pages[a] /\ h.info = g.info /\ h.env = g.env
  <2>1. PICK b \in Arch : DirectoriesOf(h)[a] = DirectoriesOf(g)[b]
    BY <1>1
  <2>2. a = b
    BY <2>1, DirectoryIs
  <2>3. DirectoriesOf(h)[a] = DirectoriesOf(g)[a]
    BY <2>1, <2>2
  <2> HIDE <2>1, <2>2
  <2> QED BY <2>3, DirectoryIs
<1>2. ASSUME \A a \in Arch : DirectoriesOf(h)[a] \in {DirectoriesOf(g)[b] : b \in Arch}
      PROVE  SameCode(h, g)
  <2>1. \A a \in Arch : h.signer = g.signer /\ h.pages[a] = g.pages[a] /\ h.info = g.info /\ h.env = g.env
    BY <1>1, <1>2
  <2>2. h.signer = g.signer /\ h.info = g.info /\ h.env = g.env
    BY <2>1, ArchIs
  <2>3. h.pages = g.pages
    BY <2>1 DEF WasSigned
  <2> QED BY <2>2, <2>3 DEF SameCode
<1>3. ASSUME SameCode(h, g)
      PROVE  \A a \in Arch : DirectoriesOf(h)[a] \in {DirectoriesOf(g)[b] : b \in Arch}
  <2>1. DirectoriesOf(h) = DirectoriesOf(g)
    BY <1>3 DEF SameCode, DirectoriesOf, Directory
  <2> QED BY <2>1
<1> QED BY <1>2, <1>3

LEMMA SatisfiesIs ==
  ASSUME BundleInv, NEW k \in Codes, disk[k].dirs # <<>>, NEW g, WasSigned(g)
  PROVE  Satisfies(k, RequirementOf(g)) <=> KindIs(sealed[k], g)
<1>1. WasSigned(sealed[k]) /\ disk[k].dirs[1] = DirectoriesOf(sealed[k])
  <2>1. Recorded(k, disk[k], sealed[k])
    BY DEF BundleInv
  <2> QED BY <2>1, SignedIs DEF History
<1>2. CASE g.signer = "certificate"
  <2>1. RequirementOf(g).signer = "certificate"
    BY <1>2 DEF RequirementOf
  <2>2. \A a \in Arch : disk[k].dirs[1][a].signer = sealed[k].signer
    BY <1>1, DirectoryIs
  <2>3. Satisfies(k, RequirementOf(g)) <=> \A a \in Arch : disk[k].dirs[1][a].signer = "certificate"
    BY <2>1 DEF Satisfies
  <2> QED BY <1>2, <2>2, <2>3, ArchIs DEF KindIs
<1>3. CASE g.signer # "certificate"
  <2>1. /\ RequirementOf(g).signer = ""
        /\ RequirementOf(g).hashes = {DirectoriesOf(g)[a] : a \in Arch}
    BY <1>3 DEF RequirementOf
  <2>2. Satisfies(k, RequirementOf(g))
        <=> \A a \in Arch : DirectoriesOf(sealed[k])[a] \in {DirectoriesOf(g)[b] : b \in Arch}
    BY <1>1, <2>1 DEF Satisfies
  <2> QED BY <1>1, <1>3, <2>2, SameDirectories DEF KindIs
<1> QED BY <1>2, <1>3

---------------------------------------------------------------------------
\* What the results of a verification are.
AddedOne(n) == [Nothing EXCEPT !.added = {n}]
MissingOne(n) == [Nothing EXCEPT !.missing = {n}]
ModifiedOne(n) == [Nothing EXCEPT !.modified = {n}]

LEMMA NothingIs == Nothing.failure = "" /\ Nothing.added = {} /\ Nothing.missing = {} /\ Nothing.modified = {}
BY DEF Nothing

LEMMA AddedIs ==
  ASSUME NEW n
  PROVE  AddedOne(n).added = {n} /\ AddedOne(n).missing = {} /\ AddedOne(n).modified = {} /\ AddedOne(n) # Nothing
<1>1. AddedOne(n).added = {n} /\ AddedOne(n).missing = {} /\ AddedOne(n).modified = {}
  BY DEF AddedOne, Nothing
<1> QED BY <1>1, NothingIs

LEMMA MissingIs ==
  ASSUME NEW n
  PROVE  MissingOne(n).added = {} /\ MissingOne(n).missing = {n} /\ MissingOne(n).modified = {} /\ MissingOne(n) # Nothing
<1>1. MissingOne(n).added = {} /\ MissingOne(n).missing = {n} /\ MissingOne(n).modified = {}
  BY DEF MissingOne, Nothing
<1> QED BY <1>1, NothingIs

LEMMA ModifiedIs ==
  ASSUME NEW n
  PROVE  ModifiedOne(n).added = {} /\ ModifiedOne(n).missing = {} /\ ModifiedOne(n).modified = {n} /\ ModifiedOne(n) # Nothing
<1>1. ModifiedOne(n).added = {} /\ ModifiedOne(n).missing = {} /\ ModifiedOne(n).modified = {n}
  BY DEF ModifiedOne, Nothing
<1> QED BY <1>1, NothingIs

\* A result lists a resource as what it is in three sets, and nothing when it is in none.
Lists(r, n, added, missing, replaced) ==
  /\ r.failure = "" => r.added = added \cap {n} /\ r.missing = missing \cap {n} /\ r.modified = replaced \cap {n}
  /\ r = Nothing <=> n \notin added \cup missing \cup replaced

LEMMA ListsNothing ==
  ASSUME NEW n, NEW added, NEW missing, NEW replaced, n \notin added, n \notin missing, n \notin replaced
  PROVE  Lists(Nothing, n, added, missing, replaced)
BY NothingIs DEF Lists

LEMMA ListsAdded ==
  ASSUME NEW n, NEW added, NEW missing, NEW replaced, n \in added, n \notin missing, n \notin replaced
  PROVE  Lists(AddedOne(n), n, added, missing, replaced)
<1>1. AddedOne(n) # Nothing /\ n \in added \cup missing \cup replaced
  BY AddedIs
<1>2. added \cap {n} = {n} /\ missing \cap {n} = {} /\ replaced \cap {n} = {}
  OBVIOUS
<1> QED BY <1>1, <1>2, AddedIs DEF Lists

LEMMA ListsMissing ==
  ASSUME NEW n, NEW added, NEW missing, NEW replaced, n \notin added, n \in missing, n \notin replaced
  PROVE  Lists(MissingOne(n), n, added, missing, replaced)
<1>1. MissingOne(n) # Nothing /\ n \in added \cup missing \cup replaced
  BY MissingIs
<1>2. added \cap {n} = {} /\ missing \cap {n} = {n} /\ replaced \cap {n} = {}
  OBVIOUS
<1> QED BY <1>1, <1>2, MissingIs DEF Lists

LEMMA ListsModified ==
  ASSUME NEW n, NEW added, NEW missing, NEW replaced, n \notin added, n \notin missing, n \in replaced
  PROVE  Lists(ModifiedOne(n), n, added, missing, replaced)
<1>1. ModifiedOne(n) # Nothing /\ n \in added \cup missing \cup replaced
  BY ModifiedIs
<1>2. added \cap {n} = {} /\ missing \cap {n} = {} /\ replaced \cap {n} = {n}
  OBVIOUS
<1> QED BY <1>1, <1>2, ModifiedIs DEF Lists

LEMMA Failed ==
  ASSUME NEW why, NEW at, why # ""
  PROVE  Fails(why, at).failure # "" /\ Fails(why, at) # Nothing
<1>1. Nothing.failure = ""
  BY DEF Nothing
<1>2. Fails(why, at).failure = why
  BY DEF Fails, Nothing
<1> QED BY <1>1, <1>2

LEMMA EnvelopeFields ==
  ASSUME NEW h
  PROVE  /\ DOMAIN EnvelopeOf(h).files = {m \in Sealable : h.files[m] # "absent"}
         /\ \A m \in Sealable : h.files[m] # "absent" => EnvelopeOf(h).files[m] = h.files[m]
         /\ DOMAIN EnvelopeOf(h).kids = DOMAIN h.kids
         /\ \A k \in DOMAIN h.kids : EnvelopeOf(h).kids[k] = RequirementOf(h.kids[k])
<1>1. /\ EnvelopeOf(h).files = [n \in {m \in Sealable : h.files[m] # "absent"} |-> h.files[n]]
      /\ EnvelopeOf(h).kids = [k \in DOMAIN h.kids |-> RequirementOf(h.kids[k])]
  BY DEF EnvelopeOf
<1> QED BY <1>1

LEMMA SealedIs ==
  ASSUME BundleInv, NEW c \in Bundles, disk[c].dirs # <<>>, disk[c].env = sealed[c].env
  PROVE  /\ disk[c].env[1] = EnvelopeOf(sealed[c])
         /\ disk[c].files \in [Names -> States] /\ sealed[c].files \in [Sealable -> States]
         /\ DOMAIN sealed[c].kids \subseteq Children[c] /\ \A k \in DOMAIN sealed[c].kids : WasSigned(sealed[c].kids[k])
         /\ c \in Codes /\ Children[c] \subseteq Codes /\ Names \cap Children[c] = {}
<1>1. c \in Codes /\ Children[c] \subseteq Codes /\ Names \cap Codes = {}
  BY BundleAssumption
<1>2. Recorded(c, disk[c], sealed[c])
  BY <1>1 DEF BundleInv
<1>3. History(c, sealed[c])
  BY <1>2, SignedIs
<1>4. disk[c].env = <<EnvelopeOf(sealed[c])>>
  BY <1>3 DEF History
<1>5. disk[c].env[1] = EnvelopeOf(sealed[c])
  BY <1>4
<1>6. IsCode(disk[c])
  BY <1>2 DEF Recorded
<1> QED BY <1>1, <1>3, <1>5, <1>6 DEF IsCode, History

LEMMA FileJudged ==
  ASSUME BundleInv, NEW c \in Bundles, disk[c].dirs # <<>>, disk[c].env = sealed[c].env,
         NEW n \in Names, NEW deep, NEW own
  PROVE  Judged(c, n, deep, own, AddedTo(c), MissingFrom(c), Replaced(c))
<1> DEFINE h == sealed[c]
           env == disk[c].env[1]
           r == verifyResource(c, n, env, deep, own)
           there == n \in Sealable /\ disk[c].files[n] # "absent"
           was == n \in Sealable /\ h.files[n] # "absent"
<1>1. n \notin Children[c] /\ n \notin Present(disk, c) /\ n \notin DOMAIN h.kids
  BY SealedIs, PresentIs
<1>2. DOMAIN env.files = {m \in Sealable : h.files[m] # "absent"} /\ (was => env.files[n] = h.files[n])
  <2>1. env = EnvelopeOf(h)
    BY SealedIs
  <2> QED BY <2>1, EnvelopeFields
<1>3. n \in DOMAIN env.files <=> was
  BY <1>2
<1>4. /\ ~there /\ ~was => r = Nothing
      /\ there /\ ~was => r = AddedOne(n)
      /\ ~there /\ was /\ n \in Optional => r = Nothing
      /\ ~there /\ was /\ n \notin Optional => r = MissingOne(n)
      /\ there /\ was /\ disk[c].files[n] = h.files[n] => r = Nothing
      /\ there /\ was /\ disk[c].files[n] # h.files[n] => r = ModifiedOne(n)
  <2>1. ASSUME ~there, ~was PROVE r = Nothing
    BY <1>2, <1>3, <2>1 DEF verifyResource
  <2>2. ASSUME there, ~was PROVE r = AddedOne(n)
    BY <1>2, <1>3, <2>2 DEF verifyResource, AddedOne
  <2>3. ASSUME ~there, was, n \in Optional PROVE r = Nothing
    BY <1>2, <1>3, <2>3 DEF verifyResource
  <2>4. ASSUME ~there, was, n \notin Optional PROVE r = MissingOne(n)
    BY <1>2, <1>3, <2>4 DEF verifyResource, MissingOne
  <2>5. ASSUME there, was, disk[c].files[n] = h.files[n] PROVE r = Nothing
    BY <1>2, <1>3, <2>5 DEF verifyResource
  <2>6. ASSUME there, was, disk[c].files[n] # h.files[n] PROVE r = ModifiedOne(n)
    BY <1>2, <1>3, <2>6 DEF verifyResource, ModifiedOne
  <2> HIDE DEF r, there, was, h
  <2> QED BY <2>1, <2>2, <2>3, <2>4, <2>5, <2>6
<1>5. /\ n \in AddedTo(c) <=> there /\ ~was
      /\ n \in MissingFrom(c) <=> n \in Required /\ ~there /\ was
      /\ n \in Replaced(c) <=> there /\ was /\ disk[c].files[n] # h.files[n]
  BY <1>1 DEF AddedTo, MissingFrom, Replaced, Sealable
<1>6. n \in Sealable => (n \in Required <=> n \notin Optional)
  BY BundleAssumption DEF Sealable
<1> HIDE DEF r, there, was, h, env
<1>7. was => n \in Sealable
  BY DEF was
<1>8. Lists(r, n, AddedTo(c), MissingFrom(c), Replaced(c))
  <2>1. CASE ~there /\ ~was
    BY <1>4, <1>5, <2>1, ListsNothing
  <2>2. CASE there /\ ~was
    BY <1>4, <1>5, <2>2, ListsAdded
  <2>3. CASE ~there /\ was /\ n \in Optional
    BY <1>4, <1>5, <1>6, <1>7, <2>3, ListsNothing
  <2>4. CASE ~there /\ was /\ n \notin Optional
    BY <1>4, <1>5, <1>6, <1>7, <2>4, ListsMissing
  <2>5. CASE there /\ was /\ disk[c].files[n] = h.files[n]
    BY <1>4, <1>5, <2>5, ListsNothing
  <2>6. CASE there /\ was /\ disk[c].files[n] # h.files[n]
    BY <1>4, <1>5, <2>6, ListsModified
  <2> QED BY <2>1, <2>2, <2>3, <2>4, <2>5, <2>6
<1> QED BY <1>1, <1>8 DEF Judged, Lists, r, env

LEMMA NestedJudged ==
  ASSUME BundleInv, NEW c \in Bundles, disk[c].dirs # <<>>, disk[c].env = sealed[c].env,
         NEW n \in Children[c], NEW deep \in BOOLEAN, NEW own \in {Nothing, Fails("page", "")}
  PROVE  Judged(c, n, deep, own, AddedTo(c), MissingFrom(c), Replaced(c))
<1> DEFINE h == sealed[c]
           env == disk[c].env[1]
           r == verifyResource(c, n, env, deep, own)
           there == n \in Present(disk, c)
           was == n \in DOMAIN h.kids
           kept == CodeKept(n, Arch, ~deep, FALSE)
           alike == KindIs(sealed[n], h.kids[n])
           code == verifyInput(n, "", ~deep, FALSE)
<1>1. n \notin Names /\ n \in Codes /\ n \notin Sealable /\ n \notin Required /\ n \notin Optional
  BY SealedIs DEF Names, Sealable
<1>2. DOMAIN env.kids = DOMAIN h.kids /\ (was => env.kids[n] = RequirementOf(h.kids[n]) /\ WasSigned(h.kids[n]))
  <2>1. env = EnvelopeOf(h)
    BY SealedIs
  <2>2. DOMAIN env.kids = DOMAIN h.kids /\ \A k \in DOMAIN h.kids : env.kids[k] = RequirementOf(h.kids[k])
    BY <2>1, EnvelopeFields
  <2>3. \A k \in DOMAIN h.kids : WasSigned(h.kids[k])
    BY SealedIs
  <2> HIDE DEF env, h
  <2> QED BY <2>2, <2>3 DEF was
<1>3. code = "" <=> kept
  <2>1. "" \in {""} \cup Arch /\ (~deep) \in BOOLEAN /\ FALSE \in BOOLEAN
    OBVIOUS
  <2> QED BY <1>1, <2>1, InputJudged DEF CodeJudged
<1>4. kept => disk[n].dirs # <<>>
  BY DEF CodeKept
<1>5. was /\ kept => (Satisfies(n, env.kids[n]) <=> alike)
  BY <1>1, <1>2, <1>4, SatisfiesIs
<1>6. /\ n \in AddedTo(c) <=> there /\ ~was
      /\ n \in MissingFrom(c) <=> ~there /\ was
      /\ n \in Replaced(c) <=> there /\ was /\ ~alike
  BY <1>1 DEF AddedTo, MissingFrom, Replaced, KindIs
<1>7. /\ ~there /\ ~was => r = Nothing
      /\ there /\ ~was => r = AddedOne(n)
      /\ ~there /\ was => r = MissingOne(n)
      /\ there /\ was => r = verifyNested(n, env.kids[n], deep, own)
  <2>1. ASSUME ~there, ~was PROVE r = Nothing
    BY <1>1, <1>2, <2>1 DEF verifyResource
  <2>2. ASSUME there, ~was PROVE r = AddedOne(n)
    BY <1>1, <1>2, <2>2 DEF verifyResource, AddedOne
  <2>3. ASSUME ~there, was PROVE r = MissingOne(n)
    BY <1>1, <1>2, <2>3 DEF verifyResource, MissingOne
  <2>4. ASSUME there, was PROVE r = verifyNested(n, env.kids[n], deep, own)
    BY <1>1, <1>2, <2>4 DEF verifyResource
  <2> HIDE DEF r, there, was, h, env
  <2> QED BY <2>1, <2>2, <2>3, <2>4
<1>8. /\ code # "" => verifyNested(n, env.kids[n], deep, own) = Fails(code, n)
      /\ code = "" /\ ~Satisfies(n, env.kids[n]) => verifyNested(n, env.kids[n], deep, own) = ModifiedOne(n)
      /\ code = "" /\ Satisfies(n, env.kids[n]) /\ own = Nothing => verifyNested(n, env.kids[n], deep, own) = Nothing
      /\ code = "" /\ Satisfies(n, env.kids[n]) /\ own # Nothing
         => \E at : verifyNested(n, env.kids[n], deep, own) = Fails("nested", at)
  BY DEF verifyNested, ModifiedOne
<1> HIDE DEF r, there, was, h, env, kept, alike, code
<1> DEFINE Result ==
      /\ r.failure = "" => r.added = AddedTo(c) \cap {n} /\ r.missing = MissingFrom(c) \cap {n} /\ r.modified = Replaced(c) \cap {n}
      /\ r = Nothing <=> /\ n \notin AddedTo(c) \cup MissingFrom(c) \cup Replaced(c)
                         /\ there => kept /\ own = Nothing
<1> DEFINE Listed == Lists(r, n, AddedTo(c), MissingFrom(c), Replaced(c))
<1>9. Listed /\ (~there \/ r # Nothing \/ (kept /\ own = Nothing)) => Result
  BY DEF Lists
<1>10. r.failure # "" /\ r # Nothing /\ there /\ (~kept \/ own # Nothing) => Result
  OBVIOUS
<1> HIDE DEF Result, Listed
<1>11. ASSUME ~there, ~was PROVE Result
  <2>1. Listed
    BY <1>6, <1>7, <1>11, ListsNothing DEF Listed
  <2> QED BY <1>9, <1>11, <2>1
<1>12. ASSUME there, ~was PROVE Result
  <2>1. Listed
    BY <1>6, <1>7, <1>12, ListsAdded DEF Listed
  <2>2. r # Nothing
    BY <1>7, <1>12, AddedIs
  <2> QED BY <1>9, <2>1, <2>2
<1>13. ASSUME ~there, was PROVE Result
  <2>1. Listed
    BY <1>6, <1>7, <1>13, ListsMissing DEF Listed
  <2> QED BY <1>9, <1>13, <2>1
<1>14. ASSUME there, was, ~kept PROVE Result
  <2>1. r = Fails(code, n) /\ code # ""
    BY <1>3, <1>7, <1>8, <1>14
  <2>2. r.failure # "" /\ r # Nothing
    BY <2>1, Failed
  <2> QED BY <1>10, <1>14, <2>2
<1>15. ASSUME there, was, kept, ~alike PROVE Result
  <2>1. r = ModifiedOne(n)
    BY <1>3, <1>5, <1>7, <1>8, <1>15
  <2>2. Listed
    BY <1>6, <1>15, <2>1, ListsModified DEF Listed
  <2>3. r # Nothing
    BY <2>1, ModifiedIs
  <2> QED BY <1>9, <2>2, <2>3
<1>16. ASSUME there, was, kept, alike, own = Nothing PROVE Result
  <2>1. r = Nothing
    BY <1>3, <1>5, <1>7, <1>8, <1>16
  <2>2. Listed
    BY <1>6, <1>16, <2>1, ListsNothing DEF Listed
  <2> QED BY <1>9, <1>16, <2>2
<1>17. ASSUME there, was, kept, alike, own # Nothing PROVE Result
  <2>1. \E at : r = Fails("nested", at)
    BY <1>3, <1>5, <1>7, <1>8, <1>17
  <2>2. r.failure # "" /\ r # Nothing
    BY <2>1, Failed
  <2> QED BY <1>10, <1>17, <2>2
<1>18. Result
  BY <1>11, <1>12, <1>13, <1>14, <1>15, <1>16, <1>17
<1> QED BY <1>18 DEF Judged, Result, r, env, there, kept

LEMMA BundleInvJudges == BundleInv => JudgementHolds
<1> SUFFICES ASSUME BundleInv PROVE JudgementHolds
  OBVIOUS
<1>1. CodeJudged
  BY InputJudged
<1>2. ResourcesJudged
  <2>1. ASSUME NEW c \in Bundles, disk[c].dirs # <<>>, disk[c].env = sealed[c].env,
               NEW n \in Names \cup Children[c], NEW deep \in BOOLEAN, NEW own \in {Nothing, Fails("page", "")}
        PROVE  Judged(c, n, deep, own, AddedTo(c), MissingFrom(c), Replaced(c))
    BY <2>1, FileJudged, NestedJudged
  <2> QED BY <2>1 DEF ResourcesJudged
<1> QED BY <1>1, <1>2, BundleInvTypes DEF JudgementHolds

\* BundleInv holds always: the directories of code are those of its last signature, or it
\* has none, and the history is of that signature.
THEOREM BundleInvariant == BundleSpec => []BundleInv
BY BundleStart, BundleStep, PTL DEF BundleSpec

\* JudgementHolds, for any tree of code, any files and architectures, and any number of
\* signatures, edits and moves.
THEOREM JudgementHoldsAlways == BundleSpec => []JudgementHolds
BY BundleInvariant, BundleInvJudges, PTL
=============================================================================
