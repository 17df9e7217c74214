------------------------ MODULE TimestampAcquisition ------------------------
(***************************************************************************)
(* timestampCMSBound with AcquireTimestamp as its provider: clients that    *)
(* stamp CMS signatures through one network that loses, repeats, delays,    *)
(* damages and crosses what it carries, from authorities whose clock is not *)
(* the clients'.  An operation that failed may be tried again while answers *)
(* to the first attempt are still under way.  What it returns is verified   *)
(* later by verifyInput.                                                    *)
(*                                                                          *)
(* The two see different certificates.  The chain of the signer has numbers *)
(* from its leaf, 1, to its root, ChainLength.  timestampCMSBound judges    *)
(* the certificates that the CMS carries, which may end before the root;    *)
(* verifyInput judges the path to the certificate that the verifier trusts. *)
(***************************************************************************)
EXTENDS Integers, FiniteSets

CONSTANTS
  Clients,      \* operations
  Signatures,   \* CMS signature octets
  MaxAttempts,  \* of one client
  MaxTime,      \* of the clock
  MaxIssued,    \* tokens
  ChainLength,  \* of the signer's certificates
  NoToken

ASSUME TimestampAssumption ==
  MaxAttempts \in Nat \ {0} /\ MaxTime \in Nat /\ MaxIssued \in Nat /\ ChainLength \in Nat \ {0}

VARIABLES
  now,       \* the clients' clock
  skew,      \* what the authorities' clock is ahead
  common,    \* what the clients' options share: the signer's certificates, of which
             \* the CMS carries some, whether Apple is their root, and TSA roots
  setup,     \* [client -> its CMS: signature, and whether it has a timestamp]
  pc,        \* [client -> "idle", "wait", "acquired", "last", "done", "failed"]
  attempts,  \* [client -> attempts so far]
  token,     \* [client -> the provider's token]
  start,     \* history: [client -> when it asked; -1 for a token it had before]
  requests,  \* requests the network may carry
  issued     \* tokens that were signed, which the network may carry

world == <<now, skew, common, setup>>
vars == <<world, pc, attempts, token, start, requests, issued>>

Nonce(c) == <<c, attempts[c]>>
NoNonce == <<>>

\* An authority's certificates lead to one root, and have a time of their own.
Authorities == {"apple", "other"}
TSAValid(who) == IF who = "apple" THEN -1..MaxTime + 1 ELSE 1..MaxTime + 1

---------------------------------------------------------------------------
(* Verification of a token *)

\* Mutant of Parses: the token's signature is not checked.
ParsesImprint(t, sig) == t.imprint = sig

\* parseTimestampToken: the content digest, the binding to the certificate and
\* the signature hold for what was signed; the imprint is of this signature.
Parses(t, sig) == t.intact /\ t.imprint = sig

\* verifyTimestampTrust: the path is checked at the time that the token claims.
Trusted(t, roots, at) == t.time <= at /\ t.tsa \in roots /\ t.time \in TSAValid(t.tsa)

VerifyTimestampToken(t, sig, roots, at) == Parses(t, sig) /\ Trusted(t, roots, at)

\* linkedCertificates, of what the CMS carries.
CMSPath == 1..common.carried

appleAnchor(path) == common.apple /\ ChainLength \in path

checkTimestampApplePolicy(path, t) == appleAnchor(path) => t.tsa = "apple"

certificatePolicy(path, at) == \A i \in path : at \in common.valid[i]

\* Mutant of CodePolicy: the signing certificates are checked at this moment.
PolicyNow(t) == certificatePolicy(CMSPath, now)

\* The signing certificates in the CMS, at the token's time.
CodePolicy(t) == certificatePolicy(CMSPath, t.time)

\* Whom a verifier trusts: 1 pins the leaf, another number has that certificate
\* among the roots.  A pinned leaf needs no path, and keeps that of the CMS.
Trusts == 1..ChainLength
VerifiedPath(v) == IF v = 1 THEN CMSPath ELSE 1..v

\* VerifyCertificateChain: the certificates below the root are in the CMS.
VerifyCertificateChain(v, at) == v - 1 <= common.carried /\ certificatePolicy(1..v, at)

\* What verifyInput requires, at some later time, of a signature with a stamp.
Verifies(v, sig, t, at) ==
  /\ VerifyTimestampToken(t, sig, common.roots, at)
  /\ t.time \in common.valid[1]
  /\ v # 1 => VerifyCertificateChain(v, t.time)
  /\ checkTimestampApplePolicy(VerifiedPath(v), t)

---------------------------------------------------------------------------
(* The client *)

Fail(c) == pc' = [pc EXCEPT ![c] = "failed"]

MayAsk(c) == ~setup[c].stamped /\ common.roots # {}

\* The checks before the provider is called: an existing timestamp stays, and
\* roots are given.  AcquireTimestamp then makes a nonce and asks.
Ask(c) ==
  /\ pc[c] = "idle"
  /\ IF MayAsk(c)
     THEN /\ pc' = [pc EXCEPT ![c] = "wait"]
          /\ attempts' = [attempts EXCEPT ![c] = @ + 1]
          /\ start' = [start EXCEPT ![c] = now]
          /\ requests' = requests \cup {[imprint |-> setup[c].sig, nonce |-> <<c, attempts[c] + 1>>]}
     ELSE Fail(c) /\ UNCHANGED <<requests, attempts, start>>
  /\ UNCHANGED <<world, token, issued>>

\* Mutant of Accepts: a token of this signature will do.
AcceptsAny(c, t) == VerifyTimestampToken(t, setup[c].sig, common.roots, now) /\ t.alg = "sha256"

\* What AcquireTimestamp requires of the token in a granted response.
Accepts(c, t) ==
  /\ VerifyTimestampToken(t, setup[c].sig, common.roots, now)
  /\ t.nonce = Nonce(c)
  /\ t.alg = "sha256"

Damaged(t) == {t, [t EXCEPT !.intact = FALSE]}

\* The exchange returns a token, the one asked for or another.
Receive(c, t) ==
  /\ pc[c] = "wait"
  /\ IF Accepts(c, t)
     THEN pc' = [pc EXCEPT ![c] = "acquired"] /\ token' = [token EXCEPT ![c] = t]
     ELSE Fail(c) /\ UNCHANGED token
  /\ UNCHANGED <<world, attempts, start, requests, issued>>

\* No answer, a refusal or something else than a token; or the context ends.
Stop(c) ==
  /\ pc[c] \in {"wait", "acquired", "last"}
  /\ Fail(c)
  /\ token' = [token EXCEPT ![c] = NoToken]
  /\ UNCHANGED <<world, attempts, start, requests, issued>>

\* A Provider "may instead return a previously acquired token".
Reuse(c, t) ==
  /\ pc[c] = "idle" /\ MayAsk(c)
  /\ pc' = [pc EXCEPT ![c] = "acquired"]
  /\ token' = [token EXCEPT ![c] = t]
  /\ start' = [start EXCEPT ![c] = -1]
  /\ UNCHANGED <<world, attempts, requests, issued>>

\* timestampCMSBound after the provider: the token once more, and the policies.
Bind(c) ==
  /\ pc[c] = "acquired"
  /\ IF /\ VerifyTimestampToken(token[c], setup[c].sig, common.roots, now)
        /\ CodePolicy(token[c])
        /\ checkTimestampApplePolicy(CMSPath, token[c])
     THEN pc' = [pc EXCEPT ![c] = "last"] /\ UNCHANGED token
     ELSE Fail(c) /\ token' = [token EXCEPT ![c] = NoToken]
  /\ UNCHANGED <<world, attempts, start, requests, issued>>

\* The envelope is assembled, and the context looked at for the last time.
Finish(c) ==
  /\ pc[c] = "last"
  /\ pc' = [pc EXCEPT ![c] = "done"]
  /\ UNCHANGED <<world, attempts, token, start, requests, issued>>

\* The caller tries a failed operation again.
Again(c) ==
  /\ pc[c] = "failed" /\ attempts[c] < MaxAttempts
  /\ pc' = [pc EXCEPT ![c] = "idle"]
  /\ UNCHANGED <<world, attempts, token, start, requests, issued>>

---------------------------------------------------------------------------
(* The world *)

\* An authority signs a token for a request; one may leave out the nonce, or
\* use another digest.  A request may be answered again.
Issue(q, who) ==
  LET full == [imprint |-> q.imprint, nonce |-> q.nonce, time |-> now + skew, tsa |-> who,
               alg |-> "sha256", intact |-> TRUE] IN
  /\ Cardinality(issued) < MaxIssued
  /\ \E t \in {full, [full EXCEPT !.nonce = NoNonce], [full EXCEPT !.alg = "sha1"]} :
       issued' = issued \cup {t}
  /\ UNCHANGED <<world, pc, attempts, token, start, requests>>

Tick ==
  /\ now < MaxTime /\ now' = now + 1
  /\ UNCHANGED <<skew, common, setup, pc, attempts, token, start, requests, issued>>

Init ==
  /\ now = 0 /\ skew \in {-1, 0, 1}
  /\ common \in [apple : BOOLEAN, roots : {{}, {"apple"}, {"apple", "other"}},
                 carried : 1..ChainLength, valid : [1..ChainLength -> {0..1, 1..MaxTime + 1}]]
  /\ setup \in [Clients -> [sig : Signatures, stamped : BOOLEAN]]
  /\ pc = [c \in Clients |-> "idle"] /\ attempts = [c \in Clients |-> 0]
  /\ token = [c \in Clients |-> NoToken] /\ start = [c \in Clients |-> -1]
  /\ requests = {} /\ issued = {}

Client(c) ==
  \/ Ask(c) \/ Stop(c) \/ Bind(c) \/ Finish(c) \/ Again(c)
  \/ \E t \in issued : \/ \E d \in Damaged(t) : Receive(c, d)
                       \/ Reuse(c, t)

Next ==
  \/ Tick
  \/ \E q \in requests, who \in Authorities : Issue(q, who)
  \/ \E c \in Clients : Client(c)

Spec == Init /\ [][Next]_vars

---------------------------------------------------------------------------
(* Properties *)

\* A stamp that was acquired says when the signature existed: the authority
\* looked at its clock after this attempt had asked, and before it finished.  A
\* late answer to an attempt given up, or to another client's request for an
\* equal signature, is no proof of that.
Timely ==
  \A c \in Clients :
    pc[c] = "done" /\ start[c] # -1 => token[c].time - skew \in start[c]..now

\* What a verifier asks whose root is no part of the CMS: it is the next certificate,
\* was valid, and when it is Apple's then so is the authority's.  Nobody has looked
\* at this certificate when the stamp was bound.
AsksOfTheRoot(v, t) ==
  /\ v = common.carried + 1 /\ t.time \in common.valid[v]
  /\ checkTimestampApplePolicy(1..v, t)

\* What was stamped can be verified from then on, with the same TSA roots, at any
\* later time, also when the certificates have expired, by whoever trusts one of the
\* certificates that the CMS carries.  Who trusts another one can do so only as far
\* as AsksOfTheRoot says.
Lasting ==
  \A c \in Clients : pc[c] = "done" =>
    \A v \in Trusts, at \in now..MaxTime + 2 :
      Verifies(v, setup[c].sig, token[c], at) <=> v <= common.carried \/ AsksOfTheRoot(v, token[c])

\* The type of every variable.
TypeOK ==
  /\ now \in 0..MaxTime /\ attempts \in [Clients -> 0..MaxAttempts]
  /\ pc \in [Clients -> {"idle", "wait", "acquired", "last", "done", "failed"}]
  /\ start \in [Clients -> -1..MaxTime]
  /\ \A q \in requests : q.imprint \in Signatures
  /\ \A t \in issued : t.intact /\ t.time \in -1..MaxTime + 1 /\ t.tsa \in Authorities
  /\ \A c \in Clients : token[c] = NoToken \/ token[c] \in issued

\* What timestampCMSBound attaches says when the signature existed, and verifyInput
\* accepts it from then on, on the certificates that timestampCMSBound has seen.
StampsLast == TypeOK /\ Timely /\ Lasting
=============================================================================
