-------------------------- MODULE CertificatePaths --------------------------
(***************************************************************************)
(* verifyCertificateChainFor, the bounded search for a path from a leaf to a *)
(* root, and linkedCertificates, which then orders the certificates of that  *)
(* path again.  Names and keys may be shared, and CAs may sign each other    *)
(* and themselves.  A step is a call of search, a turn of its loop that      *)
(* calls it again, a return, or one certificate that is linked.              *)
(***************************************************************************)
EXTENDS Integers, Sequences, FiniteSets, SequencesExt

CONSTANTS
  Leaves,      \* what can be verified
  Pool,        \* what a collection can contain besides the leaf
  PoolSize,    \* certificates in a collection at most, 64
  VisitLimit,  \* calls of search, 256
  DepthLimit   \* certificates of a path, 32

ASSUME PathAssumption ==
  PoolSize \in Nat /\ VisitLimit \in Nat \ {0} /\ DepthLimit \in Nat \ {0}

VARIABLES
  leaf,    \* the leaf
  pool,    \* the other certificates in the order of the search: roots, intermediates
  roots,   \* how many of them are roots
  pinned,  \* the leaf is itself among the roots
  path,    \* the path of the calls of search that are under way, then the result
  below,   \* the count of CAs that each of these calls was given
  next,    \* where the loop of the last one continues
  visits,  \* calls of search so far
  limited, \* history: a limit has refused a call
  linked,  \* the path of linkedCertificates
  phase    \* "policy", "search", "loop", "failed", "link" or "done"

given == <<leaf, pool, roots, pinned>>
search == <<path, below, next, visits, limited>>
pathVars == <<given, search, linked, phase>>

(* Certificate 0 is the leaf, and i the i-th of the pool *)
Indices == 0..Len(pool)
Cert(i) == IF i = 0 THEN leaf ELSE pool[i]
IsAnchor(i) == IF i = 0 THEN pinned ELSE i <= roots

SelfIssued(i) == Cert(i).subject = Cert(i).issuer

\* certificateSignature: names match, and the key made the signature.
Signs(parent, child) ==
  /\ Cert(child).issuer = Cert(parent).subject
  /\ Cert(child).by = Cert(parent).key

\* certificatePolicyFor a CA: how many CAs may be below it, -1 for any number;
\* -2 is a failure of its dates, usages and other constraints, or no CA.
CAPolicy(i, count) == Cert(i).len = -1 \/ count <= Cert(i).len

---------------------------------------------------------------------------
(* verifyCertificateChainFor *)

PathInit ==
  /\ leaf \in Leaves
  /\ pool \in UNION {[1..n -> Pool] : n \in 0..PoolSize}
  /\ \A i, j \in DOMAIN pool : pool[i] = pool[j] => i = j
  /\ roots \in 0..Len(pool) /\ pinned \in BOOLEAN
  /\ path = <<>> /\ below = <<>> /\ next = 1 /\ visits = 0 /\ limited = FALSE
  /\ linked = <<>> /\ phase = "policy"

\* No roots, or a leaf that is not for the purpose.
Policy ==
  /\ phase = "policy"
  /\ IF (roots = 0 /\ ~pinned) \/ ~leaf.purpose
     THEN phase' = "failed" /\ UNCHANGED <<path, below>>
     ELSE phase' = "search" /\ path' = <<0>> /\ below' = <<0>>
  /\ UNCHANGED <<given, next, visits, limited, linked>>

\* search returns an error, and the loop of its caller goes on.
Back ==
  /\ path' = Front(path) /\ below' = Front(below) /\ next' = Last(path) + 1
  /\ phase' = IF Len(path) = 1 THEN "failed" ELSE "loop"
  /\ UNCHANGED linked

\* Mutant of TooFar: only the visits are limited.
TooFarInVisits == visits + 1 > VisitLimit
TooFar == visits + 1 > VisitLimit \/ Len(path) > DepthLimit

\* Mutant of RootAllowed: a root is accepted whatever it is.
AnyRoot == TRUE
RootAllowed == CAPolicy(Last(path), Last(below))

AtLimit ==
  /\ phase = "search" /\ TooFar
  /\ visits' = visits + 1 /\ limited' = TRUE
  /\ Back /\ UNCHANGED given

AtRoot ==
  /\ phase = "search" /\ ~TooFar /\ IsAnchor(Last(path))
  /\ visits' = visits + 1
  /\ \/ /\ RootAllowed /\ phase' = "link" /\ linked' = <<0>>
        /\ UNCHANGED <<path, below, next>>
     \/ ~RootAllowed /\ Back
  /\ UNCHANGED <<given, limited>>

Enter ==
  /\ phase = "search" /\ ~TooFar /\ ~IsAnchor(Last(path))
  /\ visits' = visits + 1 /\ phase' = "loop"
  /\ UNCHANGED <<given, path, below, next, limited, linked>>

\* Mutant of NextBelow: the certificates of the path are counted.
NextBelowAll == IF Len(path) > 1 THEN Last(below) + 1 ELSE Last(below)

\* "The parent's constraint counts non-self-issued CAs below it."
NextBelow ==
  IF Len(path) > 1 /\ ~SelfIssued(Last(path)) THEN Last(below) + 1 ELSE Last(below)

MayFollow(parent) ==
  /\ parent \notin ToSet(path)
  /\ Signs(parent, Last(path))
  /\ CAPolicy(parent, NextBelow)

Candidates == {i \in next..Len(pool) : MayFollow(i)}

\* The loop goes over the pool to the next parent that may follow.
Descend ==
  /\ phase = "loop"
  /\ \E i \in Candidates :
       /\ \A j \in Candidates : i <= j
       /\ path' = Append(path, i) /\ below' = Append(below, NextBelow)
  /\ next' = 1 /\ phase' = "search"
  /\ UNCHANGED <<given, visits, limited, linked>>

GiveUp ==
  /\ phase = "loop" /\ Candidates = {}
  /\ Back /\ UNCHANGED <<given, visits, limited>>

---------------------------------------------------------------------------
(* linkedCertificates, given the certificates of the path *)

NotLinked == <<-1>>

Parents(i) == {p \in ToSet(path) : Signs(p, i)}
Ambiguous(i) == \E p, q \in Parents(i) : p # q

\* Mutant of Ends: a certificate that names itself is no end.
EndsUnsigned(i) == Parents(i) = {}
\* Up to a certificate that names itself.
Ends(i) == SelfIssued(i) \/ Parents(i) = {}

EndLink ==
  /\ phase = "link" /\ Ends(Last(linked))
  /\ phase' = "done"
  /\ UNCHANGED <<given, search, linked>>

\* Dates are not looked at, but those of a path have been.
Refused ==
  \/ Ambiguous(Last(linked))
  \/ \E p \in Parents(Last(linked)) : p \in ToSet(linked) \/ ~CAPolicy(p, Len(linked) - 1)

Link ==
  /\ phase = "link" /\ ~Ends(Last(linked))
  /\ \/ Refused /\ linked' = NotLinked /\ phase' = "done"
     \/ /\ ~Refused /\ UNCHANGED phase
        /\ \E p \in Parents(Last(linked)) : linked' = Append(linked, p)
  /\ UNCHANGED <<given, search>>

PathNext ==
  Policy \/ AtLimit \/ AtRoot \/ Enter \/ Descend \/ GiveUp \/ EndLink \/ Link

PathSpec == PathInit /\ [][PathNext]_pathVars

---------------------------------------------------------------------------
(* Properties *)

Verified == phase \in {"link", "done"}

(* What a path is: distinct certificates, each signed by the next, to the first
   root; and a CA allows for the CAs between it and the leaf that do not name
   themselves as their issuer. *)
Between(p, k) == Cardinality({j \in 2..k - 1 : ~SelfIssued(p[j])})

IsPath(p) ==
  /\ p[1] = 0 /\ leaf.purpose
  /\ \A j, k \in DOMAIN p : p[j] = p[k] => j = k
  /\ \A k \in DOMAIN p : IsAnchor(p[k]) <=> k = Len(p)
  /\ \A k \in DOMAIN p \ {1} : Signs(p[k], p[k - 1]) /\ CAPolicy(p[k], Between(p, k))
  /\ Len(p) = 1 => CAPolicy(0, 0)

Paths == {p \in UNION {[1..n -> Indices] : n \in 1..Len(pool) + 1} : IsPath(p)}

\* What is found leads to a root by signatures and permissions alone, whatever
\* else is in the pool and in whatever order.
FoundIsPath == Verified => path \in Paths

\* A path is found when there is one, although the search backs out of dead ends,
\* cycles and cross-signed CAs, and cuts a branch by what is below it; only the
\* limits can hide it.
PathIsFound == phase = "failed" /\ ~limited => Paths = {}

\* What verified is ordered the same way for requirements, team and timestamp
\* policy, when the root and no other certificate names itself as its issuer, or
\* nothing in the path has signed the root; but where two certificates of the path
\* have signed one, which is refused.
SameOrder ==
  ( /\ phase = "done"
    /\ \A k \in 1..Len(path) - 1 : ~SelfIssued(path[k])
    /\ SelfIssued(Last(path)) \/ Parents(Last(path)) = {} )
  => \/ linked = path
     \/ linked = NotLinked /\ \E i \in ToSet(path) : Ambiguous(i)

\* The type of every variable, with the limit for a path.
PathTypeOK ==
  /\ phase \in {"policy", "search", "loop", "failed", "link", "done"}
  /\ roots \in 0..Len(pool) /\ Len(pool) <= PoolSize
  /\ path \in Seq(Indices) /\ below \in Seq(Nat) /\ Len(below) = Len(path)
  /\ Len(path) <= IF phase = "search" THEN DepthLimit + 1 ELSE DepthLimit
  /\ next \in 1..Len(pool) + 1 /\ visits \in Nat /\ limited \in BOOLEAN
  /\ linked \in Seq(Indices) \/ linked = NotLinked

\* verifyCertificateChainFor finds a path exactly when there is one, and
\* linkedCertificates orders its certificates in the same way.
PathsAgree == PathTypeOK /\ FoundIsPath /\ PathIsFound /\ SameOrder
=============================================================================
