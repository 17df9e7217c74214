-------------------------- MODULE AttributeProofs --------------------------
(***************************************************************************)
(* Proofs about Sideband, for any jobs, hosts and carriers, and about        *)
(* GenericRemoval, for any slots, names, files and entries; for any number   *)
(* of steps of other programs in both.                                       *)
(*                                                                         *)
(* A verdict is put together from queries made one after the other, while   *)
(* attributes come and go: the inductive invariant says what each answer    *)
(* that is in hand still tells of an attribute that nobody else changed.    *)
(* A removal goes through several loops over several stores: its invariant   *)
(* says what each of them has behind it and that nobody has gone ahead.      *)
(***************************************************************************)
EXTENDS Sideband, GenericRemoval, FiniteSetTheorems, SequenceTheorems, WellFoundedInduction, TLAPS

Labels == {"bind", "sign", "strip", "first", "observe", "hashed", "done", "failed"}

SeenType == [listed : SUBSET Forks, inventory : {"ok", "EIO"}, size : [Forks -> Answers]]

StateType ==
  /\ job \in Jobs /\ host \in Hosts
  /\ pc \in Labels
  /\ attr \in [Forks -> {"absent", "empty", "full"}] /\ carrier \subseteq Forks
  /\ seen \in SeenType
  /\ cancelled \in BOOLEAN /\ bound \in BOOLEAN
  /\ changed \subseteq Forks /\ changes \in 0..MaxChanges
  /\ changes = 0 => changed = {}

\* Each stage is entered for its kind of job, and has so many steps.
Stages ==
  /\ pc \in {"sign", "strip", "first"} => job.signs
  /\ pc \in {"observe", "hashed"} => ~job.signs
  /\ pc = "strip" => job.strip
  /\ step \in 1..6
  /\ pc = "first" => step <= 5
  /\ pc = "observe" => step <= 4
  /\ pc \notin {"strip", "first", "observe"} => step = 1
  /\ pc \notin {"bind", "failed"} => bound = Supplied

\* The attribute is not full, or Darwin does not say so, or it was changed.
Clean(a) == a \notin changed /\ attr[a] = "full" => a \in Hidden

\* The inventory that was recorded is the one that the file system would give now.
Listed ==
  /\ seen.inventory = host.inventory
  /\ \A a \in Forks \ changed :
       host.inventory = "ok" => (a \in seen.listed <=> attr[a] # "absent")
  /\ host.inventory # "ok" => seen.listed = {}

\* Both passes over the file, after step - 1 queries.
FileSoFar ==
  pc \in {"strip", "first"} =>
    /\ step >= 2 /\ host.platform = "linux" =>
         \A a \in Forks \ changed : attr[a] = "full" => a \in seen.listed
    /\ step >= 3 => Clean("ResourceFork")

StripSoFar ==
  pc = "strip" =>
    /\ step >= 4 => Clean("FinderInfo")
    /\ step >= 5 => job.mutable /\ bound /\ "ResourceFork" \notin carrier
    /\ step >= 6 => carrier = {}

FirstSoFar ==
  pc = "first" =>
    /\ step >= 4 => "ResourceFork" \notin Carrier
    /\ step >= 5 => Clean("FinderInfo")

\* An answer that was recorded is the one that a query would give now.
Answered(a) ==
  a \notin changed =>
    \/ host.platform = "linux" /\ a \notin seen.listed
    \/ seen.size[a] = Size(a)

ObservedSoFar ==
  pc = "observe" /\ ~cancelled =>
    /\ step >= 2 => Listed
    /\ step >= 3 => Answered("ResourceFork")
    /\ step >= 4 => Answered("FinderInfo")

Hashed ==
  pc = "hashed" /\ ~cancelled /\ host.close = "ok" => Listed /\ \A a \in Forks : Answered(a)

\* The file system's answers at the time of hashing are those that were recorded.
SameAnswers(o, p) ==
  /\ Listing(o) = Listing(p)
  /\ \A a \in Forks : Native(o, a) = Native(p, a)

Shot ==
  /\ Len(shot) <= 1
  /\ pc = "hashed" /\ shot # <<>> /\ ~cancelled /\ host.close = "ok" =>
       SameAnswers(seen, shot[1])

VerdictType ==
  verdict \subseteq Forks \cup {"error"} /\ Cardinality(verdict) <= IF job.resource THEN 2 ELSE 1

IInv ==
  /\ StateType /\ Stages /\ FileSoFar /\ StripSoFar /\ FirstSoFar /\ ObservedSoFar /\ Hashed
  /\ Shot /\ VerdictType /\ AcceptedIsClean /\ DeferredIsLive
---------------------------------------------------------------------------
(* The policy *)

\* A query finds at most one name, or an error.
LEMMA QueryFindsOne ==
  ASSUME NEW o \in SeenType, NEW c \in SUBSET Forks, NEW i \in 1..5
  PROVE  \/ Queries(o, c)[i] = {}
         \/ \E x \in Forks \cup {"error"} : Queries(o, c)[i] = {x}
<1>1. CASE i = 1
  BY <1>1 DEF Queries, Listing
<1>2. CASE i = 2
  BY <1>2 DEF Queries, Native, Forks
<1>3. CASE i = 3
  BY <1>3 DEF Queries, Forks
<1>4. CASE i = 4
  BY <1>4 DEF Queries, Native, Forks
<1>5. CASE i = 5
  BY <1>5 DEF Queries, Forks
<1>6. QED
  BY <1>1, <1>2, <1>3, <1>4, <1>5

\* A set of queries that find something has a first one.
LEMMA FirstHit ==
  ASSUME NEW hits \in SUBSET (1..5), hits # {}
  PROVE  \E i \in hits : \A j \in hits : i <= j
<1>1. CASE 1 \in hits
  BY <1>1
<1>2. CASE 1 \notin hits /\ 2 \in hits
  BY <1>2
<1>3. CASE 1 \notin hits /\ 2 \notin hits /\ 3 \in hits
  BY <1>3
<1>4. CASE 1 \notin hits /\ 2 \notin hits /\ 3 \notin hits /\ 4 \in hits
  BY <1>4
<1>5. CASE 1 \notin hits /\ 2 \notin hits /\ 3 \notin hits /\ 4 \notin hits
  <2>1. \A j \in hits : j = 5
    BY <1>5
  <2>2. PICK i \in hits : TRUE
    OBVIOUS
  <2>3. \A j \in hits : i <= j
    BY <2>1, <2>2
  <2>4. QED
    BY <2>2, <2>3
<1>6. QED
  BY <1>1, <1>2, <1>3, <1>4, <1>5

\* First reports what some query finds, and nothing only if every query finds nothing.
LEMMA FirstIsAHit ==
  ASSUME NEW o \in SeenType, NEW c \in SUBSET Forks
  PROVE  /\ \/ First(o, c) = {}
            \/ \E x \in Forks \cup {"error"} : First(o, c) = {x}
         /\ First(o, c) = {} => \A i \in 1..5 : Queries(o, c)[i] = {}
<1> DEFINE q == Queries(o, c)
           hits == {i \in DOMAIN q : q[i] # {}}
<1>1. DOMAIN q = 1..5
  BY DEF Queries
<1>2. CASE hits = {}
  BY <1>1, <1>2 DEF First
<1>3. CASE hits # {}
  <2>1. \E i \in hits : \A j \in hits : i <= j
    <3>1. hits \in SUBSET (1..5)
      BY <1>1
    <3>2. QED
      BY <1>3, <3>1, FirstHit
  <2> DEFINE k == CHOOSE i \in hits : \A j \in hits : i <= j
  <2>2. k \in hits
    BY <2>1
  <2>3. First(o, c) = q[k]
    BY <1>3 DEF First
  <2>4. k \in 1..5 /\ q[k] # {}
    BY <1>1, <2>2
  <2> HIDE DEF q, k
  <2>5. \/ q[k] = {}
        \/ \E x \in Forks \cup {"error"} : q[k] = {x}
    BY <2>4, QueryFindsOne DEF q
  <2>6. QED
    BY <2>3, <2>4, <2>5
<1>4. QED
  BY <1>2, <1>3

\* Inspect reports what all queries find.
LEMMA InspectIsAll ==
  ASSUME NEW o \in SeenType, NEW c \in SUBSET Forks
  PROVE  /\ Inspect(o, c) \subseteq Forks \/ Inspect(o, c) = {"error"}
         /\ Inspect(o, c) = {} => \A i \in 1..5 : Queries(o, c)[i] = {}
<1> DEFINE q == Queries(o, c)
           all == UNION Range(q)
<1>1. DOMAIN q = 1..5
  BY DEF Queries
<1>2. \A x \in all : \E i \in 1..5 : x \in q[i]
  BY <1>1 DEF Range
<1>3. \A i \in 1..5 : q[i] \subseteq all
  BY <1>1 DEF Range
<1>4. all \subseteq Forks \cup {"error"}
  <2>1. \A i \in 1..5 : q[i] \subseteq Forks \cup {"error"}
    BY QueryFindsOne
  <2>2. QED
    BY <1>2, <2>1
<1>5. Inspect(o, c) = IF "error" \in all THEN {"error"} ELSE all
  BY DEF Inspect
<1>6. QED
  BY <1>3, <1>4, <1>5

\* What is reported of a code object has one member, of a resource two.
LEMMA VerdictsAreSmall ==
  /\ Cardinality({}) = 0 /\ \A x : Cardinality({x}) = 1
  /\ \A s \in SUBSET Forks : Cardinality(s) <= 2 /\ Cardinality(s) \in Nat
<1>1. Cardinality({}) = 0 /\ \A x : Cardinality({x}) = 1
  BY FS_EmptySet, FS_Singleton
<1>2. IsFiniteSet(Forks) /\ Cardinality(Forks) = 2
  <2>1. IsFiniteSet({"ResourceFork"}) /\ Cardinality({"ResourceFork"}) = 1
    BY FS_Singleton
  <2>2. Forks = {"ResourceFork"} \cup {"FinderInfo"} /\ "FinderInfo" \notin {"ResourceFork"}
    BY DEF Forks
  <2>3. QED
    BY <2>1, <2>2, FS_AddElement
<1>3. ASSUME NEW s \in SUBSET Forks
      PROVE  Cardinality(s) <= 2 /\ Cardinality(s) \in Nat
  <2>1. IsFiniteSet(s) /\ Cardinality(s) <= Cardinality(Forks)
    BY <1>2, FS_Subset
  <2>2. QED
    BY <1>2, <2>1, FS_CardinalityType
<1>4. QED
  BY <1>1, <1>3

\* The policy depends only on what the answers make of each attribute.
LEMMA SameAnswersSameVerdict ==
  ASSUME NEW o, NEW p, NEW c, SameAnswers(o, p)
  PROVE  First(o, c) = First(p, c) /\ Inspect(o, c) = Inspect(p, c)
<1>1. Queries(o, c) = Queries(p, c)
  BY DEF SameAnswers, Queries, Forks
<1>2. QED
  BY <1>1 DEF First, Inspect

---------------------------------------------------------------------------
(* Types and stages *)

\* The answers that the file system gives are of their type.
LEMMA LiveType ==
  ASSUME StateType
  PROVE  Live \in SeenType /\ \A a \in Forks : Size(a) \in Answers
<1>1. host.inventory \in {"ok", "EIO"} /\ host.close \in {"ok", "EPERM", "EIO"}
  BY SidebandAssumption DEF StateType
<1>2. \A a \in Forks : host.denied[a] \in {"ok", "EPERM", "EIO"}
  BY SidebandAssumption DEF StateType
<1>3. \A a \in Forks : Size(a) \in Answers
  BY <1>2 DEF Size, Answers
<1>4. QED
  BY <1>1, <1>3 DEF Live, Names, SeenType

\* Every step keeps the types, the kind of job of each stage and its steps.
LEMMA StateStep ==
  ASSUME IInv, [Next]_vars
  PROVE  StateType' /\ Stages'
<1>1. StateType /\ Stages /\ StripSoFar
  BY DEF IInv
<1> USE DEF StateType, Stages, Labels, Goto, history, options
<1>2. Live \in SeenType /\ \A a \in Forks : Size(a) \in Answers
  BY <1>1, LiveType
<1>3. CASE prepareBundleSideband
  BY <1>1, <1>3 DEF prepareBundleSideband, BoundByIdentity, Supplied
<1>4. CASE signingSideband
  <2>1. /\ UNCHANGED <<options, attr, carrier, seen, cancelled, bound, history>>
        /\ pc = "sign" /\ pc' \in {"strip", "first", "done"} /\ step' = 1
        /\ pc' = "strip" => job.strip
    BY <1>4 DEF signingSideband, Report
  <2>2. QED
    BY <1>1, <2>1 DEF Supplied
<1>5. CASE StripNative
  <2>1. seen' \in SeenType
    BY <1>1, <1>2, <1>5 DEF StripNative
  <2>2. attr' \in [Forks -> {"absent", "empty", "full"}]
    BY <1>1, <1>5 DEF StripNative
  <2>3. QED
    BY <1>1, <1>5, <2>1, <2>2 DEF StripNative, Supplied
<1>6. CASE StripCarrier
  <2>1. step <= 5 \/ Carrier = {}
    BY <1>1, <1>6 DEF StripSoFar, Carrier, StripCarrier
  <2>2. QED
    BY <1>1, <1>6, <2>1 DEF StripCarrier, Supplied
<1>7. CASE FirstLive
  <2>1. seen' \in SeenType
    BY <1>1, <1>2, <1>7 DEF FirstLive, Report, SeenType
  <2>2. /\ UNCHANGED <<options, attr, carrier, cancelled, bound, history>>
        /\ pc = "first"
        /\ \/ pc' = "done" /\ step' = 1
           \/ pc' = pc /\ step # 5 /\ step' = step + 1
    BY <1>7 DEF FirstLive, Report
  <2>3. QED
    BY <1>1, <2>1, <2>2 DEF Supplied
<1>8. CASE ObserveNext
  <2>1. seen' \in SeenType
    BY <1>1, <1>2, <1>8 DEF ObserveNext, Ask, ObserveOrder, SeenType, Live, Forks, Answers
  <2>2. QED
    BY <1>1, <1>8, <2>1 DEF ObserveNext, Supplied
<1>9. CASE Observe
  <2>1. seen' \in SeenType
    <3>1. host.close \in {"ok", "EPERM", "EIO"}
      BY <1>1, SidebandAssumption
    <3>2. \A a \in Forks : Joined(seen.size[a]) \in Answers
      BY <1>1, <3>1 DEF SeenType, Joined, Answers
    <3>3. QED
      BY <1>1, <1>9, <3>2 DEF Observe, SeenType
  <2>2. QED
    BY <1>1, <1>9, <2>1 DEF Observe, Supplied
<1>10. CASE Validate
  BY <1>1, <1>10 DEF Validate, Report, Supplied
<1>11. CASE Fail
  BY <1>1, <1>11 DEF Fail, Supplied
<1>12. CASE Cancel
  BY <1>1, <1>12 DEF Cancel, Supplied
<1>13. ASSUME NEW a \in Forks, NEW v \in {"absent", "empty", "full"}, Change(a, v)
       PROVE  StateType' /\ Stages'
  <2>1. changes' \in 0..MaxChanges /\ changes' # 0
    BY <1>1, <1>13, SidebandAssumption DEF Change
  <2>2. /\ UNCHANGED <<options, pc, step, carrier, seen, cancelled, bound>>
        /\ attr' = [attr EXCEPT ![a] = v] /\ changed' = changed \cup {a}
    BY <1>13 DEF Change
  <2>3. attr' \in [Forks -> {"absent", "empty", "full"}] /\ changed' \subseteq Forks
    BY <1>1, <2>2
  <2>4. QED
    BY <1>1, <2>1, <2>2, <2>3 DEF Supplied
<1>14. CASE UNCHANGED vars
  BY <1>1, <1>14 DEF vars, Supplied
<1>15. QED
  BY <1>3, <1>4, <1>5, <1>6, <1>7, <1>8, <1>9, <1>10, <1>11, <1>12, <1>13, <1>14
  DEF Next, Operation

---------------------------------------------------------------------------
(* The queries of the file *)

\* A query that does not fail finds the attribute, or there is nothing to find.
LEMMA NativeTells ==
  ASSUME StateType, NEW a \in Forks, NEW o, o.size[a] = Size(a),
         host.platform = "linux" => a \in changed \/ attr[a] # "full" \/ a \in o.listed,
         Native(o, a) # {"error"}
  PROVE  /\ Clean(a) \/ a \in Native(o, a)
         /\ a \in Native(o, a) => attr[a] = "full"
<1>1. a # "error"
  BY DEF Forks
<1>2. Size(a).error = host.denied[a] /\ Size(a).full = (attr[a] = "full")
  BY DEF Size
<1>3. CASE host.platform = "linux" /\ a \notin o.listed
  BY <1>3 DEF Native, Clean
<1>4. CASE ~(host.platform = "linux" /\ a \notin o.listed) /\ Excused(o.size[a])
  <2>1. host.platform = "darwin" /\ host.denied[a] = "EPERM"
    BY <1>2, <1>4 DEF Excused
  <2>2. a \in Hidden
    BY <2>1 DEF Hidden
  <2>3. Native(o, a) = {}
    BY <1>4 DEF Native
  <2>4. QED
    BY <2>2, <2>3 DEF Clean
<1>5. CASE ~(host.platform = "linux" /\ a \notin o.listed) /\ ~Excused(o.size[a])
  <2>1. Native(o, a) = IF attr[a] = "full" THEN {a} ELSE {}
    BY <1>2, <1>5 DEF Native
  <2>2. QED
    BY <2>1 DEF Clean
<1>6. QED
  BY <1>3, <1>4, <1>5

\* A pass over the file keeps what its queries told: by each step of the pass ...
LEMMA StripNativeStep ==
  ASSUME IInv, StripNative
  PROVE  FileSoFar' /\ StripSoFar'
<1>1. StateType /\ Stages /\ FileSoFar /\ StripSoFar
  BY DEF IInv
<1>2. /\ pc = "strip" /\ step \in 1..3 /\ pc' = pc /\ step' = step + 1
      /\ UNCHANGED <<job, host, carrier, bound, changed>>
  BY <1>1 DEF StripNative, Stages, options, history
<1>3. CASE step = 1
  <2>1. Listing(Live) = {} /\ seen' = Live /\ attr' = attr
    BY <1>2, <1>3 DEF StripNative, StripOrder
  <2>2. host.platform = "linux" => host.inventory = "ok"
    BY <2>1 DEF Listing, Live
  <2>3. \A a \in Forks : attr[a] = "full" /\ host.inventory = "ok" => a \in Live.listed
    BY DEF Live, Names
  <2>4. QED
    BY <1>2, <1>3, <2>1, <2>2, <2>3 DEF FileSoFar, StripSoFar
<1>4. ASSUME NEW a \in Forks, StripOrder[step] = a, step \in {2, 3}
      PROVE  /\ seen' = seen
             /\ \A b \in Forks : attr'[b] = "full" => attr[b] = "full"
             /\ Clean(a)'
  <2> DEFINE now == [Live EXCEPT !.listed = seen.listed]
  <2>1. /\ seen' = seen /\ Native(now, a) # {"error"}
        /\ attr' = [attr EXCEPT ![a] = IF a \in Native(now, a) THEN "absent" ELSE @]
    BY <1>4 DEF StripNative, Forks
  <2>2. now.size[a] = Size(a) /\ now.listed = seen.listed
    BY DEF Live
  <2>3. host.platform = "linux" => a \in changed \/ attr[a] # "full" \/ a \in now.listed
    BY <1>1, <1>2, <1>4, <2>2 DEF FileSoFar
  <2>4. Clean(a) \/ a \in Native(now, a)
    BY <1>1, <2>1, <2>2, <2>3, NativeTells
  <2>5. attr'[a] = IF a \in Native(now, a) THEN "absent" ELSE attr[a]
    BY <1>1, <2>1 DEF StateType
  <2>6. Hidden' = Hidden
    BY <1>2 DEF Hidden
  <2>7. Clean(a)'
    BY <1>2, <2>4, <2>5, <2>6 DEF Clean
  <2>8. \A b \in Forks : attr'[b] = "full" => attr[b] = "full"
    BY <1>1, <2>1 DEF StateType
  <2>9. QED
    BY <2>1, <2>7, <2>8
<1>5. CASE step = 2
  <2>1. /\ seen' = seen
        /\ \A b \in Forks : attr'[b] = "full" => attr[b] = "full"
        /\ Clean("ResourceFork")'
    BY <1>4, <1>5 DEF StripOrder, Forks
  <2>2. QED
    BY <1>1, <1>2, <1>5, <2>1 DEF FileSoFar, StripSoFar
<1>6. CASE step = 3
  <2>1. /\ seen' = seen
        /\ \A b \in Forks : attr'[b] = "full" => attr[b] = "full"
        /\ Clean("FinderInfo")'
    BY <1>4, <1>6 DEF StripOrder, Forks
  <2>2. Clean("ResourceFork")'
    BY <1>1, <1>2, <1>6, <2>1 DEF FileSoFar, Clean, Hidden, Forks
  <2>3. QED
    BY <1>1, <1>2, <1>6, <2>1, <2>2 DEF FileSoFar, StripSoFar
<1>7. QED
  BY <1>2, <1>3, <1>5, <1>6

LEMMA StripCarrierStep ==
  ASSUME IInv, StripCarrier
  PROVE  FileSoFar' /\ StripSoFar' /\ FirstSoFar'
<1>1. StateType /\ Stages /\ FileSoFar /\ StripSoFar
  BY DEF IInv
<1>2. /\ pc = "strip" /\ step \in 4..6
      /\ UNCHANGED <<job, host, attr, seen, bound, changed>>
  BY <1>1 DEF StripCarrier, Stages, options, history
<1>3. CASE Carrier = {}
  BY <1>2, <1>3 DEF StripCarrier, Goto, FileSoFar, StripSoFar, FirstSoFar
<1>4. CASE Carrier # {}
  <2>1. /\ job.mutable /\ bound /\ pc' = pc /\ step' = step + 1
        /\ carrier' = carrier \ (IF "ResourceFork" \in carrier THEN {"ResourceFork"} ELSE carrier)
    BY <1>4 DEF StripCarrier, Carrier
  <2>2. FileSoFar'
    BY <1>1, <1>2, <2>1 DEF FileSoFar, Clean, Hidden
  <2>3. Clean("FinderInfo")'
    BY <1>1, <1>2 DEF StripSoFar, Clean, Hidden
  <2>4. "ResourceFork" \notin carrier'
    BY <2>1
  <2>5. step >= 5 => carrier' = {}
    BY <1>1, <1>2, <2>1 DEF StripSoFar
  <2>6. StripSoFar'
    BY <1>2, <2>1, <2>3, <2>4, <2>5 DEF StripSoFar
  <2>7. QED
    BY <1>2, <2>1, <2>2, <2>6 DEF FirstSoFar
<1>5. QED
  BY <1>3, <1>4

\* ... and First, which reports nothing only when all its queries told so.
LEMMA FirstLiveStep ==
  ASSUME IInv, FirstLive
  PROVE  /\ FileSoFar' /\ FirstSoFar'
         /\ pc' = "done" => verdict' = {"error"} \/ \E i \in 1..5, o \in SeenType, c \in SUBSET Forks :
                                                      verdict' = Queries(o, c)[i]
         /\ pc' = "done" /\ verdict' = {} =>
              /\ "ResourceFork" \notin Carrier /\ "FinderInfo" \notin Carrier
              /\ \A a \in Forks : Clean(a)
<1>1. StateType /\ Stages /\ FileSoFar /\ FirstSoFar
  BY DEF IInv
<1> DEFINE o == IF step = 1 THEN Live ELSE [Live EXCEPT !.listed = seen.listed]
           find == Queries(o, Carrier)[step]
<1>2. /\ pc = "first" /\ step \in 1..5
      /\ UNCHANGED <<job, host, attr, carrier, bound, changed>>
      /\ \/ /\ (find # {} \/ step = 5) /\ pc' = "done"
            /\ verdict' = IF host.close = "ok" THEN find ELSE {"error"}
         \/ find = {} /\ step # 5 /\ pc' = pc /\ step' = step + 1 /\ seen' = o
  BY <1>1 DEF FirstLive, Report, Goto, Stages, options, history
<1>3. o \in SeenType /\ Carrier \in SUBSET Forks
  <2>1. Live \in SeenType
    BY <1>1, LiveType
  <2>2. QED
    BY <1>1, <2>1 DEF StateType, SeenType, Carrier
<1>4. \A a \in Forks : o.size[a] = Size(a)
  BY DEF Live
<1>5. step >= 2 \/ find = {} =>
        \A a \in Forks : host.platform = "linux" => a \in changed \/ attr[a] # "full" \/ a \in o.listed
  <2>1. CASE step = 1 /\ find = {}
    <3>1. Listing(Live) = {}
      BY <2>1 DEF Queries
    <3>2. host.platform = "linux" => host.inventory = "ok"
      BY <3>1 DEF Listing, Live
    <3>3. QED
      BY <2>1, <3>2 DEF Live, Names
  <2>2. CASE step >= 2
    <3>1. o.listed = seen.listed
      BY <2>2 DEF Live
    <3>2. QED
      BY <1>1, <1>2, <2>2, <3>1 DEF FileSoFar
  <2>3. QED
    BY <1>2, <2>1, <2>2
<1>6. find = {} => /\ step = 2 => Clean("ResourceFork")
                   /\ step = 3 => "ResourceFork" \notin Carrier
                   /\ step = 4 => Clean("FinderInfo")
                   /\ step = 5 => "FinderInfo" \notin Carrier
  <2>1. ASSUME find = {}, NEW a \in Forks, Native(o, a) = {}
        PROVE  Clean(a)
    BY <1>1, <1>4, <1>5, <2>1, NativeTells
  <2>2. CASE step = 2
    BY <2>1, <2>2 DEF Queries, Forks
  <2>3. CASE step = 3
    BY <2>3 DEF Queries
  <2>4. CASE step = 4
    BY <2>1, <2>4 DEF Queries, Forks
  <2>5. CASE step = 5
    BY <2>5 DEF Queries
  <2>6. QED
    BY <2>2, <2>3, <2>4, <2>5
<1>7. \A a : Clean(a)' = Clean(a)
  BY <1>2 DEF Clean, Hidden
<1>8. Carrier' = Carrier
  BY <1>2 DEF Carrier
<1> HIDE DEF o, find
<1>9. CASE pc' = pc
  <2>1. find = {} /\ step # 5 /\ step' = step + 1 /\ seen' = o
    BY <1>2, <1>9
  <2>2. FileSoFar'
    BY <1>1, <1>2, <1>5, <1>6, <1>7, <2>1 DEF FileSoFar
  <2>3. FirstSoFar'
    BY <1>1, <1>2, <1>6, <1>7, <1>8, <2>1 DEF FirstSoFar
  <2>4. QED
    BY <1>2, <1>9, <2>2, <2>3
<1>10. CASE pc' = "done"
  <2>1. find = {} => step = 5
    BY <1>2, <1>10
  <2>2. verdict' = {"error"} \/ verdict' = find
    BY <1>2, <1>10
  <2>3. verdict' = {} => /\ "ResourceFork" \notin Carrier /\ "FinderInfo" \notin Carrier
                         /\ Clean("ResourceFork") /\ Clean("FinderInfo")
    BY <1>1, <1>2, <1>6, <2>1, <2>2 DEF FileSoFar, FirstSoFar
  <2>4. verdict' = find => \E i \in 1..5, p \in SeenType, c \in SUBSET Forks : verdict' = Queries(p, c)[i]
    BY <1>2, <1>3 DEF find
  <2>5. QED
    BY <1>10, <2>2, <2>3, <2>4 DEF FileSoFar, FirstSoFar, Forks
<1>11. QED
  BY <1>2, <1>9, <1>10

---------------------------------------------------------------------------
(* Observation *)

LEMMA ObserveNextStep ==
  ASSUME IInv, ObserveNext
  PROVE  ObservedSoFar'
<1>1. StateType /\ Stages /\ ObservedSoFar
  BY DEF IInv
<1>2. /\ pc = "observe" /\ step \in 1..3 /\ pc' = pc /\ step' = step + 1
      /\ UNCHANGED <<job, host, attr, changed, cancelled>>
      /\ seen' = Ask(ObserveOrder[step])
  BY <1>1 DEF ObserveNext, Stages, options, history
<1>3. SUFFICES ASSUME ~cancelled
               PROVE  ObservedSoFar'
  BY <1>2 DEF ObservedSoFar
<1>4. CASE step = 1
  <2>1. seen'.listed = Names /\ seen'.inventory = host.inventory
    BY <1>1, <1>2, <1>4 DEF Ask, ObserveOrder, StateType, SeenType
  <2>2. Listed'
    BY <1>2, <2>1 DEF Listed, Names
  <2>3. QED
    BY <1>2, <1>4, <2>2 DEF ObservedSoFar
<1>5. ASSUME NEW a \in Forks, ObserveOrder[step] = a, step \in {2, 3}
      PROVE  Listed' /\ Answered(a)' /\ \A b \in Forks \ {a} : Answered(b) => Answered(b)'
  <2>1. seen' = IF host.platform = "linux" /\ a \notin seen.listed THEN seen
                ELSE [seen EXCEPT !.size[a] = Size(a)]
    BY <1>2, <1>3, <1>5 DEF Ask, Forks
  <2>2. /\ seen'.listed = seen.listed /\ seen'.inventory = seen.inventory
        /\ \A b \in Forks \ {a} : seen'.size[b] = seen.size[b]
        /\ (host.platform = "linux" /\ a \notin seen.listed) \/ seen'.size[a] = Size(a)
    BY <1>1, <2>1 DEF StateType, SeenType
  <2>3. \A b : Size(b)' = Size(b)
    BY <1>2 DEF Size
  <2>4. Listed
    BY <1>1, <1>2, <1>3, <1>5 DEF ObservedSoFar
  <2>5. Listed'
    BY <1>2, <2>2, <2>4 DEF Listed
  <2>6. Answered(a)'
    BY <1>2, <2>2, <2>3 DEF Answered
  <2>7. \A b \in Forks \ {a} : Answered(b) => Answered(b)'
    BY <1>2, <2>2, <2>3 DEF Answered
  <2>8. QED
    BY <2>5, <2>6, <2>7
<1>6. CASE step = 2
  <2>1. Listed' /\ Answered("ResourceFork")'
    BY <1>5, <1>6 DEF ObserveOrder, Forks
  <2>2. QED
    BY <1>2, <1>6, <2>1 DEF ObservedSoFar
<1>7. CASE step = 3
  <2>1. Listed' /\ Answered("FinderInfo")' /\ (Answered("ResourceFork") => Answered("ResourceFork")')
    BY <1>5, <1>7 DEF ObserveOrder, Forks
  <2>2. Answered("ResourceFork")
    BY <1>1, <1>2, <1>3, <1>7 DEF ObservedSoFar
  <2>3. QED
    BY <1>2, <1>7, <2>1, <2>2 DEF ObservedSoFar
<1>8. QED
  BY <1>2, <1>4, <1>6, <1>7

\* What was recorded while nothing changed is what the file system would answer.
LEMMA RecordedIsLive ==
  ASSUME StateType, changed = {}, Listed, \A a \in Forks : Answered(a)
  PROVE  SameAnswers(seen, Live)
<1>1. Live.listed = Names /\ Live.inventory = host.inventory
      /\ \A a \in Forks : Live.size[a] = Size(a)
  BY DEF Live
<1>2. seen.listed = Names
  BY DEF Listed, Names, StateType, SeenType
<1>3. Listing(seen) = Listing(Live)
  BY <1>1 DEF Listing, Listed
<1>4. ASSUME NEW a \in Forks
      PROVE  Native(seen, a) = Native(Live, a)
  <2>1. CASE host.platform = "linux" /\ a \notin seen.listed
    BY <1>1, <1>2, <2>1 DEF Native
  <2>2. CASE seen.size[a] = Size(a)
    BY <1>1, <1>2, <1>4, <2>2 DEF Native
  <2>3. QED
    BY <1>4, <2>1, <2>2 DEF Answered
<1>5. QED
  BY <1>3, <1>4 DEF SameAnswers

LEMMA ObserveStep ==
  ASSUME IInv, Observe
  PROVE  Hashed' /\ Shot'
<1>1. StateType /\ Stages /\ ObservedSoFar
  BY DEF IInv
<1>2. /\ pc = "observe" /\ step = 4 /\ pc' = "hashed"
      /\ UNCHANGED <<job, host, attr, changed, cancelled, changes>>
      /\ shot' = IF changes = 0 THEN <<Live>> ELSE <<>>
      /\ host.close = "ok" => seen' = seen
  BY DEF Observe, Goto, options
<1>3. Len(shot') <= 1 /\ (shot' # <<>> => changes = 0 /\ shot'[1] = Live)
  BY <1>2
<1>4. ~cancelled => Listed /\ \A a \in Forks : Answered(a)
  BY <1>1, <1>2 DEF ObservedSoFar, Forks
<1>5. Hashed'
  BY <1>2, <1>4 DEF Hashed, Listed, Answered, Size
<1>6. ASSUME shot' # <<>>, ~cancelled, host.close = "ok"
      PROVE  SameAnswers(seen, shot[1])'
  <2>1. changed = {}
    BY <1>1, <1>3, <1>6 DEF StateType
  <2>2. SameAnswers(seen, Live)
    BY <1>1, <1>4, <1>6, <2>1, RecordedIsLive
  <2>3. QED
    BY <1>2, <1>3, <1>6, <2>2 DEF SameAnswers, Listing, Native, Excused
<1>7. Shot'
  BY <1>2, <1>3, <1>6 DEF Shot
<1>8. QED
  BY <1>5, <1>7

\* A recorded answer that finds nothing says that there is nothing to find.
LEMMA RecordedTells ==
  ASSUME StateType, Listed, NEW a \in Forks, Answered(a),
         Listing(seen) = {}, Native(seen, a) = {}
  PROVE  Clean(a)
<1>1. host.platform = "linux" => host.inventory = "ok"
  BY DEF Listing, Listed
<1>2. CASE a \in changed
  BY <1>2 DEF Clean
<1>3. CASE a \notin changed
  <2>1. host.platform = "linux" => attr[a] # "full" \/ a \in seen.listed
    BY <1>1, <1>3 DEF Listed
  <2>2. CASE host.platform = "linux" /\ a \notin seen.listed
    BY <2>1, <2>2 DEF Clean
  <2>3. CASE seen.size[a] = Size(a)
    BY <2>1, <2>3, NativeTells
  <2>4. QED
    BY <1>3, <2>2, <2>3 DEF Answered
<1>4. QED
  BY <1>2, <1>3

\* The deferred verdict is clean when it says so, and that of the time of hashing.
LEMMA ValidateStep ==
  ASSUME IInv, Validate
  PROVE  VerdictType' /\ AcceptedIsClean' /\ DeferredIsLive'
<1>1. /\ StateType /\ Stages /\ Hashed /\ Shot
  BY DEF IInv
<1>2. /\ pc = "hashed" /\ pc' = "done" /\ ~cancelled
      /\ UNCHANGED <<job, host, attr, carrier, bound, shot, changed>>
      /\ verdict' = IF job.resource THEN Inspect(seen, Carrier) ELSE First(seen, Carrier)
  BY DEF Validate, Report, Goto, options, history
<1>3. seen \in SeenType /\ Carrier \in SUBSET Forks
  BY <1>1 DEF StateType, Carrier
<1>4. VerdictType'
  <2>1. CASE job.resource
    <3>1. verdict' \subseteq Forks \/ verdict' = {"error"}
      BY <1>2, <1>3, <2>1, InspectIsAll
    <3>2. QED
      BY <1>2, <2>1, <3>1, VerdictsAreSmall DEF VerdictType
  <2>2. CASE ~job.resource
    <3>1. verdict' = {} \/ \E x \in Forks \cup {"error"} : verdict' = {x}
      BY <1>2, <1>3, <2>2, FirstIsAHit
    <3>2. verdict' \subseteq Forks \cup {"error"}
      BY <3>1
    <3>3. Cardinality(verdict') = 0 \/ Cardinality(verdict') = 1
      BY <3>1, VerdictsAreSmall
    <3>4. QED
      BY <1>2, <2>2, <3>2, <3>3 DEF VerdictType
  <2>3. QED
    BY <2>1, <2>2
<1>5. AcceptedIsClean'
  <2>1. SUFFICES ASSUME verdict' = {}, host.close = "ok"
                 PROVE  /\ bound => carrier = {}
                        /\ \A a \in Forks : Clean(a)
    BY <1>1, <1>2 DEF AcceptedIsClean, Stages, Supplied, Clean, Hidden
  <2>2. \A i \in 1..5 : Queries(seen, Carrier)[i] = {}
    BY <1>2, <1>3, <2>1, FirstIsAHit, InspectIsAll
  <2>3. Listing(seen) = {} /\ \A a \in Forks : Native(seen, a) = {}
    BY <2>2 DEF Queries, Forks
  <2>4. "ResourceFork" \notin Carrier /\ "FinderInfo" \notin Carrier
    BY <2>2 DEF Queries
  <2>5. \A a \in Forks : Clean(a)
    BY <1>1, <1>2, <2>1, <2>3, RecordedTells DEF Hashed
  <2>6. bound => carrier = {}
    BY <1>1, <2>4 DEF Carrier, StateType, Forks
  <2>7. QED
    BY <2>5, <2>6
<1>6. DeferredIsLive'
  <2>1. SUFFICES ASSUME shot # <<>>, host.close = "ok"
                 PROVE  verdict' = (IF job.resource THEN Inspect(shot[1], Carrier)
                                    ELSE First(shot[1], Carrier))'
    BY <1>2 DEF DeferredIsLive
  <2>2. SameAnswers(seen, shot[1])
    BY <1>1, <1>2, <2>1 DEF Shot
  <2>3. verdict' = IF job.resource THEN Inspect(shot[1], Carrier) ELSE First(shot[1], Carrier)
    BY <1>2, <2>2, SameAnswersSameVerdict
  <2>4. Queries(shot[1], Carrier)' = Queries(shot[1], Carrier)
    BY <1>2 DEF Queries, Listing, Native, Excused, Carrier
  <2>5. First(shot[1], Carrier)' = First(shot[1], Carrier)
    BY <2>4 DEF First
  <2>6. Inspect(shot[1], Carrier)' = Inspect(shot[1], Carrier)
    BY <2>4 DEF Inspect
  <2>7. QED
    BY <1>2, <2>3, <2>5, <2>6
<1>7. QED
  BY <1>4, <1>5, <1>6

---------------------------------------------------------------------------
(* The invariant *)

\* The initial state, and what no query has told yet.
LEMMA InitHolds ==
  ASSUME Init
  PROVE  IInv
<1>1. StateType /\ Stages
  <2>1. seen \in SeenType
    BY DEF Init, SeenType, Answers, NoAnswer
  <2>2. changes \in 0..MaxChanges
    BY SidebandAssumption DEF Init
  <2>3. StateType
    BY <2>1, <2>2 DEF Init, StateType, Labels
  <2>4. QED
    BY <2>3 DEF Init, Stages
<1>2. FileSoFar /\ StripSoFar /\ FirstSoFar /\ ObservedSoFar /\ Hashed /\ Shot
  BY DEF Init, FileSoFar, StripSoFar, FirstSoFar, ObservedSoFar, Hashed, Shot
<1>3. VerdictType
  BY VerdictsAreSmall DEF Init, VerdictType
<1>4. QED
  BY <1>1, <1>2, <1>3 DEF Init, IInv, AcceptedIsClean, DeferredIsLive

\* What has been told of an attribute is told of the rest when another one changes,
\* and no answer depends on a cancellation.
LEMMA EnvironmentStep ==
  ASSUME IInv, Cancel \/ \E a \in Forks, v \in {"absent", "empty", "full"} : Change(a, v)
  PROVE  IInv'
<1>1. /\ StateType /\ Stages /\ FileSoFar /\ StripSoFar /\ FirstSoFar /\ ObservedSoFar /\ Hashed
      /\ Shot /\ VerdictType
  BY DEF IInv
<1>2. PICK a \in Forks : /\ \A b \in Forks \ {a} : attr'[b] = attr[b]
                         /\ changed' = changed \cup {a} \/ (changed' = changed /\ attr' = attr)
  <2>1. CASE Cancel
    <3>1. "ResourceFork" \in Forks
      BY DEF Forks
    <3>2. QED
      BY <2>1, <3>1 DEF Cancel, history
  <2>2. CASE \E a \in Forks, v \in {"absent", "empty", "full"} : Change(a, v)
    BY <1>1, <2>2 DEF Change, StateType
  <2>3. QED
    BY <2>1, <2>2
<1>3. /\ pc \notin {"done", "failed"}
      /\ UNCHANGED <<job, host, pc, step, carrier, seen, verdict, bound, shot>>
      /\ cancelled => cancelled'
  BY <1>1 DEF Cancel, Change, options, history, StateType
<1>4. \A b \in Forks : Clean(b) => Clean(b)'
  BY <1>2, <1>3 DEF Clean, Hidden
<1>5. \A b \in Forks : Answered(b) => Answered(b)'
  BY <1>2, <1>3 DEF Answered, Size
<1>6. Listed => Listed'
  BY <1>2, <1>3 DEF Listed
<1>7. FileSoFar'
  BY <1>1, <1>2, <1>3, <1>4 DEF FileSoFar, Forks
<1>8. StripSoFar' /\ FirstSoFar'
  BY <1>1, <1>3, <1>4 DEF StripSoFar, FirstSoFar, Carrier, Forks
<1>9. ObservedSoFar'
  BY <1>1, <1>3, <1>5, <1>6 DEF ObservedSoFar, Forks
<1>10. Hashed'
  BY <1>1, <1>3, <1>5, <1>6 DEF Hashed
<1>11. Shot'
  BY <1>1, <1>3 DEF Shot, SameAnswers, Listing, Native, Excused
<1>12. VerdictType' /\ AcceptedIsClean' /\ DeferredIsLive'
  BY <1>1, <1>3 DEF VerdictType, AcceptedIsClean, DeferredIsLive
<1>13. StateType' /\ Stages'
  BY StateStep DEF Next
<1>14. QED
  BY <1>7, <1>8, <1>9, <1>10, <1>11, <1>12, <1>13 DEF IInv

\* Each step of the operation, stage by stage.
LEMMA OperationStep ==
  ASSUME IInv, Operation
  PROVE  IInv'
<1>1. /\ StateType /\ Stages /\ FileSoFar /\ StripSoFar /\ FirstSoFar /\ ObservedSoFar /\ Hashed
      /\ Shot /\ VerdictType
  BY DEF IInv
<1>2. StateType' /\ Stages'
  BY StateStep DEF Next
<1>3. CASE prepareBundleSideband \/ signingSideband
  <2>1. /\ step' = 1 /\ pc' \in {"sign", "observe", "strip", "first", "done"}
        /\ UNCHANGED <<job, host, verdict, shot>> \/ (pc' = "done" /\ UNCHANGED <<job, host, shot>>)
        /\ pc' = "done" => pc = "sign" /\ job.noStrict /\ verdict' = {}
    BY <1>3 DEF prepareBundleSideband, signingSideband, Report, Goto, options, history
  <2>2. VerdictType'
    BY <1>1, <2>1, VerdictsAreSmall DEF VerdictType
  <2>3. AcceptedIsClean'
    BY <1>1, <2>1 DEF AcceptedIsClean
  <2>4. DeferredIsLive'
    BY <1>1, <2>1 DEF DeferredIsLive, Stages
  <2>5. FileSoFar' /\ StripSoFar' /\ FirstSoFar' /\ ObservedSoFar' /\ Hashed' /\ Shot'
    BY <1>1, <2>1 DEF FileSoFar, StripSoFar, FirstSoFar, ObservedSoFar, Hashed, Shot
  <2>6. QED
    BY <1>2, <2>2, <2>3, <2>4, <2>5 DEF IInv
<1>4. CASE StripNative \/ StripCarrier
  <2>1. pc' = "done" => job.noStrict
    BY <1>4 DEF StripNative, StripCarrier, Goto
  <2>2. job.signs /\ pc' \in {"strip", "first", "done"} /\ UNCHANGED <<job, verdict, shot>>
    BY <1>1, <1>4 DEF StripNative, StripCarrier, Goto, Stages, options, history
  <2>3. FileSoFar' /\ StripSoFar' /\ FirstSoFar'
    <3>1. CASE StripNative
      <4>1. pc' = "strip"
        BY <3>1 DEF StripNative
      <4>2. QED
        BY <3>1, <4>1, StripNativeStep DEF FirstSoFar
    <3>2. QED
      BY <1>4, <3>1, StripCarrierStep
  <2>4. ObservedSoFar' /\ Hashed' /\ Shot'
    BY <1>1, <2>2 DEF ObservedSoFar, Hashed, Shot
  <2>5. VerdictType' /\ AcceptedIsClean' /\ DeferredIsLive'
    BY <1>1, <2>1, <2>2 DEF VerdictType, AcceptedIsClean, DeferredIsLive
  <2>6. QED
    BY <1>2, <2>3, <2>4, <2>5 DEF IInv
<1>5. CASE FirstLive
  <2>1. /\ job.signs /\ pc' \in {"first", "done"}
        /\ UNCHANGED <<job, host, attr, carrier, bound, shot, changed>>
        /\ pc' = "first" => verdict' = verdict
        /\ bound = Supplied
    BY <1>1, <1>5 DEF FirstLive, Report, Goto, Stages, options, history
  <2>2. FileSoFar' /\ FirstSoFar'
    BY <1>5, FirstLiveStep
  <2>3. VerdictType'
    <3>1. CASE pc' = "first"
      BY <1>1, <2>1, <3>1 DEF VerdictType
    <3>2. CASE pc' = "done"
      <4>1. verdict' = {} \/ \E x \in Forks \cup {"error"} : verdict' = {x}
        BY <1>5, <3>2, FirstLiveStep, QueryFindsOne
      <4>2. Cardinality(verdict') = 0 \/ Cardinality(verdict') = 1
        BY <4>1, VerdictsAreSmall
      <4>3. verdict' \subseteq Forks \cup {"error"}
        BY <4>1
      <4>4. QED
        BY <4>2, <4>3 DEF VerdictType
    <3>3. QED
      BY <2>1, <3>1, <3>2
  <2>4. AcceptedIsClean'
    <3>1. SUFFICES ASSUME pc' = "done", verdict' = {}
                   PROVE  /\ Supplied => carrier = {}
                          /\ \A a \in Forks : Clean(a)
      BY <2>1 DEF AcceptedIsClean, Supplied, Clean, Hidden
    <3>2. "ResourceFork" \notin Carrier /\ "FinderInfo" \notin Carrier /\ \A a \in Forks : Clean(a)
      BY <1>5, <3>1, FirstLiveStep
    <3>3. QED
      BY <1>1, <2>1, <3>2 DEF Carrier, StateType, Forks
  <2>5. StripSoFar' /\ ObservedSoFar' /\ Hashed' /\ Shot' /\ DeferredIsLive'
    BY <1>1, <2>1 DEF StripSoFar, ObservedSoFar, Hashed, Shot, DeferredIsLive
  <2>6. QED
    BY <1>2, <2>2, <2>3, <2>4, <2>5 DEF IInv
<1>6. CASE ObserveNext \/ Observe
  <2>1. pc' \in {"observe", "hashed"} /\ UNCHANGED <<job, verdict>>
    BY <1>6 DEF ObserveNext, Observe, Goto, options
  <2>2. ObservedSoFar' /\ Hashed' /\ Shot'
    <3>1. CASE ObserveNext
      <4>1. pc' = "observe" /\ shot' = shot
        BY <3>1 DEF ObserveNext, history
      <4>2. QED
        BY <1>1, <3>1, <4>1, ObserveNextStep DEF Hashed, Shot
    <3>2. CASE Observe
      <4>1. pc' = "hashed"
        BY <3>2 DEF Observe, Goto
      <4>2. QED
        BY <3>2, <4>1, ObserveStep DEF ObservedSoFar
    <3>3. QED
      BY <1>6, <3>1, <3>2
  <2>3. FileSoFar' /\ StripSoFar' /\ FirstSoFar' /\ VerdictType' /\ AcceptedIsClean' /\ DeferredIsLive'
    BY <1>1, <2>1 DEF FileSoFar, StripSoFar, FirstSoFar, VerdictType, AcceptedIsClean, DeferredIsLive
  <2>4. QED
    BY <1>2, <2>2, <2>3 DEF IInv
<1>7. CASE Validate \/ Fail
  <2>1. pc' \in {"done", "failed"} /\ UNCHANGED <<job, shot>>
    BY <1>7 DEF Validate, Fail, Report, Goto, options, history
  <2>2. VerdictType' /\ AcceptedIsClean' /\ DeferredIsLive'
    <3>1. CASE Fail
      <4>1. pc' = "failed" /\ verdict' = {"error"}
        BY <3>1 DEF Fail, Goto
      <4>2. Cardinality(verdict') = 1
        BY <4>1, VerdictsAreSmall
      <4>3. VerdictType'
        BY <4>1, <4>2 DEF VerdictType
      <4>4. QED
        BY <4>1, <4>3 DEF AcceptedIsClean, DeferredIsLive
    <3>2. QED
      BY <1>7, <3>1, ValidateStep
  <2>3. FileSoFar' /\ StripSoFar' /\ FirstSoFar' /\ ObservedSoFar' /\ Hashed' /\ Shot'
    BY <1>1, <2>1 DEF FileSoFar, StripSoFar, FirstSoFar, ObservedSoFar, Hashed, Shot
  <2>4. QED
    BY <1>2, <2>2, <2>3 DEF IInv
<1>8. QED
  BY <1>3, <1>4, <1>5, <1>6, <1>7 DEF Operation

\* Every reachable state satisfies the invariant (strip.go, observation.go,
\* signing_sideband.go): stages, and what each answer in hand still tells.
THEOREM InductiveInvariant == Spec => []IInv
<1>1. IInv /\ [Next]_vars => IInv'
  <2>1. SUFFICES ASSUME IInv, [Next]_vars
                 PROVE  IInv'
    OBVIOUS
  <2>2. CASE UNCHANGED vars
    <3>1. UNCHANGED <<job, host, pc, step, attr, carrier, seen, verdict, cancelled, bound, shot,
                      changed, changes>>
      BY <2>2 DEF vars, options, history
    <3>2. StateType' /\ Stages'
      BY <2>1, StateStep
    <3>3. FileSoFar' /\ StripSoFar' /\ FirstSoFar'
      BY <2>1, <3>1 DEF IInv, FileSoFar, StripSoFar, FirstSoFar, Clean, Hidden, Carrier
    <3>4. ObservedSoFar' /\ Hashed'
      BY <2>1, <3>1 DEF IInv, ObservedSoFar, Hashed, Listed, Answered, Size
    <3>5. Shot'
      BY <2>1, <3>1 DEF IInv, Shot, SameAnswers, Listing, Native, Excused
    <3>6. VerdictType' /\ AcceptedIsClean'
      BY <2>1, <3>1 DEF IInv, VerdictType, AcceptedIsClean, Supplied
    <3>7. DeferredIsLive'
      <4>1. Queries(shot[1], Carrier)' = Queries(shot[1], Carrier)
        BY <3>1 DEF Queries, Listing, Native, Excused, Carrier
      <4>2. First(shot[1], Carrier)' = First(shot[1], Carrier)
        BY <4>1 DEF First
      <4>3. Inspect(shot[1], Carrier)' = Inspect(shot[1], Carrier)
        BY <4>1 DEF Inspect
      <4>4. QED
        BY <2>1, <3>1, <4>2, <4>3 DEF IInv, DeferredIsLive
    <3>8. QED
      BY <3>2, <3>3, <3>4, <3>5, <3>6, <3>7 DEF IInv
  <2>3. QED
    BY <2>1, <2>2, OperationStep, EnvironmentStep DEF Next
<1>2. QED
  BY <1>1, InitHolds, PTL DEF Spec

\* What signing and verification accept has no prohibited attribute, and the verdict
\* that verification defers is the one of the moment of hashing
\* (signing_sideband.go:118-138, observation.go:60-110).
THEOREM PolicyHoldsAlways == Spec => []PolicyHolds
<1>1. IInv => PolicyHolds
  BY DEF IInv, PolicyHolds, TypeOK, StateType, Stages, Labels, SeenType, Shot, VerdictType
<1>2. QED
  BY <1>1, InductiveInvariant, PTL

\* A step of the operation deletes an attribute only if Strip was asked for and it is
\* not empty, and touches a carrier only after the file (strip.go:24-76).
THEOREM StripOnlyProhibitedHolds == Spec => StripOnlyProhibited
<1> DEFINE Removes ==
      /\ changes' = changes =>
           \A a \in Forks : attr'[a] # attr[a] => job.strip /\ job.signs /\ attr[a] = "full"
      /\ carrier' # carrier => /\ job.strip /\ job.signs /\ job.mutable /\ Supplied
                               /\ Prohibited \subseteq Hidden
<1>1. IInv /\ [Next]_vars => [Removes]_vars
  <2>1. SUFFICES ASSUME IInv, Next
                 PROVE  Removes
    OBVIOUS
  <2>2. StateType /\ Stages /\ FileSoFar /\ StripSoFar
    BY <2>1 DEF IInv
  <2>3. CASE StripNative
    <3>1. job.strip /\ job.signs /\ carrier' = carrier
      BY <2>2, <2>3 DEF StripNative, Stages
    <3>2. ASSUME NEW a \in Forks, attr'[a] # attr[a]
          PROVE  attr[a] = "full"
      <4> DEFINE now == [Live EXCEPT !.listed = seen.listed]
      <4>1. /\ StripOrder[step] = a /\ step \in 2..3 /\ Native(now, a) # {"error"} /\ a \in Native(now, a)
        BY <2>2, <2>3, <3>2 DEF StripNative, StateType, Stages, StripOrder, Forks
      <4>2. now.size[a] = Size(a) /\ now.listed = seen.listed
        BY DEF Live
      <4>3. host.platform = "linux" => a \in changed \/ attr[a] # "full" \/ a \in now.listed
        BY <2>2, <2>3, <4>1, <4>2 DEF FileSoFar, StripNative
      <4>4. QED
        BY <2>2, <4>1, <4>2, <4>3, NativeTells
    <3>3. QED
      BY <3>1, <3>2
  <2>4. CASE StripCarrier
    <3>1. job.strip /\ job.signs /\ attr' = attr /\ pc = "strip" /\ step > 3 /\ bound = Supplied
      BY <2>2, <2>4 DEF StripCarrier, Stages
    <3>2. carrier' # carrier => job.mutable /\ bound
      BY <2>4 DEF StripCarrier, Carrier
    <3>3. \A a \in Forks : Clean(a)
      BY <2>2, <3>1 DEF FileSoFar, StripSoFar, Stages, Forks
    <3>4. Prohibited \subseteq Hidden
      BY <3>3 DEF Prohibited, Clean
    <3>5. QED
      BY <3>1, <3>2, <3>4
  <2>5. CASE prepareBundleSideband \/ signingSideband \/ FirstLive \/ ObserveNext \/ Observe
             \/ Validate \/ Fail \/ Cancel
    BY <2>5 DEF prepareBundleSideband, signingSideband, FirstLive, ObserveNext, Observe, Validate, Fail,
       Cancel, Report, Goto
  <2>6. CASE \E a \in Forks, v \in {"absent", "empty", "full"} : Change(a, v)
    BY <2>2, <2>6 DEF Change, StateType
  <2>7. QED
    BY <2>1, <2>3, <2>4, <2>5, <2>6 DEF Next, Operation
<1>2. QED
  BY <1>1, InductiveInvariant, PTL DEF Spec, StripOnlyProhibited

---------------------------------------------------------------------------
(* Sequences *)

\* Induction for a set of good numbers instead of a predicate.
LEMMA UpTo ==
  ASSUME NEW n \in Nat, NEW G, 0 \in G, \A k \in 0..n - 1 : k \in G => k + 1 \in G
  PROVE  \A k \in 0..n : k \in G
<1> DEFINE Bad == {k \in 0..n : k \notin G}
           R == OpToRel(<, Nat)
<1>1. IsWellFoundedOn(R, Nat)
  BY NatLessThanWellFounded
<1>2. \A x, y \in Nat : x < y => <<x, y>> \in R
  BY DEF OpToRel
<1>3. Bad \subseteq Nat
  OBVIOUS
<1> HIDE DEF Bad, R
<1>4. SUFFICES ASSUME Bad # {} PROVE FALSE
  BY DEF Bad
<1>5. PICK k \in Bad : \A j \in Bad : <<j, k>> \notin R
  BY <1>1, <1>3, <1>4, WFMin
<1>6. k \in 1..n /\ k \notin G /\ k - 1 \in Nat /\ k - 1 \in 0..n - 1 /\ (k - 1) + 1 = k /\ k - 1 < k
  BY <1>5 DEF Bad
<1>7. k - 1 \notin Bad
  <2>1. <<k - 1, k>> \in R
    BY <1>2, <1>6
  <2>2. QED
    BY <1>5, <2>1
<1>8. k - 1 \in G
  BY <1>6, <1>7 DEF Bad
<1>9. QED
  BY <1>6, <1>8

\* The recursion of Only, with the function named.
Filters(g, s, S, n) ==
  g = [i \in 0..n |->
        IF i = 0 THEN <<>> ELSE IF s[i] \in S THEN Append(g[i - 1], s[i]) ELSE g[i - 1]]

LEMMA FilterStep ==
  ASSUME NEW n \in Nat, NEW s, NEW S, NEW g, Filters(g, s, S, n), NEW i \in 1..n
  PROVE  g[i] = IF s[i] \in S THEN Append(g[i - 1], s[i]) ELSE g[i - 1]
<1>1. i \in 0..n /\ i # 0
  OBVIOUS
<1> HIDE DEF Filters
<1>2. QED
  BY <1>1 DEF Filters

LEMMA FiltersExist ==
  ASSUME NEW n \in Nat, NEW s, NEW S
  PROVE  \E g : Filters(g, s, S, n)
<1> DEFINE G == {k \in 0..n : \E g : Filters(g, s, S, k)}
<1>1. 0 \in G
  <2> DEFINE g == [i \in 0..0 |-> <<>>]
  <2>1. Filters(g, s, S, 0)
    BY DEF Filters
  <2>2. QED
    BY <2>1
<1>2. ASSUME NEW k \in 0..n - 1, k \in G PROVE k + 1 \in G
  <2>1. PICK g : Filters(g, s, S, k)
    BY <1>2
  <2> DEFINE last == IF s[k + 1] \in S THEN Append(g[k], s[k + 1]) ELSE g[k]
             h == [i \in 0..k + 1 |-> IF i = k + 1 THEN last ELSE g[i]]
             d == [i \in 0..k + 1 |->
                    IF i = 0 THEN <<>> ELSE IF s[i] \in S THEN Append(h[i - 1], s[i]) ELSE h[i - 1]]
  <2>2. ASSUME NEW i \in 0..k + 1 PROVE h[i] = d[i]
    <3>1. CASE i = k + 1
      BY <3>1
    <3>2. CASE i = 0
      BY <2>1, <3>2 DEF Filters
    <3>3. CASE i \in 1..k
      <4>1. h[i] = g[i] /\ h[i - 1] = g[i - 1]
        BY <3>3
      <4> HIDE DEF h
      <4>2. QED
        BY <2>1, <3>3, <4>1, FilterStep
    <3>4. QED
      BY <3>1, <3>2, <3>3
  <2>3. h = d
    BY <2>2
  <2>4. Filters(h, s, S, k + 1)
    <3> HIDE DEF h
    <3>1. QED
      BY <2>3 DEF Filters
  <2> HIDE DEF h
  <2>5. QED
    BY <2>4
<1> HIDE DEF G
<1>3. n \in G
  BY <1>1, <1>2, UpTo
<1>4. QED
  BY <1>3 DEF G

LEMMA AppendRange ==
  ASSUME NEW T, NEW s \in Seq(T), NEW e \in T
  PROVE  Append(s, e) \in Seq(T) /\ Range(Append(s, e)) = Range(s) \cup {e}
<1> DEFINE a == Append(s, e)
<1>1. a \in Seq(T) /\ Len(a) = Len(s) + 1 /\ a[Len(s) + 1] = e /\ \A i \in 1..Len(s) : a[i] = s[i]
  OBVIOUS
<1>2. DOMAIN a = 1..Len(s) + 1 /\ DOMAIN s = 1..Len(s) /\ Len(s) \in Nat
  BY <1>1
<1> HIDE DEF a
<1>3. Range(a) = Range(s) \cup {e}
  BY <1>1, <1>2 DEF Range
<1>4. QED
  BY <1>1, <1>3 DEF a

\* Only keeps exactly the members of the set.
LEMMA OnlyRange ==
  ASSUME NEW T, NEW s \in Seq(T), NEW S
  PROVE  Only(s, S) \in Seq(T) /\ Range(Only(s, S)) = Range(s) \cap S
<1>1. PICK g : Filters(g, s, S, Len(s)) /\ Only(s, S) = g[Len(s)]
  <2>1. PICK h : Filters(h, s, S, Len(s))
    BY FiltersExist
  <2>2. QED
    BY <2>1 DEF Only, Filters
<1> DEFINE G == {k \in 0..Len(s) : g[k] \in Seq(T) /\ Range(g[k]) = {s[i] : i \in 1..k} \cap S}
<1>2. 0 \in G
  BY <1>1 DEF Filters, Range
<1>3. ASSUME NEW k \in 0..Len(s) - 1, k \in G PROVE k + 1 \in G
  <2>1. g[k + 1] = IF s[k + 1] \in S THEN Append(g[k], s[k + 1]) ELSE g[k]
    BY <1>1, FilterStep, k + 1 \in 1..Len(s)
  <2>2. s[k + 1] \in T /\ {s[i] : i \in 1..k + 1} = {s[i] : i \in 1..k} \cup {s[k + 1]}
    OBVIOUS
  <2>3. CASE s[k + 1] \in S
    <3>1. Append(g[k], s[k + 1]) \in Seq(T) /\ Range(Append(g[k], s[k + 1])) = Range(g[k]) \cup {s[k + 1]}
      BY <1>3, <2>2, AppendRange
    <3>2. QED
      <4>1. g[k + 1] = Append(g[k], s[k + 1])
        BY <2>1, <2>3
      <4>2. Range(g[k + 1]) = ({s[i] : i \in 1..k} \cap S) \cup {s[k + 1]}
        BY <1>3, <3>1, <4>1
      <4>3. k + 1 \in 0..Len(s)
        OBVIOUS
      <4>4. Range(g[k + 1]) = {s[i] : i \in 1..k + 1} \cap S
        BY <2>2, <2>3, <4>2
      <4>5. QED
        BY <3>1, <4>1, <4>3, <4>4
  <2>4. CASE s[k + 1] \notin S
    BY <1>3, <2>1, <2>2, <2>4
  <2>5. QED
    BY <2>3, <2>4
<1> HIDE DEF G
<1>4. Len(s) \in G
  <2>1. Len(s) \in Nat /\ Len(s) \in 0..Len(s)
    OBVIOUS
  <2>2. QED
    BY <1>2, <1>3, <2>1, UpTo
<1>5. Range(s) = {s[i] : i \in 1..Len(s)}
  BY DEF Range
<1>6. QED
  BY <1>1, <1>4, <1>5 DEF G

\* An order of a finite set has all of it.
LEMMA OrderRange ==
  ASSUME NEW S, IsFiniteSet(S), NEW l \in SetToSeqs(S)
  PROVE  l \in Seq(S) /\ Range(l) = S
<1> DEFINE n == Cardinality(S)
<1>1. n \in Nat /\ IsFiniteSet(1..n) /\ Cardinality(1..n) = n
  BY FS_CardinalityType, FS_Interval
<1>2. l \in Injection(1..n, S)
  BY <1>1 DEF SetToSeqs, Injection, IsInjective
<1>3. l \in Surjection(1..n, S)
  BY <1>1, <1>2, FS_Injection
<1>4. QED
  BY <1>1, <1>3 DEF Surjection, Range

LEMMA SetToSeqType ==
  ASSUME NEW S, IsFiniteSet(S)
  PROVE  SetToSeq(S) \in Seq(S)
<1>1. Cardinality(S) \in Nat /\ ExistsBijection(1..Cardinality(S), S)
  BY FS_CardinalityType
<1>2. \E f \in [1..Cardinality(S) -> S] : IsInjective(f)
  BY <1>1 DEF ExistsBijection, Bijection, Injection, IsInjective
<1>3. SetToSeq(S) \in [1..Cardinality(S) -> S]
  BY <1>2 DEF SetToSeq
<1>4. QED
  BY <1>1, <1>3

\* What is left of a sequence after its first element.
LEMMA TailOf ==
  ASSUME NEW T, NEW s \in Seq(T), s # <<>>, NEW t, t = SubSeq(s, 2, Len(s))
  PROVE  /\ t \in Seq(T) /\ Len(t) = Len(s) - 1 /\ Head(s) \in T /\ Head(s) = s[1]
         /\ \A i \in 1..Len(t) : t[i] = s[i + 1]
         /\ Len(s) >= 1
<1>1. /\ t \in Seq(T) /\ Len(t) = Len(s) - 1 /\ Len(s) \in Nat \ {0}
  <2>1. Len(s) \in Nat \ {0} /\ Len(s) \in Int /\ \A i \in 2..Len(s) : s[i] \in T
    OBVIOUS
  <2>2. t \in Seq(T)
    BY <2>1, SubSeqProperties
  <2>3. Len(t) = IF 2 <= Len(s) THEN Len(s) - 2 + 1 ELSE 0
    BY <2>1, SubSeqProperties
  <2>4. Len(t) = Len(s) - 1
    <3> DEFINE n == Len(s)
               m == Len(t)
    <3>1. n \in Nat \ {0} /\ m = IF 2 <= n THEN n - 2 + 1 ELSE 0
      BY <2>1, <2>3
    <3> HIDE DEF n, m
    <3>2. m = n - 1
      BY <3>1
    <3>3. QED
      BY <3>2 DEF n, m
  <2>5. QED
    BY <2>1, <2>2, <2>4
<1>2. Head(s) \in T /\ Head(s) = s[1]
  OBVIOUS
<1>3. \A i \in 1..Len(t) : t[i] = s[i + 1]
  <2>1. Len(s) \in Int /\ \A i \in 2..Len(s) : s[i] \in T
    OBVIOUS
  <2>2. \A i \in 1..Len(s) - 2 + 1 : t[i] = s[2 + i - 1]
    BY <2>1, SubSeqProperties
  <2>3. QED
    BY <1>1, <2>2
<1>4. QED
  BY <1>1, <1>2, <1>3

LEMMA TailRange ==
  ASSUME NEW T, NEW s \in Seq(T), s # <<>>, NEW t, t = SubSeq(s, 2, Len(s))
  PROVE  Range(s) = {Head(s)} \cup Range(t)
<1>1. t \in Seq(T) /\ Len(t) = Len(s) - 1 /\ Len(s) \in Nat \ {0}
  <2>1. t \in Seq(T) /\ Len(t) = Len(s) - 1
    BY TailOf
  <2>2. Len(s) \in Nat \ {0}
    OBVIOUS
  <2>3. QED
    BY <2>1, <2>2
<1>2. Head(s) = s[1]
  BY TailOf
<1>3. \A i \in 1..Len(t) : t[i] = s[i + 1]
  BY TailOf
<1>4. DOMAIN s = 1..Len(s) /\ DOMAIN t = 1..Len(t)
  BY <1>1
<1>5. \A i \in 1..Len(s) : i = 1 \/ (i - 1 \in 1..Len(t) /\ t[i - 1] = s[i])
  BY <1>1, <1>3
<1>6. \A i \in 1..Len(t) : i + 1 \in 1..Len(s)
  BY <1>1
<1>7. Range(s) = {Head(s)} \cup Range(t)
  <2>1. \A x \in Range(s) : x = Head(s) \/ x \in Range(t)
    <3>1. ASSUME NEW x \in Range(s), x # Head(s) PROVE x \in Range(t)
      <4>1. PICK i \in 1..Len(s) : x = s[i]
        BY <1>4, <3>1 DEF Range
      <4>2. i - 1 \in DOMAIN t /\ t[i - 1] = x
        BY <1>2, <1>4, <1>5, <3>1, <4>1
      <4>3. QED
        BY <4>2 DEF Range
    <3>2. QED
      BY <3>1
  <2>2. Head(s) \in Range(s)
    BY <1>1, <1>2, <1>4 DEF Range
  <2>3. Range(t) \subseteq Range(s)
    BY <1>3, <1>4, <1>6 DEF Range
  <2>4. QED
    BY <2>1, <2>2, <2>3
<1>8. QED
  BY <1>7

---------------------------------------------------------------------------
(* Generic removal: what is left at every stage *)

BeforeRemoval == {"open", "classify", "reopen", "inventory"}
AfterFlushes == {"purge", "purging", "done"}

\* How many slots the loop in progress has behind it.
Passed == Len(Slots) - Len(todo)

\* Nothing is removed before the file was classified and opened, except by others.
Untouched ==
  stage \in BeforeRemoval =>
    /\ store = "native"
    /\ \A f \in Files : start.native[f] \ native[f] \subseteq foreign

\* What is removed from is the file that was classified, and no program.
Classified ==
  /\ stage \notin {"open", "classify", "reopen", "failed"} => out = file
  /\ stage \notin {"open", "classify", "failed"} => ~Foreign(removal.headers)

\* The loops over slots and over components are at a suffix of them.
AtSlots ==
  /\ stage = "inventory" => todo = Slots
  /\ stage \in {"slots", "hook"} =>
       Len(todo) <= Len(Slots) /\ \A i \in 1..Len(todo) : todo[i] = Slots[Passed + i]

\* Slots first; then the list covers what is left, and a carrier comes last.
NativeSoFar ==
  /\ \A f \in Files : Possible(native[f])
  /\ store = "native" /\ stage = "slots" => \A i \in 1..Passed : Named(i) \cap Attached = {}
  /\ store = "native" /\ stage \in {"hook", "list", "flush"} => SlotNames \cap Attached = {}
  /\ store = "native" /\ stage = "flush" =>
       \A n \in Attached : \E m \in Range(todo) : Fold(n) = Fold(m)
  /\ store = "carrier" \/ stage \in AfterFlushes => Attached = {}

CarrierSoFar ==
  /\ removal.carrier = "none" => records = <<>> /\ store = "native"
  /\ store = "native" => records = start.records
  /\ stage \in {"slots", "hook", "list"} => Range(start.records) \ Range(records) \subseteq Range(Slots)
  /\ store = "carrier" /\ stage = "flush" => Carried \subseteq Range(todo)
  /\ stage \in AfterFlushes => Carried = {}

\* Components go after the slots of the last store, the other entries in the end.
EnvelopeSoFar ==
  /\ ~removal.bundle => stage \notin {"purge", "purging"} /\ \A e \in Entries : envelope[e] = "absent"
  /\ stage = "hook" => HasHook(store) /\ \A i \in 1..Passed : Slots[i] \notin Stored
  /\ stage \in {"list", "flush"} /\ HasHook(store) => Components = {}
  /\ stage \in AfterFlushes => Components = {}
  /\ stage = "purging" => Stored \subseteq Range(todo)
  /\ stage = "done" => Stored = {}
  /\ stage \notin {"purging", "done", "failed"} =>
       \A e \in (Entries \ Range(Slots)) \ foreign : envelope[e] = start.envelope[e]

RemovalInv ==
  /\ RemovalTypeOK /\ Untouched /\ Classified /\ AtSlots
  /\ NativeSoFar /\ CarrierSoFar /\ EnvelopeSoFar /\ RemovalOrder

---------------------------------------------------------------------------
(* What the constants say *)

LEMMA SlotFacts ==
  /\ DOMAIN Slots = 1..Len(Slots) /\ Len(Slots) \in Nat /\ Slots \in Seq(Attrs \cup Entries)
  /\ \A i \in 1..Len(Slots) : Slots[i] \in Prefixed /\ Slots[i] \in Attrs /\ Slots[i] \in Entries
  /\ Range(Slots) \subseteq Prefixed /\ Range(Slots) \subseteq Attrs /\ Range(Slots) \subseteq Entries
<1>1. Slots \in Seq(Prefixed \cap Entries) /\ Prefixed \subseteq Attrs
  BY RemovalAssumption
<1>2. DOMAIN Slots = 1..Len(Slots) /\ Len(Slots) \in Nat
  BY <1>1
<1>3. \A i \in 1..Len(Slots) : Slots[i] \in Prefixed /\ Slots[i] \in Attrs /\ Slots[i] \in Entries
  BY <1>1
<1>4. Slots \in Seq(Attrs \cup Entries)
  BY <1>1, <1>3
<1>5. QED
  BY <1>2, <1>3, <1>4 DEF Range

LEMMA RemovalFacts ==
  ASSUME RemovalTypeOK
  PROVE  /\ removal.bundle \in BOOLEAN /\ removal.platform \in {"darwin", "linux", "windows"}
         /\ removal.carrier \in {"none", "fixed", "mutable"} /\ removal.headers \in Seq(STRING)
BY RemovalAssumption DEF RemovalTypeOK

\* Names that are one slot's are in the namespace, and no other slot's.
LEMMA NamedFacts ==
  /\ \A n \in Attrs, m \in Prefixed : Fold(n) = Fold(m) => InNamespace(n, "native")
  /\ \A i \in DOMAIN Slots, j \in DOMAIN Slots : i # j => Named(i) \cap Named(j) = {}
  /\ \A i \in DOMAIN Slots : Slots[i] \in Named(i)
<1>1. \A n \in Prefixed : Fold(n) \in Prefixed
  BY RemovalAssumption DEF Fold
<1>2. \A n \in Attrs, m \in Prefixed : Fold(n) = Fold(m) => InNamespace(n, "native")
  BY <1>1 DEF InNamespace
<1>3. ASSUME NEW i \in DOMAIN Slots, NEW j \in DOMAIN Slots, i # j, NEW n \in Named(i) \cap Named(j)
      PROVE  FALSE
  <2>1. Fold(Slots[i]) = Fold(Slots[j])
    BY DEF Named
  <2>2. Lower[Slots[i]] = Lower[Slots[j]]
    BY <2>1 DEF Fold
  <2>3. QED
    BY <1>3, <2>2, RemovalAssumption
<1>4. \A i \in DOMAIN Slots : Slots[i] \in Named(i)
  BY SlotFacts DEF Named
<1>5. QED
  BY <1>2, <1>3, <1>4

\* On Linux no file has anything of the namespace.
LEMMA NothingOnLinux ==
  ASSUME RemovalTypeOK, NativeSoFar, removal.platform = "linux"
  PROVE  Attached = {}
<1>1. native[file] \cap Prefixed = {}
  BY DEF NativeSoFar, RemovalTypeOK, Possible
<1>2. QED
  BY <1>1 DEF Attached, InNamespace, Fold

LEMMA Same ==
  ASSUME UNCHANGED <<removal, native, records, envelope, start, foreign, file>>
  PROVE  /\ Attached' = Attached /\ Carried' = Carried /\ Stored' = Stored
         /\ Components' = Components /\ Removed' = Removed /\ SlotNames' = SlotNames
         /\ RemovalOrder <=> RemovalOrder'
<1>1. Attached' = Attached
  BY DEF Attached, InNamespace, Fold
<1>2. Carried' = Carried /\ Stored' = Stored /\ Components' = Components /\ Removed' = Removed
  BY DEF Carried, Stored, Components, Removed
<1>3. SlotNames' = SlotNames
  BY DEF SlotNames, Named, Fold
<1>4. RemovalOrder <=> RemovalOrder'
  BY <1>1, <1>2, <1>3 DEF RemovalOrder, Named, Fold, HasHook
<1>5. QED
  BY <1>1, <1>2, <1>3, <1>4

---------------------------------------------------------------------------
(* Steps before the removal *)

LEMMA OpenStep ==
  ASSUME RemovalInv, Open
  PROVE  RemovalInv'
<1> USE DEF Open, Proceed, control, handles, objects, ghosts
<1>1. /\ stage = "open" /\ stage' = "classify" /\ file' = entry /\ file' \in Files
      /\ UNCHANGED <<removal, store, todo, entry, out, inventory, native, records, envelope, start,
                     foreign, interference>>
  BY DEF RemovalInv, RemovalTypeOK
<1> USE <1>1
<1>2. RemovalTypeOK'
  BY DEF RemovalInv, RemovalTypeOK, RemovalStages
<1>3. Untouched' /\ Classified' /\ AtSlots'
  BY DEF RemovalInv, Untouched, Classified, AtSlots, BeforeRemoval
<1>4. NativeSoFar'
  BY DEF RemovalInv, NativeSoFar, Untouched, BeforeRemoval, AfterFlushes, Possible
<1>5. CarrierSoFar'
  BY DEF RemovalInv, CarrierSoFar, AfterFlushes, Carried
<1>6. EnvelopeSoFar'
  BY DEF RemovalInv, EnvelopeSoFar, AfterFlushes
<1>7. Removed' = {}
  BY DEF RemovalInv, Untouched, Removed, BeforeRemoval
<1>8. records = start.records
  BY DEF RemovalInv, Untouched, CarrierSoFar, BeforeRemoval
<1>9. RemovalOrder'
  <2>1. \A e \in Entries \ Range(Slots) : e \notin foreign => envelope[e] = start.envelope[e]
    BY DEF RemovalInv, EnvelopeSoFar
  <2>2. Range(start.records) \ Range(records) = {}
    BY <1>8
  <2>3. QED
    BY <1>7, <1>8, <2>1, <2>2 DEF RemovalOrder
<1>10. QED
  BY <1>2, <1>3, <1>4, <1>5, <1>6, <1>9 DEF RemovalInv

\* What is refused covers everything that has a signature of its own.
LEMMA RefusedIsForeign ==
  ASSUME NEW h, ~IsCode(h), ~Specialized(h)
  PROVE  ~Foreign(h)
BY DEF IsCode, Specialized, Foreign, Headers

LEMMA CandidateStep ==
  ASSUME RemovalInv, genericRemovalCandidate
  PROVE  RemovalInv'
<1> USE DEF genericRemovalCandidate, Proceed, control, handles, objects, ghosts
<1>1. /\ stage = "classify" /\ stage' = "reopen"
      /\ UNCHANGED <<removal, store, todo, entry, file, out, inventory, native, records, envelope,
                     start, foreign, interference>>
  OBVIOUS
<1>2. ~Foreign(removal.headers)'
  BY <1>1, RefusedIsForeign
<1> USE <1>1
<1>3. RemovalTypeOK'
  BY DEF RemovalInv, RemovalTypeOK, RemovalStages
<1>4. Untouched' /\ Classified' /\ AtSlots'
  BY <1>2 DEF RemovalInv, Untouched, Classified, AtSlots, BeforeRemoval
<1>5. NativeSoFar'
  BY DEF RemovalInv, NativeSoFar, Untouched, BeforeRemoval, AfterFlushes, Possible
<1>6. CarrierSoFar' /\ EnvelopeSoFar'
  BY DEF RemovalInv, CarrierSoFar, EnvelopeSoFar, AfterFlushes
<1>7. RemovalOrder'
  BY Same DEF RemovalInv
<1>8. QED
  BY <1>3, <1>4, <1>5, <1>6, <1>7 DEF RemovalInv

LEMMA ReopenStep ==
  ASSUME RemovalInv, Reopen
  PROVE  RemovalInv'
<1> USE DEF Reopen, Proceed, control, handles, objects, ghosts
<1>1. /\ stage = "reopen" /\ stage' \in {"inventory", "slots"} /\ out' = file' /\ todo' = Slots
      /\ UNCHANGED <<removal, store, entry, file, inventory, native, records, envelope,
                     start, foreign, interference>>
  OBVIOUS
<1> USE <1>1
<1>2. store = "native" /\ records = start.records
  BY DEF RemovalInv, Untouched, CarrierSoFar, BeforeRemoval
<1>3. RemovalTypeOK'
  BY SlotFacts DEF RemovalInv, RemovalTypeOK, RemovalStages
<1>4. Untouched' /\ Classified' /\ AtSlots'
  BY SlotFacts DEF RemovalInv, Untouched, Classified, AtSlots, BeforeRemoval, Passed
<1>5. NativeSoFar'
  <2>1. Passed' = 0
    BY SlotFacts DEF Passed
  <2>2. \A f \in Files : Possible(native[f])'
    BY DEF RemovalInv, NativeSoFar, Possible
  <2>3. QED
    BY <1>2, <2>1, <2>2 DEF NativeSoFar, AfterFlushes
<1>6. CarrierSoFar'
  BY <1>2 DEF RemovalInv, CarrierSoFar, AfterFlushes
<1>7. EnvelopeSoFar'
  BY DEF RemovalInv, EnvelopeSoFar, AfterFlushes
<1>8. RemovalOrder'
  BY Same DEF RemovalInv
<1>9. QED
  BY <1>3, <1>4, <1>5, <1>6, <1>7, <1>8 DEF RemovalInv

LEMMA InventoryStep ==
  ASSUME RemovalInv, Inventory
  PROVE  RemovalInv'
<1> USE DEF Inventory, Proceed, control, handles, objects, ghosts
<1>1. /\ stage = "inventory" /\ stage' = "slots"
      /\ UNCHANGED <<removal, store, entry, file, out, todo, native, records, envelope,
                     start, foreign, interference>>
  OBVIOUS
<1> USE <1>1
<1>2. store = "native" /\ records = start.records /\ todo = Slots
  BY DEF RemovalInv, Untouched, CarrierSoFar, AtSlots, BeforeRemoval
<1>3. RemovalTypeOK'
  BY DEF RemovalInv, RemovalTypeOK, RemovalStages
<1>4. Untouched' /\ Classified' /\ AtSlots'
  BY <1>2, SlotFacts DEF RemovalInv, Untouched, Classified, AtSlots, BeforeRemoval, Passed
<1>5. NativeSoFar'
  <2>1. Passed' = 0
    BY <1>2, SlotFacts DEF Passed
  <2>2. \A f \in Files : Possible(native[f])'
    BY DEF RemovalInv, NativeSoFar, Possible
  <2>3. QED
    BY <1>2, <2>1, <2>2 DEF NativeSoFar, AfterFlushes
<1>6. CarrierSoFar'
  BY <1>2 DEF RemovalInv, CarrierSoFar, AfterFlushes
<1>7. EnvelopeSoFar'
  BY DEF RemovalInv, EnvelopeSoFar, AfterFlushes
<1>8. RemovalOrder'
  BY Same DEF RemovalInv
<1>9. QED
  BY <1>3, <1>4, <1>5, <1>6, <1>7, <1>8 DEF RemovalInv

---------------------------------------------------------------------------
(* Attributes of the file *)

\* A round takes the first name.
LEMMA TodoTail ==
  ASSUME todo \in Seq(Attrs \cup Entries), todo # <<>>, todo' = SubSeq(todo, 2, Len(todo))
  PROVE  /\ todo' \in Seq(Attrs \cup Entries) /\ Len(todo') = Len(todo) - 1 /\ Len(todo) >= 1
         /\ \A i \in 1..Len(todo') : todo'[i] = todo[i + 1]
         /\ Range(todo) = {Head(todo)} \cup Range(todo') /\ Head(todo) = todo[1]
<1> DEFINE t == SubSeq(todo, 2, Len(todo))
<1>1. /\ t \in Seq(Attrs \cup Entries) /\ Len(t) = Len(todo) - 1 /\ Len(todo) >= 1
      /\ \A i \in 1..Len(t) : t[i] = todo[i + 1]
      /\ Range(todo) = {Head(todo)} \cup Range(t) /\ Head(todo) = todo[1]
  <2> HIDE DEF t
  <2>1. t = SubSeq(todo, 2, Len(todo))
    BY DEF t
  <2>2. t \in Seq(Attrs \cup Entries) /\ Len(t) = Len(todo) - 1
    BY <2>1, TailOf
  <2>3. Len(todo) >= 1
    BY <2>1, TailOf
  <2>4. \A i \in 1..Len(t) : t[i] = todo[i + 1]
    BY <2>1, TailOf
  <2>5. Range(todo) = {Head(todo)} \cup Range(t)
    BY <2>1, TailRange
  <2>6. Head(todo) = todo[1]
    BY <2>1, TailOf
  <2>7. QED
    BY <2>2, <2>3, <2>4, <2>5, <2>6
<1>2. QED
  BY <1>1

LEMMA LoopStep ==
  ASSUME RemovalInv, RemoveNext
  PROVE  /\ stage \in {"slots", "flush"} /\ todo # <<>> /\ RemoveAttribute(Head(todo))
         /\ UNCHANGED <<removal, stage, store, entry, file, out, inventory, envelope, start, foreign,
                        interference>>
         /\ out = file /\ ~Foreign(removal.headers)
         /\ todo' \in Seq(Attrs \cup Entries) /\ Len(todo') = Len(todo) - 1 /\ Len(todo) \in Nat \ {0}
         /\ \A i \in 1..Len(todo') : todo'[i] = todo[i + 1]
         /\ Range(todo) = {Head(todo)} \cup Range(todo') /\ Head(todo) \in Range(todo)
         /\ stage = "slots" => /\ Passed \in Nat /\ Passed' = Passed + 1 /\ Passed' \in DOMAIN Slots
                               /\ Head(todo) = Slots[Passed']
<1>1. todo \in Seq(Attrs \cup Entries) /\ todo # <<>> /\ todo' = SubSeq(todo, 2, Len(todo))
  BY DEF RemovalInv, RemovalTypeOK, RemoveNext
<1>2. /\ todo' \in Seq(Attrs \cup Entries) /\ Len(todo') = Len(todo) - 1 /\ Len(todo) >= 1
      /\ \A i \in 1..Len(todo') : todo'[i] = todo[i + 1]
      /\ Range(todo) = {Head(todo)} \cup Range(todo') /\ Head(todo) = todo[1]
  BY <1>1, TodoTail
<1>3. Len(todo) \in Nat \ {0}
  BY <1>1
<1>4. /\ stage \in {"slots", "flush"} /\ RemoveAttribute(Head(todo))
      /\ UNCHANGED <<removal, stage, store, entry, file, out, inventory, envelope, start, foreign,
                     interference>>
  BY DEF RemoveNext, handles, ghosts
<1>5. out = file /\ ~Foreign(removal.headers)
  BY <1>4 DEF RemovalInv, Classified
<1>6. ASSUME stage = "slots"
      PROVE  /\ Passed \in Nat /\ Passed' = Passed + 1 /\ Passed' \in DOMAIN Slots
             /\ Head(todo) = Slots[Passed']
  <2>1. Len(todo) <= Len(Slots) /\ todo[1] = Slots[Passed + 1]
    BY <1>3, <1>6 DEF RemovalInv, AtSlots
  <2>2. Passed \in Nat /\ Passed' = Passed + 1 /\ Passed' \in 1..Len(Slots)
    BY <1>2, <1>3, <2>1, SlotFacts DEF Passed
  <2>3. QED
    BY <1>2, <2>1, <2>2, SlotFacts
<1>7. QED
  BY <1>1, <1>2, <1>3, <1>4, <1>5, <1>6

\* One removal from the file takes one name, in whatever case, and no other file's.
LEMMA NativeLoss ==
  ASSUME RemovalInv, RemoveNext, store = "native"
  PROVE  /\ records' = records /\ native' \in [Files -> SUBSET Attrs]
         /\ \A f \in Files : native'[f] \subseteq native[f]
         /\ \A f \in Files \ {file} : native'[f] = native[f]
         /\ Fold(Head(todo)) \in Prefixed
         /\ \A n \in native[file] \ native'[file] : Fold(n) = Fold(Head(todo))
         /\ Attached' \subseteq Attached
         /\ \A n \in Attached' : Fold(n) # Fold(Head(todo))
         /\ \A n \in Removed' \ Removed : Fold(n) = Fold(Head(todo)) /\ n \in Attrs
         /\ Carried' = Carried /\ Stored' = Stored /\ Components' = Components
<1> DEFINE n == Head(todo)
<1>1. /\ native' = [native EXCEPT ![file] =
                      IF removal.platform = "linux" /\ n \notin inventory THEN @
                      ELSE {a \in @ : Fold(a) # Fold(n)}]
      /\ records' = records
  BY LoopStep DEF RemoveAttribute
<1>2. file \in Files /\ native \in [Files -> SUBSET Attrs]
  BY DEF RemovalInv, RemovalTypeOK
<1>3. UNCHANGED <<removal, stage, file, envelope, start, foreign>>
  BY LoopStep
<1>4. Fold(n) \in Prefixed
  <2>1. CASE stage = "slots"
    <3>1. n \in Prefixed
      BY <2>1, LoopStep, SlotFacts
    <3>2. QED
      BY <3>1, RemovalAssumption DEF Fold
  <2>2. CASE stage = "flush"
    <3>1. InNamespace(n, "native")
      BY <2>2, LoopStep DEF RemovalInv, RemovalTypeOK
    <3>2. QED
      BY <3>1 DEF InNamespace
  <2>3. QED
    BY <2>1, <2>2, LoopStep
<1> HIDE DEF n
<1>5. /\ native' \in [Files -> SUBSET Attrs]
      /\ \A f \in Files \ {file} : native'[f] = native[f]
      /\ native'[file] = IF removal.platform = "linux" /\ n \notin inventory THEN native[file]
                         ELSE {a \in native[file] : Fold(a) # Fold(n)}
  BY <1>1, <1>2
<1>6. /\ \A f \in Files : native'[f] \subseteq native[f]
      /\ \A a \in native[file] \ native'[file] : Fold(a) = Fold(n)
  BY <1>5
<1>7. Attached' \subseteq Attached
  BY <1>2, <1>3, <1>6 DEF Attached, InNamespace, Fold
<1>8. \A a \in Attached' : Fold(a) # Fold(n)
  <2>1. CASE removal.platform = "linux"
    BY <1>7, <2>1, NothingOnLinux DEF RemovalInv
  <2>2. CASE removal.platform # "linux"
    BY <1>3, <1>5, <2>2 DEF Attached
  <2>3. QED
    BY <2>1, <2>2
<1>9. \A a \in Removed' \ Removed : Fold(a) = Fold(n) /\ a \in Attrs
  BY <1>2, <1>3, <1>6 DEF Removed
<1>10. Carried' = Carried /\ Stored' = Stored /\ Components' = Components
  BY <1>1, <1>3 DEF Carried, Stored, Components
<1>11. QED
  BY <1>1, <1>4, <1>5, <1>6, <1>7, <1>8, <1>9, <1>10 DEF n

\* What a round of the loop leaves alone whatever it works on.
LEMMA LoopKeeps ==
  ASSUME RemovalInv, RemoveNext
  PROVE  Untouched' /\ Classified' /\ AtSlots'
<1>1. Untouched' /\ Classified'
  BY LoopStep DEF RemovalInv, Untouched, Classified, BeforeRemoval
<1>2. AtSlots'
  <2>1. stage' # "inventory" /\ stage' # "hook"
    BY LoopStep
  <2>2. ASSUME stage' = "slots", NEW i \in 1..Len(todo') PROVE todo'[i] = Slots[Passed' + i]
    <3>1. stage = "slots" /\ i + 1 \in 1..Len(todo) /\ todo'[i] = todo[i + 1]
      BY <2>2, LoopStep
    <3>2. todo[i + 1] = Slots[Passed + (i + 1)]
      BY <3>1 DEF RemovalInv, AtSlots
    <3>3. Passed + (i + 1) = Passed' + i
      BY <3>1, LoopStep
    <3>4. QED
      BY <3>1, <3>2, <3>3
  <2>3. stage' = "slots" => Len(todo') <= Len(Slots)
    BY LoopStep, SlotFacts DEF RemovalInv, AtSlots
  <2>4. QED
    BY <2>1, <2>2, <2>3 DEF AtSlots
<1>3. QED
  BY <1>1, <1>2

LEMMA NativeStep ==
  ASSUME RemovalInv, RemoveNext, store = "native"
  PROVE  RemovalInv'
<1> DEFINE n == Head(todo)
<1>1. /\ UNCHANGED <<removal, stage, store, entry, file, out, inventory, envelope, start, foreign,
                     interference, records>>
      /\ stage \in {"slots", "flush"} /\ Carried' = Carried /\ Stored' = Stored
      /\ Components' = Components /\ Attached' \subseteq Attached
  BY LoopStep, NativeLoss
<1>2. RemovalTypeOK'
  <2>1. stage = "flush" => \A m \in Range(todo') : InNamespace(m, store)
    BY LoopStep DEF RemovalInv, RemovalTypeOK
  <2>2. stage = "flush" => \A m \in Range(todo') : InNamespace(m, store)'
    BY <1>1, <2>1 DEF InNamespace, Fold
  <2>3. todo' \in Seq(Attrs \cup Entries) /\ native' \in [Files -> SUBSET Attrs]
    BY LoopStep, NativeLoss
  <2>4. QED
    BY <1>1, <2>2, <2>3 DEF RemovalInv, RemovalTypeOK
<1>3. SlotNames' = SlotNames
  BY <1>1 DEF SlotNames, Named, Fold
<1>4. ASSUME stage = "slots"
      PROVE  \A i \in 1..Passed' : Named(i)' \cap Attached' = {}
  <2>1. ASSUME NEW i \in 1..Passed' PROVE Named(i) \cap Attached' = {}
    <3>1. Passed \in Nat /\ Passed' = Passed + 1 /\ Passed' \in DOMAIN Slots /\ n = Slots[Passed']
      BY <1>4, LoopStep
    <3>2. CASE i \in 1..Passed
      <4>1. Named(i) \cap Attached = {}
        BY <1>4, <3>2 DEF RemovalInv, NativeSoFar
      <4>2. QED
        BY <1>1, <4>1
    <3>3. CASE i = Passed'
      BY <3>1, <3>3, NativeLoss DEF Named
    <3>4. QED
      BY <2>1, <3>1, <3>2, <3>3
  <2>2. QED
    BY <1>1, <2>1 DEF Named, Fold
<1>5. ASSUME stage = "flush"
      PROVE  /\ SlotNames' \cap Attached' = {}
             /\ \A a \in Attached' : \E m \in Range(todo') : Fold(a)' = Fold(m)'
  <2>1. SlotNames \cap Attached = {}
    BY <1>5 DEF RemovalInv, NativeSoFar
  <2>2. ASSUME NEW a \in Attached' PROVE \E m \in Range(todo') : Fold(a) = Fold(m)
    <3>1. PICK m \in Range(todo) : Fold(a) = Fold(m)
      BY <1>1, <1>5, <2>2 DEF RemovalInv, NativeSoFar
    <3>2. m # n
      BY <2>2, <3>1, NativeLoss
    <3>3. m \in Range(todo')
      BY <3>2, LoopStep
    <3>4. QED
      BY <3>1, <3>3
  <2>3. QED
    BY <1>1, <1>3, <2>1, <2>2 DEF Fold
<1>6. NativeSoFar'
  <2>1. \A f \in Files : Possible(native[f])'
    <3>1. \A f \in Files : native'[f] \subseteq native[f]
      BY NativeLoss
    <3>2. QED
      BY <1>1, <3>1 DEF RemovalInv, NativeSoFar, Possible
  <2>2. QED
    BY <1>1, <1>4, <1>5, <2>1 DEF NativeSoFar, AfterFlushes
<1>7. CarrierSoFar'
  BY <1>1 DEF RemovalInv, CarrierSoFar, AfterFlushes
<1>8. EnvelopeSoFar'
  BY <1>1 DEF RemovalInv, EnvelopeSoFar, AfterFlushes, HasHook
<1>9. RemovalOrder'
  <2>1. ASSUME NEW i \in DOMAIN Slots, NEW j \in DOMAIN Slots, j < i, Named(i) \cap Removed' # {}
        PROVE  Named(j) \cap Attached' = {}
    <3>1. CASE Named(i) \cap Removed # {}
      <4>1. Named(j) \cap Attached = {}
        BY <2>1, <3>1 DEF RemovalInv, RemovalOrder
      <4>2. QED
        BY <1>1, <4>1
    <3>2. CASE Named(i) \cap Removed = {}
      <4>1. PICK a \in Named(i) : a \in Removed' \ Removed
        BY <2>1, <3>2
      <4>2. Fold(a) = Fold(n)
        BY <4>1, NativeLoss
      <4>3. CASE stage = "slots"
        <5>1. Passed' \in DOMAIN Slots /\ n = Slots[Passed']
          BY <4>3, LoopStep
        <5>2. a \in Named(Passed')
          BY <4>1, <4>2, <5>1 DEF Named
        <5>3. i = Passed'
          BY <4>1, <5>1, <5>2, NamedFacts
        <5>4. j \in 1..Passed'
          BY <2>1, <5>3, SlotFacts
        <5>5. Named(j)' = Named(j)
          BY <1>1 DEF Named, Fold
        <5>6. QED
          BY <1>4, <4>3, <5>4, <5>5
      <4>4. CASE stage = "flush"
        <5>1. SlotNames \cap Attached' = {}
          BY <1>3, <1>5, <4>4
        <5>2. QED
          BY <2>1, <5>1 DEF SlotNames
      <4>5. QED
        BY <1>1, <4>3, <4>4
    <3>3. QED
      BY <3>1, <3>2
  <2>2. ASSUME Removed' \ SlotNames # {}
        PROVE  SlotNames \cap Attached' = {} /\ (HasHook("native") => Components' = {})
    <3>1. CASE Removed \ SlotNames # {}
      BY <1>1, <3>1 DEF RemovalInv, RemovalOrder
    <3>2. CASE Removed \ SlotNames = {}
      <4>1. PICK a \in Removed' \ Removed : a \notin SlotNames
        BY <2>2, <3>2
      <4>2. Fold(a) = Fold(n) /\ a \in Attrs
        BY <4>1, NativeLoss
      <4>3. stage # "slots"
        <5>1. ASSUME stage = "slots" PROVE FALSE
          <6>1. Passed' \in DOMAIN Slots /\ n = Slots[Passed']
            BY <5>1, LoopStep
          <6>2. a \in Named(Passed')
            BY <4>2, <6>1 DEF Named
          <6>3. QED
            BY <4>1, <6>1, <6>2 DEF SlotNames
        <5>2. QED
          BY <5>1
      <4>4. stage = "flush"
        BY <1>1, <4>3
      <4>5. HasHook("native") => Components = {}
        BY <4>4 DEF RemovalInv, EnvelopeSoFar
      <4>6. QED
        BY <1>1, <1>3, <1>5, <4>4, <4>5
    <3>3. QED
      BY <3>1, <3>2
  <2>3. records' = start'.records
    BY <1>1 DEF RemovalInv, CarrierSoFar
  <2>4. (\E e \in Entries \ Range(Slots) : e \notin foreign' /\ envelope'[e] # start'.envelope[e])
          => Attached' = {} /\ Carried' = {}
    BY <1>1 DEF RemovalInv, EnvelopeSoFar
  <2>5. QED
    BY <1>1, <1>3, <2>1, <2>2, <2>3, <2>4 DEF RemovalOrder, Named, Fold, HasHook
<1>10. QED
  BY <1>2, <1>6, <1>7, <1>8, <1>9, LoopKeeps DEF RemovalInv

---------------------------------------------------------------------------
(* Records of the carrier *)

LEMMA CarrierLoss ==
  ASSUME RemovalInv, RemoveNext, store = "carrier"
  PROVE  /\ native' = native /\ records' \in Seq(Attrs) /\ Range(records') = Range(records) \ {Head(todo)}
         /\ Head(todo) \in Prefixed
         /\ Carried' = Carried \ {Head(todo)}
         /\ Attached' = Attached /\ Removed' = Removed /\ Stored' = Stored /\ Components' = Components
<1> DEFINE n == Head(todo)
<1>1. records' = Only(records, Attrs \ {n}) /\ native' = native
  BY LoopStep DEF RemoveAttribute
<1>2. records \in Seq(Attrs)
  BY DEF RemovalInv, RemovalTypeOK
<1>3. n \in Prefixed
  <2>1. CASE stage = "slots"
    BY <2>1, LoopStep, SlotFacts
  <2>2. CASE stage = "flush"
    <3>1. InNamespace(n, store)
      BY <2>2, LoopStep DEF RemovalInv, RemovalTypeOK
    <3>2. QED
      BY <3>1 DEF InNamespace
  <2>3. QED
    BY <2>1, <2>2, LoopStep
<1> HIDE DEF n
<1>4. records' \in Seq(Attrs)
  BY <1>1, <1>2, OnlyRange
<1>5. Range(records') = Range(records) \cap (Attrs \ {n})
  BY <1>1, <1>2, OnlyRange
<1>6. Range(records) \subseteq Attrs
  BY <1>2 DEF Range
<1>7. Range(records') = Range(records) \ {n}
  BY <1>5, <1>6
<1>8. Carried' = Carried \ {n}
  BY <1>7 DEF Carried
<1>9. UNCHANGED <<removal, file, envelope, start, foreign>>
  BY LoopStep
<1>10. Attached' = Attached /\ Removed' = Removed /\ Stored' = Stored /\ Components' = Components
  BY <1>1, <1>9 DEF Attached, Removed, Stored, Components, InNamespace, Fold
<1>11. QED
  BY <1>1, <1>3, <1>4, <1>7, <1>8, <1>10 DEF n

LEMMA CarrierStep ==
  ASSUME RemovalInv, RemoveNext, store = "carrier"
  PROVE  RemovalInv'
<1> DEFINE n == Head(todo)
<1>1. /\ UNCHANGED <<removal, stage, store, entry, file, out, inventory, envelope, start, foreign,
                     interference, native>>
      /\ stage \in {"slots", "flush"} /\ Stored' = Stored /\ Removed' = Removed
      /\ Components' = Components /\ Attached' = Attached
      /\ Range(records') = Range(records) \ {n} /\ Carried' = Carried \ {n}
  BY LoopStep, CarrierLoss
<1>2. Attached = {}
  BY DEF RemovalInv, NativeSoFar
<1>3. removal.carrier # "none"
  BY DEF RemovalInv, CarrierSoFar
<1>4. RemovalTypeOK'
  <2>1. stage = "flush" => \A m \in Range(todo') : InNamespace(m, store)
    BY LoopStep DEF RemovalInv, RemovalTypeOK
  <2>2. stage = "flush" => \A m \in Range(todo') : InNamespace(m, store)'
    BY <1>1, <2>1 DEF InNamespace, Fold
  <2>3. todo' \in Seq(Attrs \cup Entries) /\ records' \in Seq(Attrs)
    BY LoopStep, CarrierLoss
  <2>4. QED
    BY <1>1, <2>2, <2>3 DEF RemovalInv, RemovalTypeOK
<1>5. NativeSoFar'
  <2>1. \A f \in Files : Possible(native[f])'
    BY <1>1 DEF RemovalInv, NativeSoFar, Possible
  <2>2. QED
    BY <1>1, <1>2, <2>1 DEF NativeSoFar, AfterFlushes
<1>6. CarrierSoFar'
  <2>1. stage = "slots" => Range(start.records) \ Range(records') \subseteq Range(Slots)
    <3>1. ASSUME stage = "slots" PROVE n \in Range(Slots)
      BY <3>1, LoopStep DEF Range
    <3>2. QED
      BY <1>1, <3>1 DEF RemovalInv, CarrierSoFar
  <2>2. stage = "flush" => Carried' \subseteq Range(todo')
    BY <1>1, LoopStep DEF RemovalInv, CarrierSoFar
  <2>3. QED
    BY <1>1, <1>3, <2>1, <2>2 DEF CarrierSoFar, AfterFlushes
<1>7. EnvelopeSoFar'
  BY <1>1 DEF RemovalInv, EnvelopeSoFar, AfterFlushes, HasHook
<1>8. RemovalOrder'
  <2>1. Range(start.records) \ Range(records') \subseteq Range(Slots) \/ (removal.bundle => Components = {})
    <3>1. CASE stage = "slots"
      BY <1>1, <1>6, <3>1 DEF CarrierSoFar
    <3>2. CASE stage = "flush"
      BY <3>2 DEF RemovalInv, EnvelopeSoFar, HasHook
    <3>3. QED
      BY <1>1, <3>1, <3>2
  <2>2. (\E e \in Entries \ Range(Slots) : e \notin foreign' /\ envelope'[e] # start'.envelope[e])
          => Attached' = {} /\ Carried' = {}
    BY <1>1 DEF RemovalInv, EnvelopeSoFar
  <2>3. (Removed' \ SlotNames # {}) => (HasHook("native") => Components' = {})
    BY <1>1 DEF RemovalInv, RemovalOrder
  <2>4. QED
    BY <1>1, <1>2, <2>1, <2>2, <2>3 DEF RemovalOrder, SlotNames, Named, Fold, HasHook
<1>9. QED
  BY <1>4, <1>5, <1>6, <1>7, <1>8, LoopKeeps DEF RemovalInv

---------------------------------------------------------------------------
(* Between the loops *)

LEMMA EndSlotsStep ==
  ASSUME RemovalInv, EndSlots
  PROVE  RemovalInv'
<1> USE DEF EndSlots, Proceed, handles, objects, ghosts
<1>1. /\ stage = "slots" /\ todo = <<>> /\ stage' \in {"hook", "list"}
      /\ stage' = "hook" => HasHook(store) /\ todo' = Slots
      /\ stage' = "list" => ~HasHook(store) /\ todo' = todo
      /\ UNCHANGED <<removal, store, entry, file, out, inventory, native, records, envelope,
                     start, foreign, interference>>
  OBVIOUS
<1> HIDE DEF EndSlots
<1>2. todo' \in Seq(Attrs \cup Entries) /\ out = file
  BY <1>1, SlotFacts DEF RemovalInv, RemovalTypeOK, Classified
<1>3. RemovalTypeOK'
  BY <1>1, <1>2 DEF RemovalInv, RemovalTypeOK, RemovalStages
<1>4. Untouched' /\ Classified' /\ AtSlots'
  BY <1>1, <1>2, SlotFacts DEF RemovalInv, Untouched, Classified, AtSlots, BeforeRemoval, Passed
<1>5. NativeSoFar'
  <2>1. \A f \in Files : Possible(native[f])'
    BY <1>1 DEF RemovalInv, NativeSoFar, Possible
  <2>2. store = "native" => SlotNames \cap Attached = {}
    <3>1. Passed = Len(Slots) /\ DOMAIN Slots = 1..Len(Slots)
      BY <1>1, SlotFacts DEF Passed
    <3>2. store = "native" => \A i \in 1..Passed : Named(i) \cap Attached = {}
      BY <1>1 DEF RemovalInv, NativeSoFar
    <3>3. QED
      BY <3>1, <3>2 DEF SlotNames
  <2>3. QED
    BY <1>1, <2>1, <2>2, Same DEF RemovalInv, NativeSoFar, AfterFlushes
<1>6. CarrierSoFar'
  BY <1>1, Same DEF RemovalInv, CarrierSoFar, AfterFlushes
<1>7. EnvelopeSoFar'
  <2>1. stage' = "hook" => Passed' = 0
    BY <1>1, SlotFacts DEF Passed
  <2>2. HasHook(store)' = HasHook(store)
    BY <1>1 DEF HasHook
  <2>3. QED
    BY <1>1, <2>1, <2>2, Same DEF RemovalInv, EnvelopeSoFar, AfterFlushes
<1>8. RemovalOrder'
  BY <1>1, Same DEF RemovalInv
<1>9. QED
  BY <1>3, <1>4, <1>5, <1>6, <1>7, <1>8 DEF RemovalInv

\* A component is deleted after the slots of the last store.
LEMMA RemoveComponentStep ==
  ASSUME RemovalInv, RemoveComponent
  PROVE  RemovalInv'
<1> DEFINE n == Head(todo)
<1>1. /\ stage = "hook" /\ todo # <<>> /\ envelope' = [envelope EXCEPT ![n] = "absent"]
      /\ todo' = SubSeq(todo, 2, Len(todo))
      /\ UNCHANGED <<removal, stage, store, entry, file, out, inventory, native, records,
                     start, foreign, interference>>
  BY DEF RemoveComponent, handles, ghosts
<1>2. todo \in Seq(Attrs \cup Entries) /\ envelope \in [Entries -> {"absent", "file", "directory"}]
  BY DEF RemovalInv, RemovalTypeOK
<1>3. /\ todo' \in Seq(Attrs \cup Entries) /\ Len(todo') = Len(todo) - 1 /\ Len(todo) >= 1
      /\ \A i \in 1..Len(todo') : todo'[i] = todo[i + 1]
  BY <1>1, <1>2, TodoTail
<1>4. Head(todo) = todo[1] /\ Len(todo) \in Nat
  BY <1>1, <1>2
<1>5. /\ Passed \in Nat /\ Passed' = Passed + 1 /\ Passed' \in DOMAIN Slots /\ n = Slots[Passed']
      /\ Len(todo') <= Len(Slots)
  <2>1. Len(todo) <= Len(Slots) /\ todo[1] = Slots[Passed + 1]
    BY <1>1, <1>3, <1>4 DEF RemovalInv, AtSlots
  <2>2. Passed \in Nat /\ Passed' = Passed + 1 /\ Passed' \in 1..Len(Slots)
    BY <1>3, <1>4, <2>1, SlotFacts DEF Passed
  <2>3. QED
    BY <1>3, <1>4, <2>1, <2>2, SlotFacts
<1>6. n \in Entries /\ n \in Range(Slots)
  BY <1>5, SlotFacts DEF Range
<1> HIDE DEF n
<1>7. /\ envelope' \in [Entries -> {"absent", "file", "directory"}] /\ envelope'[n] = "absent"
      /\ \A e \in Entries \ {n} : envelope'[e] = envelope[e]
  BY <1>1, <1>2, <1>6
<1>8. RemovalTypeOK'
  BY <1>1, <1>3, <1>7 DEF RemovalInv, RemovalTypeOK
<1>9. Untouched' /\ Classified'
  BY <1>1 DEF RemovalInv, Untouched, Classified, BeforeRemoval
<1>10. AtSlots'
  <2>1. ASSUME NEW i \in 1..Len(todo') PROVE todo'[i] = Slots[Passed' + i]
    <3>1. i + 1 \in 1..Len(todo) /\ todo'[i] = todo[i + 1]
      BY <1>3, <1>4
    <3>2. todo[i + 1] = Slots[Passed + (i + 1)]
      BY <1>1, <3>1 DEF RemovalInv, AtSlots
    <3>3. Passed + (i + 1) = Passed' + i
      BY <1>3, <1>4, <1>5
    <3>4. QED
      BY <3>1, <3>2, <3>3
  <2>2. QED
    BY <1>1, <1>5, <2>1 DEF AtSlots
<1>11. /\ Attached' = Attached /\ Carried' = Carried /\ Removed' = Removed /\ SlotNames' = SlotNames
       /\ Stored' = Stored \ {n} /\ Components' = Components \ {n}
  <2>1. Attached' = Attached /\ Carried' = Carried /\ Removed' = Removed /\ SlotNames' = SlotNames
    BY <1>1 DEF Attached, Carried, Removed, SlotNames, Named, InNamespace, Fold
  <2>2. Stored' = Stored \ {n}
    BY <1>1, <1>7 DEF Stored
  <2>3. QED
    BY <2>1, <2>2 DEF Components
<1>12. NativeSoFar'
  <2>1. \A f \in Files : Possible(native[f])'
    BY <1>1 DEF RemovalInv, NativeSoFar, Possible
  <2>2. QED
    BY <1>1, <1>11, <2>1 DEF RemovalInv, NativeSoFar, AfterFlushes
<1>13. CarrierSoFar'
  BY <1>1, <1>11 DEF RemovalInv, CarrierSoFar, AfterFlushes
<1>14. EnvelopeSoFar'
  <2>1. ASSUME NEW i \in 1..Passed' PROVE Slots[i] \notin Stored'
    <3>1. CASE i \in 1..Passed
      BY <1>1, <1>11, <3>1 DEF RemovalInv, EnvelopeSoFar
    <3>2. CASE i = Passed'
      BY <1>5, <1>11, <3>2
    <3>3. QED
      BY <1>5, <3>1, <3>2
  <2>2. HasHook(store)'
    BY <1>1 DEF RemovalInv, EnvelopeSoFar, HasHook
  <2>3. removal.bundle
    BY <1>1 DEF RemovalInv, EnvelopeSoFar, HasHook
  <2>4. \A e \in (Entries \ Range(Slots)) \ foreign : envelope'[e] = start.envelope[e]
    BY <1>1, <1>6, <1>7 DEF RemovalInv, EnvelopeSoFar
  <2>5. QED
    BY <1>1, <2>1, <2>2, <2>3, <2>4 DEF EnvelopeSoFar, AfterFlushes
<1>15. RemovalOrder'
  <2>1. \A e \in Entries \ Range(Slots) : e \notin foreign => envelope'[e] = start.envelope[e]
    BY <1>1, <1>6, <1>7 DEF RemovalInv, EnvelopeSoFar
  <2>2. QED
    BY <1>1, <1>11, <2>1 DEF RemovalInv, RemovalOrder, Named, Fold, HasHook
<1>16. QED
  BY <1>8, <1>9, <1>10, <1>12, <1>13, <1>14, <1>15 DEF RemovalInv

LEMMA EndHookStep ==
  ASSUME RemovalInv, EndHook
  PROVE  RemovalInv'
<1>1. /\ stage = "hook" /\ todo = <<>> /\ stage' = "list"
      /\ UNCHANGED <<removal, store, todo, entry, file, out, inventory, native, records, envelope,
                     start, foreign, interference>>
  BY DEF EndHook, Proceed, handles, objects, ghosts
<1>2. RemovalTypeOK'
  BY <1>1 DEF RemovalInv, RemovalTypeOK, RemovalStages
<1>3. Untouched' /\ Classified' /\ AtSlots'
  BY <1>1 DEF RemovalInv, Untouched, Classified, AtSlots, BeforeRemoval
<1>4. NativeSoFar'
  <2>1. \A f \in Files : Possible(native[f])'
    BY <1>1 DEF RemovalInv, NativeSoFar, Possible
  <2>2. QED
    BY <1>1, <2>1, Same DEF RemovalInv, NativeSoFar, AfterFlushes
<1>5. CarrierSoFar'
  BY <1>1, Same DEF RemovalInv, CarrierSoFar, AfterFlushes
<1>6. EnvelopeSoFar'
  <2>1. Components = {}
    <3>1. Passed = Len(Slots) /\ DOMAIN Slots = 1..Len(Slots)
      BY <1>1, SlotFacts DEF Passed
    <3>2. \A i \in 1..Passed : Slots[i] \notin Stored
      BY <1>1 DEF RemovalInv, EnvelopeSoFar
    <3>3. QED
      BY <3>1, <3>2 DEF Components, Range
  <2>2. removal.bundle
    BY <1>1 DEF RemovalInv, EnvelopeSoFar, HasHook
  <2>3. QED
    BY <1>1, <2>1, <2>2, Same DEF RemovalInv, EnvelopeSoFar, AfterFlushes
<1>7. RemovalOrder'
  BY <1>1, Same DEF RemovalInv
<1>8. QED
  BY <1>2, <1>3, <1>4, <1>5, <1>6, <1>7 DEF RemovalInv

\* Attributes of a file, and with it the members of the namespace, are finite.
LEMMA ListingsCover ==
  ASSUME RemovalInv, NEW l \in Listings(store), out = file
  PROVE  /\ l \in Seq(Attrs) /\ \A n \in Range(l) : InNamespace(n, store)
         /\ store = "native" => Attached \subseteq Range(l)
         /\ store = "carrier" => Carried \subseteq Range(l)
<1>1. CASE store = "native"
  <2> DEFINE S == {n \in native[out] : InNamespace(n, store)}
  <2>1. S \subseteq Attrs
    BY DEF RemovalInv, RemovalTypeOK
  <2>2. IsFiniteSet(S)
    BY <2>1, FS_Subset, RemovalAssumption
  <2>3. l \in SetToSeqs(S)
    BY <1>1 DEF Listings
  <2> HIDE DEF S
  <2>4. l \in Seq(S) /\ Range(l) = S
    BY <2>2, <2>3, OrderRange
  <2>5. l \in Seq(Attrs)
    BY <2>1, <2>4
  <2>6. Attached \subseteq S
    BY <1>1 DEF Attached, S
  <2>7. \A n \in S : InNamespace(n, store)
    BY DEF S
  <2>8. QED
    BY <1>1, <2>4, <2>5, <2>6, <2>7
<1>2. CASE store = "carrier"
  <2> DEFINE S == {n \in Attrs : InNamespace(n, store)}
  <2>1. l = Only(records, S) /\ records \in Seq(Attrs)
    BY <1>2 DEF Listings, RemovalInv, RemovalTypeOK
  <2>2. S = Prefixed
    BY <1>2, RemovalAssumption DEF InNamespace
  <2> HIDE DEF S
  <2>3. l \in Seq(Attrs)
    BY <2>1, OnlyRange
  <2>4. Range(l) = Range(records) \cap S
    BY <2>1, OnlyRange
  <2>5. QED
    BY <1>2, <2>2, <2>3, <2>4 DEF Carried, InNamespace
<1>3. QED
  BY <1>1, <1>2 DEF RemovalInv, RemovalTypeOK

LEMMA ListNamesStep ==
  ASSUME RemovalInv, ListNames
  PROVE  RemovalInv'
<1>1. /\ stage = "list" /\ todo' \in Listings(store) /\ stage' = "flush"
      /\ UNCHANGED <<removal, store, entry, file, out, inventory, native, records, envelope,
                     start, foreign, interference>>
  BY DEF ListNames, Proceed, handles, objects, ghosts
<1>2. out = file
  BY <1>1 DEF RemovalInv, Classified
<1>3. todo' \in Seq(Attrs) /\ \A n \in Range(todo') : InNamespace(n, store)
  BY <1>1, <1>2, ListingsCover
<1>4. /\ store = "native" => Attached \subseteq Range(todo')
      /\ store = "carrier" => Carried \subseteq Range(todo')
  BY <1>1, <1>2, ListingsCover
<1>5. RemovalTypeOK'
  <2>1. todo' \in Seq(Attrs \cup Entries)
    BY <1>3
  <2>2. \A n \in Range(todo') : InNamespace(n, store)'
    BY <1>1, <1>3 DEF InNamespace, Fold
  <2>3. QED
    BY <1>1, <2>1, <2>2 DEF RemovalInv, RemovalTypeOK, RemovalStages
<1>6. Untouched' /\ Classified' /\ AtSlots'
  BY <1>1 DEF RemovalInv, Untouched, Classified, AtSlots, BeforeRemoval
<1>7. NativeSoFar'
  <2>1. \A f \in Files : Possible(native[f])'
    BY <1>1 DEF RemovalInv, NativeSoFar, Possible
  <2>2. QED
    BY <1>1, <1>4, <2>1, Same DEF RemovalInv, NativeSoFar, AfterFlushes
<1>8. CarrierSoFar'
  BY <1>1, <1>4, Same DEF RemovalInv, CarrierSoFar, AfterFlushes
<1>9. EnvelopeSoFar'
  <2>1. HasHook(store)' = HasHook(store)
    BY <1>1 DEF HasHook
  <2>2. QED
    BY <1>1, <2>1, Same DEF RemovalInv, EnvelopeSoFar, AfterFlushes
<1>10. RemovalOrder'
  BY <1>1, Same DEF RemovalInv
<1>11. QED
  BY <1>5, <1>6, <1>7, <1>8, <1>9, <1>10 DEF RemovalInv

\* Nothing is left where the loops are over.
LEMMA NothingLeft ==
  ASSUME RemovalInv, stage = "flush", todo = <<>>
  PROVE  /\ Attached = {}
         /\ store = "native" => records = start.records
         /\ store = "carrier" \/ removal.carrier = "none" => Carried = {} /\ Components = {}
         /\ ~removal.bundle => Stored = {}
<1>1. Range(todo) = {}
  BY DEF Range
<1>2. store \in {"native", "carrier"} /\ records \in Seq(Attrs)
  BY DEF RemovalInv, RemovalTypeOK
<1>3. Attached = {}
  BY <1>1, <1>2 DEF RemovalInv, NativeSoFar
<1>4. ~removal.bundle => Stored = {}
  BY DEF RemovalInv, EnvelopeSoFar, Stored
<1>5. ASSUME store = "carrier" \/ removal.carrier = "none" PROVE Carried = {}
  <2>1. CASE store = "carrier"
    BY <1>1, <2>1 DEF RemovalInv, CarrierSoFar
  <2>2. CASE removal.carrier = "none"
    <3>1. records = <<>>
      BY <2>2 DEF RemovalInv, CarrierSoFar
    <3>2. Range(records) = {}
      BY <3>1 DEF Range
    <3>3. QED
      BY <3>2 DEF Carried
  <2>3. QED
    BY <1>5, <2>1, <2>2
<1>6. ASSUME store = "carrier" \/ removal.carrier = "none" PROVE Components = {}
  <2>1. CASE removal.bundle
    <3>1. HasHook(store)
      BY <1>6, <2>1 DEF HasHook
    <3>2. QED
      BY <3>1 DEF RemovalInv, EnvelopeSoFar
  <2>2. CASE ~removal.bundle
    BY <1>4, <2>2 DEF Components
  <2>3. QED
    BY <2>1, <2>2
<1>7. QED
  BY <1>2, <1>3, <1>4, <1>5, <1>6 DEF RemovalInv, CarrierSoFar

LEMMA EndFlushStep ==
  ASSUME RemovalInv, EndFlush
  PROVE  RemovalInv'
<1>1. /\ stage = "flush" /\ todo = <<>>
      /\ UNCHANGED <<removal, entry, file, out, inventory, native, records, envelope,
                     start, foreign, interference>>
  BY DEF EndFlush, Proceed, handles, objects, ghosts
<1>2. \A f \in Files : Possible(native[f])'
  BY <1>1 DEF RemovalInv, NativeSoFar, Possible
<1>3. RemovalOrder'
  BY <1>1, Same DEF RemovalInv
<1>4. CASE store = "native" /\ removal.carrier # "none"
  <2>1. store' = "carrier" /\ stage' = "slots" /\ todo' = Slots
    BY <1>4 DEF EndFlush
  <2>2. RemovalTypeOK'
    BY <1>1, <2>1, SlotFacts DEF RemovalInv, RemovalTypeOK, RemovalStages
  <2>3. Untouched' /\ Classified' /\ AtSlots'
    BY <1>1, <2>1, SlotFacts DEF RemovalInv, Untouched, Classified, AtSlots, BeforeRemoval, Passed
  <2>4. NativeSoFar'
    BY <1>1, <1>2, <2>1, NothingLeft, Same DEF NativeSoFar, AfterFlushes
  <2>5. CarrierSoFar'
    BY <1>1, <1>4, <2>1, NothingLeft DEF CarrierSoFar, AfterFlushes
  <2>6. EnvelopeSoFar'
    BY <1>1, <2>1 DEF RemovalInv, EnvelopeSoFar, AfterFlushes
  <2>7. QED
    BY <1>3, <2>2, <2>3, <2>4, <2>5, <2>6 DEF RemovalInv
<1>5. CASE ~(store = "native" /\ removal.carrier # "none")
  <2>1. /\ stage' = (IF removal.bundle THEN "purge" ELSE "done") /\ todo' = todo /\ store' = store
        /\ store = "carrier" \/ removal.carrier = "none"
    BY <1>5 DEF EndFlush, Proceed, RemovalInv, RemovalTypeOK
  <2>2. RemovalTypeOK'
    BY <1>1, <2>1 DEF RemovalInv, RemovalTypeOK, RemovalStages
  <2>3. Untouched' /\ Classified' /\ AtSlots'
    BY <1>1, <2>1 DEF RemovalInv, Untouched, Classified, AtSlots, BeforeRemoval
  <2>4. NativeSoFar'
    BY <1>1, <1>2, <2>1, NothingLeft, Same DEF NativeSoFar, AfterFlushes
  <2>5. CarrierSoFar'
    BY <1>1, <2>1, NothingLeft, Same DEF RemovalInv, CarrierSoFar, AfterFlushes
  <2>6. EnvelopeSoFar'
    BY <1>1, <2>1, NothingLeft, Same DEF RemovalInv, EnvelopeSoFar, AfterFlushes
  <2>7. QED
    BY <1>3, <2>2, <2>3, <2>4, <2>5, <2>6 DEF RemovalInv
<1>6. QED
  BY <1>4, <1>5

---------------------------------------------------------------------------
(* The purge *)

LEMMA BeginPurgeStep ==
  ASSUME RemovalInv, BeginPurge
  PROVE  RemovalInv'
<1> DEFINE S == {e \in Entries : envelope[e] # "absent"}
<1>1. /\ stage = "purge" /\ todo' \in SetToSeqs(S) /\ stage' = "purging"
      /\ UNCHANGED <<removal, store, entry, file, out, inventory, native, records, envelope,
                     start, foreign, interference>>
  BY DEF BeginPurge, Proceed, handles, objects, ghosts
<1>2. IsFiniteSet(S) /\ S \subseteq Entries
  BY FS_Subset, RemovalAssumption
<1>3. Stored \subseteq S
  BY DEF Stored
<1> HIDE DEF S
<1>4. todo' \in Seq(S) /\ Range(todo') = S
  BY <1>1, <1>2, OrderRange
<1>5. todo' \in Seq(Attrs \cup Entries)
  BY <1>2, <1>4
<1>6. RemovalTypeOK'
  BY <1>1, <1>5 DEF RemovalInv, RemovalTypeOK, RemovalStages
<1>7. Untouched' /\ Classified' /\ AtSlots'
  BY <1>1 DEF RemovalInv, Untouched, Classified, AtSlots, BeforeRemoval
<1>8. NativeSoFar'
  <2>1. \A f \in Files : Possible(native[f])'
    BY <1>1 DEF RemovalInv, NativeSoFar, Possible
  <2>2. QED
    BY <1>1, <2>1, Same DEF RemovalInv, NativeSoFar, AfterFlushes
<1>9. CarrierSoFar'
  BY <1>1, Same DEF RemovalInv, CarrierSoFar, AfterFlushes
<1>10. EnvelopeSoFar'
  BY <1>1, <1>3, <1>4, Same DEF RemovalInv, EnvelopeSoFar, AfterFlushes
<1>11. RemovalOrder'
  BY <1>1, Same DEF RemovalInv
<1>12. QED
  BY <1>6, <1>7, <1>8, <1>9, <1>10, <1>11 DEF RemovalInv

LEMMA PurgeNextStep ==
  ASSUME RemovalInv, PurgeNext
  PROVE  RemovalInv'
<1> DEFINE n == Head(todo)
<1>1. /\ stage = "purging" /\ todo # <<>> /\ envelope' = [envelope EXCEPT ![n] = "absent"]
      /\ todo' = SubSeq(todo, 2, Len(todo))
      /\ UNCHANGED <<removal, stage, store, entry, file, out, inventory, native, records,
                     start, foreign, interference>>
  BY DEF PurgeNext, handles, ghosts
<1>2. todo \in Seq(Attrs \cup Entries) /\ envelope \in [Entries -> {"absent", "file", "directory"}]
  BY DEF RemovalInv, RemovalTypeOK
<1>3. todo' \in Seq(Attrs \cup Entries)
  BY <1>1, <1>2, TodoTail
<1>4. Range(todo) = {n} \cup Range(todo')
  BY <1>1, <1>2, TodoTail
<1> HIDE DEF n
<1>5. /\ envelope' \in [Entries -> {"absent", "file", "directory"}]
      /\ \A e \in Entries : envelope'[e] = IF e = n THEN "absent" ELSE envelope[e]
  BY <1>1, <1>2
<1>6. Attached' = Attached /\ Carried' = Carried
  BY <1>1 DEF Attached, Carried, InNamespace, Fold
<1>7. Attached = {} /\ Carried = {} /\ Components = {} /\ removal.bundle /\ Stored \subseteq Range(todo)
  BY <1>1, RemovalFacts DEF RemovalInv, NativeSoFar, CarrierSoFar, EnvelopeSoFar, AfterFlushes
<1>8. Stored' = Stored \ {n}
  BY <1>1, <1>5 DEF Stored
<1>9. Components' = {}
  BY <1>7, <1>8 DEF Components
<1>10. RemovalTypeOK'
  BY <1>1, <1>3, <1>5 DEF RemovalInv, RemovalTypeOK
<1>11. Untouched' /\ Classified' /\ AtSlots'
  BY <1>1 DEF RemovalInv, Untouched, Classified, AtSlots, BeforeRemoval
<1>12. NativeSoFar'
  <2>1. \A f \in Files : Possible(native[f])'
    BY <1>1 DEF RemovalInv, NativeSoFar, Possible
  <2>2. QED
    BY <1>1, <1>6, <1>7, <2>1 DEF NativeSoFar, AfterFlushes
<1>13. CarrierSoFar'
  BY <1>1, <1>6 DEF RemovalInv, CarrierSoFar, AfterFlushes
<1>14. EnvelopeSoFar'
  BY <1>1, <1>4, <1>7, <1>8, <1>9 DEF EnvelopeSoFar, AfterFlushes
<1>15. RemovalOrder'
  BY <1>6, <1>7, <1>9 DEF RemovalInv, RemovalOrder, CarrierSoFar
<1>16. QED
  BY <1>10, <1>11, <1>12, <1>13, <1>14, <1>15 DEF RemovalInv

LEMMA EndPurgeStep ==
  ASSUME RemovalInv, EndPurge
  PROVE  RemovalInv'
<1>1. /\ stage = "purging" /\ todo = <<>> /\ stage' = "done"
      /\ UNCHANGED <<removal, store, todo, entry, file, out, inventory, native, records, envelope,
                     start, foreign, interference>>
  BY DEF EndPurge, Proceed, handles, objects, ghosts
<1>2. Stored = {}
  <2>1. Range(todo) = {}
    BY <1>1 DEF Range
  <2>2. QED
    BY <1>1, <2>1 DEF RemovalInv, EnvelopeSoFar
<1>3. RemovalTypeOK'
  BY <1>1 DEF RemovalInv, RemovalTypeOK, RemovalStages
<1>4. Untouched' /\ Classified' /\ AtSlots'
  BY <1>1 DEF RemovalInv, Untouched, Classified, AtSlots, BeforeRemoval
<1>5. NativeSoFar'
  <2>1. \A f \in Files : Possible(native[f])'
    BY <1>1 DEF RemovalInv, NativeSoFar, Possible
  <2>2. QED
    BY <1>1, <2>1, Same DEF RemovalInv, NativeSoFar, AfterFlushes
<1>6. CarrierSoFar'
  BY <1>1, Same DEF RemovalInv, CarrierSoFar, AfterFlushes
<1>7. EnvelopeSoFar'
  BY <1>1, <1>2, Same DEF RemovalInv, EnvelopeSoFar, AfterFlushes
<1>8. RemovalOrder'
  BY <1>1, Same DEF RemovalInv
<1>9. QED
  BY <1>3, <1>4, <1>5, <1>6, <1>7, <1>8 DEF RemovalInv

LEMMA FailStep ==
  ASSUME RemovalInv, FailRemoval
  PROVE  RemovalInv'
<1>1. /\ stage' = "failed"
      /\ UNCHANGED <<removal, store, todo, entry, file, out, inventory, native, records, envelope,
                     start, foreign, interference>>
  BY DEF FailRemoval, Proceed, handles, objects, ghosts
<1>2. RemovalTypeOK'
  BY <1>1 DEF RemovalInv, RemovalTypeOK, RemovalStages
<1>3. Untouched' /\ Classified' /\ AtSlots'
  BY <1>1 DEF Untouched, Classified, AtSlots, BeforeRemoval
<1>4. NativeSoFar'
  <2>1. \A f \in Files : Possible(native[f])'
    BY <1>1 DEF RemovalInv, NativeSoFar, Possible
  <2>2. QED
    BY <1>1, <2>1, Same DEF RemovalInv, NativeSoFar, AfterFlushes
<1>5. CarrierSoFar' /\ EnvelopeSoFar'
  BY <1>1 DEF RemovalInv, CarrierSoFar, EnvelopeSoFar, AfterFlushes
<1>6. RemovalOrder'
  BY <1>1, Same DEF RemovalInv
<1>7. QED
  BY <1>2, <1>3, <1>4, <1>5, <1>6 DEF RemovalInv

---------------------------------------------------------------------------
(* Other programs *)

\* What they do never adds to what the operation has to remove, or removed.
Interfered ==
  /\ UNCHANGED <<removal, stage, store, todo, file, out, inventory, records, start>>
  /\ foreign \subseteq foreign'
  /\ Attached' \subseteq Attached /\ Removed' \subseteq Removed
  /\ \A e \in Entries : e \notin foreign' => envelope'[e] = envelope[e]
  /\ removal.bundle \/ envelope' = envelope
  /\ \A f \in Files : start.native[f] \ native'[f] \subseteq (start.native[f] \ native[f]) \cup foreign'
  /\ \A f \in Files : Possible(native[f])'
  /\ RemovalTypeOK'

LEMMA InterferedStep ==
  ASSUME RemovalInv, Interfered
  PROVE  RemovalInv'
<1> USE DEF Interfered
<1>1. Stored' \subseteq Stored /\ Components' \subseteq Components /\ Carried' = Carried
  <2>1. Stored' \subseteq Stored
    BY DEF Stored
  <2>2. QED
    BY <2>1 DEF Components, Carried
<1>2. \A e \in (Entries \ Range(Slots)) \ foreign' : envelope[e] = start.envelope[e] => envelope'[e] = start'.envelope[e]
  OBVIOUS
<1>3. SlotNames' = SlotNames
  BY DEF SlotNames, Named, Fold
<1>4. Untouched'
  BY DEF RemovalInv, Untouched
<1>5. Classified' /\ AtSlots'
  BY DEF RemovalInv, Classified, AtSlots, Passed, BeforeRemoval
<1>6. NativeSoFar'
  <2>1. Passed' = Passed
    BY DEF Passed
  <2>2. store = "native" /\ stage = "slots" => \A i \in 1..Passed' : Named(i)' \cap Attached' = {}
    BY <2>1 DEF RemovalInv, NativeSoFar, Named, Fold
  <2>3. store = "native" /\ stage = "flush" =>
          \A n \in Attached' : \E m \in Range(todo') : Fold(n)' = Fold(m)'
    BY DEF RemovalInv, NativeSoFar, Fold
  <2>4. store = "native" /\ stage \in {"hook", "list", "flush"} => SlotNames \cap Attached = {}
    BY DEF RemovalInv, NativeSoFar
  <2>5. store = "carrier" \/ stage \in AfterFlushes => Attached' = {}
    BY DEF RemovalInv, NativeSoFar
  <2>6. QED
    BY <1>3, <2>2, <2>3, <2>4, <2>5 DEF NativeSoFar
<1>7. CarrierSoFar'
  BY <1>1 DEF RemovalInv, CarrierSoFar
<1>8. EnvelopeSoFar'
  <2>1. ~removal.bundle => stage \notin {"purge", "purging"} /\ \A e \in Entries : envelope'[e] = "absent"
    BY DEF RemovalInv, EnvelopeSoFar
  <2>2. stage = "hook" => HasHook(store)' /\ \A i \in 1..Passed' : Slots[i] \notin Stored'
    BY <1>1 DEF RemovalInv, EnvelopeSoFar, Passed, HasHook
  <2>3. stage \in {"list", "flush"} /\ HasHook(store)' => Components' = {}
    BY <1>1 DEF RemovalInv, EnvelopeSoFar, HasHook
  <2>4. /\ stage \in AfterFlushes => Components' = {}
        /\ stage = "purging" => Stored' \subseteq Range(todo)
        /\ stage = "done" => Stored' = {}
    BY <1>1 DEF RemovalInv, EnvelopeSoFar
  <2>5. stage \notin {"purging", "done", "failed"} =>
          \A e \in (Entries \ Range(Slots)) \ foreign' : envelope'[e] = start'.envelope[e]
    BY <1>2 DEF RemovalInv, EnvelopeSoFar
  <2>6. QED
    BY <2>1, <2>2, <2>3, <2>4, <2>5 DEF EnvelopeSoFar
<1>9. RemovalOrder'
  <2>1. \A i \in DOMAIN Slots, j \in DOMAIN Slots :
          j < i /\ Named(i) \cap Removed' # {} => Named(j) \cap Attached' = {}
    BY DEF RemovalInv, RemovalOrder
  <2>2. Removed' \ SlotNames # {} =>
          SlotNames \cap Attached' = {} /\ (HasHook("native") => Components' = {})
    BY <1>1 DEF RemovalInv, RemovalOrder
  <2>3. records # start.records => Attached' = {}
    BY DEF RemovalInv, RemovalOrder
  <2>4. Range(start.records) \ Range(records) \subseteq Range(Slots) \/ (removal.bundle => Components' = {})
    BY <1>1 DEF RemovalInv, RemovalOrder
  <2>5. (\E e \in Entries \ Range(Slots) : e \notin foreign' /\ envelope'[e] # start'.envelope[e])
          => Attached' = {} /\ Carried' = {}
    BY <1>1, <1>2 DEF RemovalInv, RemovalOrder
  <2>6. QED
    BY <1>3, <2>1, <2>2, <2>3, <2>4, <2>5 DEF RemovalOrder, Named, Fold, HasHook
<1>10. QED
  BY <1>4, <1>5, <1>6, <1>7, <1>8, <1>9 DEF RemovalInv

LEMMA OtherProgramsStep ==
  ASSUME RemovalInv, OtherPrograms
  PROVE  RemovalInv'
<1>1. /\ native \in [Files -> SUBSET Attrs] /\ envelope \in [Entries -> {"absent", "file", "directory"}]
      /\ interference \in Nat /\ file \in Files /\ foreign \subseteq Attrs \cup Entries
      /\ MaxInterference \in Nat
  BY RemovalAssumption DEF RemovalInv, RemovalTypeOK
<1>2. ASSUME Interfere
      PROVE  /\ UNCHANGED <<removal, stage, store, todo, file, out, inventory, start>>
             /\ interference' \in 0..MaxInterference
  BY <1>1, <1>2 DEF Interfere, control, handles
<1>3. ASSUME NEW S, NEW on, UNCHANGED removal PROVE InNamespace(S, on)' = InNamespace(S, on)
  BY <1>3 DEF InNamespace, Fold
<1>4. \A f \in Files : Possible(native[f])
  BY DEF RemovalInv, NativeSoFar
<1>5. ASSUME NEW f \in Files, NEW n \in Attrs, Tag(f, n) PROVE Interfered
  <2>1. /\ native' = [native EXCEPT ![f] = @ \cup {n}] /\ foreign' = foreign \cup {n}
        /\ UNCHANGED <<entry, records, envelope>> /\ Possible(native[f] \cup {n}) /\ Interfere
    BY <1>5 DEF Tag
  <2>2. /\ native' \in [Files -> SUBSET Attrs] /\ native'[f] = native[f] \cup {n}
        /\ \A g \in Files \ {f} : native'[g] = native[g]
    BY <1>1, <2>1
  <2>3. RemovalTypeOK'
    BY <1>1, <1>2, <2>1, <2>2 DEF RemovalInv, RemovalTypeOK, InNamespace, Fold
  <2>4. \A g \in Files : Possible(native[g])'
    BY <1>2, <1>4, <2>1, <2>2 DEF Possible
  <2>5. Attached' \subseteq Attached
    BY <1>1, <1>2, <2>1, <2>2 DEF Attached, InNamespace, Fold
  <2>6. Removed' \subseteq Removed
    BY <1>1, <1>2, <2>1, <2>2 DEF Removed
  <2>7. QED
    BY <1>2, <2>1, <2>2, <2>3, <2>4, <2>5, <2>6 DEF Interfered
<1>6. ASSUME NEW f \in Files, NEW n \in Attrs, Untag(f, n) PROVE Interfered
  <2>1. /\ native' = [native EXCEPT ![f] = @ \ {n}] /\ foreign' = foreign \cup {n}
        /\ UNCHANGED <<entry, records, envelope>> /\ Interfere
    BY <1>6 DEF Untag
  <2>2. /\ native' \in [Files -> SUBSET Attrs] /\ native'[f] = native[f] \ {n}
        /\ \A g \in Files \ {f} : native'[g] = native[g]
    BY <1>1, <2>1
  <2>3. RemovalTypeOK'
    BY <1>1, <1>2, <2>1, <2>2 DEF RemovalInv, RemovalTypeOK, InNamespace, Fold
  <2>4. \A g \in Files : Possible(native[g])'
    BY <1>2, <1>4, <2>1, <2>2 DEF Possible
  <2>5. Attached' \subseteq Attached
    BY <1>1, <1>2, <2>1, <2>2 DEF Attached, InNamespace, Fold
  <2>6. Removed' \subseteq Removed
    BY <1>1, <1>2, <2>1, <2>2 DEF Removed
  <2>7. QED
    BY <1>2, <2>1, <2>2, <2>3, <2>4, <2>5, <2>6 DEF Interfered
<1>7. ASSUME NEW e \in Entries, NEW kind \in {"file", "directory"}, Plant(e, kind) PROVE Interfered
  <2>1. /\ envelope' = [envelope EXCEPT ![e] = kind] /\ foreign' = foreign \cup {e} /\ removal.bundle
        /\ UNCHANGED <<entry, records, native>> /\ Interfere
    BY <1>7 DEF Plant
  <2>2. /\ envelope' \in [Entries -> {"absent", "file", "directory"}]
        /\ \A d \in Entries \ {e} : envelope'[d] = envelope[d]
    BY <1>1, <2>1
  <2>3. RemovalTypeOK'
    BY <1>1, <1>2, <2>1, <2>2 DEF RemovalInv, RemovalTypeOK, InNamespace, Fold
  <2>4. \A g \in Files : Possible(native[g])'
    BY <1>2, <1>4, <2>1 DEF Possible
  <2>5. Attached' \subseteq Attached /\ Removed' \subseteq Removed
    BY <1>2, <2>1 DEF Attached, InNamespace, Fold, Removed
  <2>6. QED
    BY <1>2, <2>1, <2>2, <2>3, <2>4, <2>5 DEF Interfered
<1>8. ASSUME NEW f \in Files, Replace(f) PROVE Interfered
  <2>1. entry' = f /\ UNCHANGED <<native, records, envelope, foreign>> /\ Interfere
    BY <1>8 DEF Replace, objects
  <2>2. RemovalTypeOK'
    BY <1>1, <1>2, <2>1 DEF RemovalInv, RemovalTypeOK, InNamespace, Fold
  <2>3. \A g \in Files : Possible(native[g])'
    BY <1>2, <1>4, <2>1 DEF Possible
  <2>4. Attached' \subseteq Attached /\ Removed' \subseteq Removed
    BY <1>2, <2>1, Same
  <2>5. QED
    BY <1>2, <2>1, <2>2, <2>3, <2>4 DEF Interfered
<1>9. Interfered
  BY <1>5, <1>6, <1>7, <1>8 DEF OtherPrograms
<1>10. QED
  BY <1>9, InterferedStep

LEMMA RemovalInitHolds ==
  ASSUME RemovalInit
  PROVE  RemovalInv
<1>1. /\ removal \in Removals /\ stage = "open" /\ store = "native" /\ todo = <<>>
      /\ entry = Original /\ file = Original /\ out = Original
      /\ native \in [Files -> {S \in SUBSET Attrs : Possible(S)}] /\ inventory = {}
      /\ start = [native |-> native, records |-> records, envelope |-> envelope]
      /\ foreign = {} /\ interference = 0
  BY DEF RemovalInit
<1>2. native \in [Files -> SUBSET Attrs] /\ \A f \in Files : Possible(native[f])
  BY <1>1
<1>3. records \in Seq(Attrs) /\ (removal.carrier = "none" => records = <<>>)
  <2>1. IsFiniteSet(Prefixed) /\ Prefixed \subseteq Attrs
    BY RemovalAssumption, FS_Subset
  <2>2. SetToSeq(Attrs) \in Seq(Attrs) /\ SetToSeq(Prefixed) \in Seq(Prefixed)
    BY <2>1, RemovalAssumption, SetToSeqType
  <2>3. SetToSeq(Prefixed) \in Seq(Attrs)
    BY <2>1, <2>2
  <2>4. SetToSeq(Attrs) \o SetToSeq(Prefixed) \in Seq(Attrs) /\ <<>> \in Seq(Attrs)
    BY <2>2, <2>3
  <2>5. CASE removal.carrier = "none"
    BY <2>4, <2>5 DEF RemovalInit
  <2>6. CASE removal.carrier # "none"
    <3>1. records \in {SetToSeq(Attrs), SetToSeq(Attrs) \o SetToSeq(Prefixed), <<>>}
      BY <2>6 DEF RemovalInit
    <3>2. QED
      BY <2>2, <2>4, <2>6, <3>1
  <2>7. QED
    BY <2>5, <2>6
<1>4. /\ envelope \in [Entries -> {"absent", "file", "directory"}]
      /\ ~removal.bundle => \A e \in Entries : envelope[e] = "absent"
  <2>1. \/ envelope = [e \in Entries |-> "file"] /\ removal.bundle
        \/ envelope = [e \in Entries |-> "absent"]
    BY DEF RemovalInit
  <2>2. QED
    BY <2>1
<1>5. RemovalTypeOK
  BY <1>1, <1>2, <1>3, <1>4, RemovalAssumption DEF RemovalTypeOK, RemovalStages
<1>6. Untouched /\ Classified /\ AtSlots /\ NativeSoFar /\ CarrierSoFar /\ EnvelopeSoFar
  BY <1>1, <1>2, <1>3, <1>4
     DEF Untouched, Classified, AtSlots, NativeSoFar, CarrierSoFar, EnvelopeSoFar, AfterFlushes
<1>7. Removed = {} /\ records = start.records /\ envelope = start.envelope
  BY <1>1 DEF Removed
<1>8. RemovalOrder
  BY <1>7 DEF RemovalOrder
<1>9. QED
  BY <1>5, <1>6, <1>8 DEF RemovalInv

---------------------------------------------------------------------------
(* Theorems *)

\* The stages of a removal, for any slots, names, entries and other programs.
THEOREM RemovalInvariant == RemovalSpec => []RemovalInv
<1>1. RemovalInit => RemovalInv
  BY RemovalInitHolds
<1>2. RemovalInv /\ [RemovalNext]_removalVars => RemovalInv'
  <2> SUFFICES ASSUME RemovalInv, [RemovalNext]_removalVars PROVE RemovalInv'
    OBVIOUS
  <2>1. CASE Removing
    BY <2>1, OpenStep, CandidateStep, ReopenStep, InventoryStep, NativeStep, CarrierStep, EndSlotsStep,
       RemoveComponentStep, EndHookStep, ListNamesStep, EndFlushStep, BeginPurgeStep, PurgeNextStep,
       EndPurgeStep, FailStep DEF Removing, RemovalInv, RemovalTypeOK
  <2>2. CASE OtherPrograms
    BY <2>2, OtherProgramsStep
  <2>3. CASE UNCHANGED removalVars
    <3>1. Interfered
      BY <2>3, Same DEF removalVars, control, handles, objects, ghosts, RemovalInv, Interfered, RemovalTypeOK,
         NativeSoFar, InNamespace, Fold, Possible
    <3>2. QED
      BY <3>1, InterferedStep
  <2>4. QED
    BY <2>1, <2>2, <2>3 DEF RemovalNext
<1>3. QED
  BY <1>1, <1>2, PTL DEF RemovalSpec

\* A removal that succeeds leaves nothing of the seal in the file, the carrier or
\* the directory, but for what other programs changed, and whatever stops one
\* earlier leaves a prefix of the order of removal.
THEOREM SealIsRemovedAlways == RemovalSpec => []SealIsRemoved
<1>1. RemovalInv => SealIsRemoved
  <2> SUFFICES ASSUME RemovalInv PROVE SealIsRemoved
    OBVIOUS
  <2>1. SuccessRemovesSeal
    BY DEF RemovalInv, SuccessRemovesSeal, NativeSoFar, CarrierSoFar, EnvelopeSoFar, AfterFlushes
  <2>2. QED
    BY <2>1 DEF RemovalInv, SealIsRemoved
<1>2. QED
  BY <1>1, RemovalInvariant, PTL

\* Whatever takes the name meanwhile, only names of the seal go, and only from the
\* file that was classified, which is no program.
THEOREM OnlySealRemovedHolds == RemovalSpec => OnlySealRemoved
<1> DEFINE Loses ==
      interference' = interference =>
        /\ \A f \in Files \ {file} : native'[f] = native[f]
        /\ \A n \in native[file] \ native'[file] : InNamespace(n, "native")
        /\ \A n \in Range(records) \ Range(records') : n \in Prefixed
        /\ objects' # objects => ~Foreign(removal.headers)
<1>1. RemovalInv /\ [RemovalNext]_removalVars => Loses
  <2> SUFFICES ASSUME RemovalInv, [RemovalNext]_removalVars, interference' = interference PROVE Loses
    OBVIOUS
  <2>1. CASE objects' = objects
    BY <2>1 DEF objects
  <2>2. CASE RemoveNext /\ store = "native"
    <3>1. records' = records /\ \A f \in Files \ {file} : native'[f] = native[f]
      BY <2>2, NativeLoss
    <3>2. \A n \in native[file] \ native'[file] : InNamespace(n, "native")
      BY <2>2, NativeLoss DEF InNamespace
    <3>3. ~Foreign(removal.headers)
      BY <2>2, LoopStep
    <3>4. QED
      BY <3>1, <3>2, <3>3
  <2>3. CASE RemoveNext /\ store = "carrier"
    <3>1. native' = native /\ \A n \in Range(records) \ Range(records') : n \in Prefixed
      BY <2>3, CarrierLoss
    <3>2. ~Foreign(removal.headers)
      BY <2>3, LoopStep
    <3>3. QED
      BY <3>1, <3>2
  <2>4. CASE RemoveComponent \/ PurgeNext
    <3>1. native' = native /\ records' = records /\ stage \in {"hook", "purging"}
      BY <2>4 DEF RemoveComponent, PurgeNext
    <3>2. ~Foreign(removal.headers)
      BY <3>1 DEF RemovalInv, Classified
    <3>3. QED
      BY <3>1, <3>2
  <2>5. CASE OtherPrograms
    <3>1. interference \in Nat /\ interference' = interference + 1
      <4>1. interference \in Nat
        BY RemovalAssumption DEF RemovalInv, RemovalTypeOK
      <4>2. Interfere
        BY <2>5 DEF OtherPrograms, Tag, Untag, Plant, Replace
      <4>3. QED
        BY <4>1, <4>2 DEF Interfere
    <3>2. QED
      BY <3>1
  <2>6. CASE UNCHANGED removalVars
    BY <2>1, <2>6 DEF removalVars
  <2>7. CASE Removing /\ ~RemoveNext /\ ~RemoveComponent /\ ~PurgeNext
    <3>1. objects' = objects
      BY <2>7 DEF Removing, Open, genericRemovalCandidate, Reopen, Inventory, EndSlots, EndHook, ListNames,
         EndFlush, BeginPurge, EndPurge, FailRemoval
    <3>2. QED
      BY <2>1, <3>1
  <2>8. store \in {"native", "carrier"}
    BY DEF RemovalInv, RemovalTypeOK
  <2>9. QED
    BY <2>2, <2>3, <2>4, <2>5, <2>6, <2>7, <2>8 DEF RemovalNext, Removing
<1>2. QED
  BY <1>1, RemovalInvariant, PTL DEF RemovalSpec, OnlySealRemoved
=============================================================================
