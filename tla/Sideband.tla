------------------------------ MODULE Sideband ------------------------------
(***************************************************************************)
(* The policy on resource forks and Finder information of a code object or  *)
(* a resource: signingSideband (Strip, then First) while signing; while     *)
(* verifying, Observe when the object is hashed and First or Inspect of     *)
(* what was observed when it is validated.  Carriers that the caller        *)
(* supplies are bound to the object they name.  The file's queries are      *)
(* separate steps, so that other programs change attributes between them.   *)
(***************************************************************************)
EXTENDS Integers, Sequences, FiniteSets, SequencesExt

CONSTANTS
  Jobs,        \* the options an operation may be given
  Hosts,       \* how the file system may answer
  Paths,       \* names of objects under which carriers may be supplied
  ObjectOf,    \* ObjectOf[p]: the object that p names
  Held,        \* the object that is signed or verified
  MaxChanges   \* bound: steps of other programs

Forks == {"ResourceFork", "FinderInfo"}

ASSUME SidebandAssumption ==
  /\ Jobs \subseteq [signs : BOOLEAN, resource : BOOLEAN, strip : BOOLEAN,
                     noStrict : BOOLEAN, mutable : BOOLEAN, supplied : SUBSET Paths]
  /\ Hosts \subseteq [platform : {"darwin", "linux", "windows"}, inventory : {"ok", "EIO"},
                      denied : [Forks -> {"ok", "EPERM", "EIO"}], close : {"ok", "EPERM", "EIO"}]
  /\ DOMAIN ObjectOf = Paths
  /\ MaxChanges \in Nat

VARIABLES
  job, host,
  pc,        \* the stage in progress
  step,      \* the number of the next query or removal of that stage
  attr,      \* attr[a]: "absent", "empty" or "full" on the held object
  carrier,   \* nonempty attributes in its carrier, if one is bound
  seen,      \* the Observation: listed names, and an answer for each attribute
  verdict,   \* the set of names that are reported, or {"error"}
  cancelled, \* the context
  bound,     \* prepareBundleSideband: there is a carrier for the object
  shot,      \* history: what the file system answers when the object is hashed
  changed,   \* history: attributes that another program changed
  changes    \* its steps so far

history == <<shot, changed, changes>>
options == <<job, host>>
vars == <<options, pc, step, attr, carrier, seen, verdict, cancelled, bound, history>>

Goto(label) == pc' = label /\ step' = 1

---------------------------------------------------------------------------
(* inspectPolicy *)

\* Only presence queries of Darwin ignore EPERM.
Excused(answer) == host.platform = "darwin" /\ answer.error = "EPERM"

\* Whether attribute a of an inventory or observation is prohibited.
Native(o, a) ==
  IF host.platform = "linux" /\ a \notin o.listed THEN {}
  ELSE IF Excused(o.size[a]) THEN {}
  ELSE IF o.size[a].error # "ok" THEN {"error"}
  ELSE IF o.size[a].full THEN {a} ELSE {}

Listing(o) == IF host.platform = "linux" /\ o.inventory # "ok" THEN {"error"} ELSE {}

\* The queries in order: each finds nothing, a name or an error.
Queries(o, c) == <<Listing(o), Native(o, "ResourceFork"), c \cap {"ResourceFork"},
                   Native(o, "FinderInfo"), c \cap {"FinderInfo"}>>

\* Mutant of First: every match is reported.
FirstAll(o, c) == UNION Range(Queries(o, c))

\* A code object is rejected at the first match; what follows is not asked for.
First(o, c) ==
  LET q == Queries(o, c)
      hits == {i \in DOMAIN q : q[i] # {}}
  IN IF hits = {} THEN {} ELSE q[CHOOSE i \in hits : \A j \in hits : i <= j]

\* A resource may report both names, and any failure.
Inspect(o, c) ==
  LET all == UNION Range(Queries(o, c)) IN IF "error" \in all THEN {"error"} ELSE all

\* inspectCarrier of what is bound to the object.
Carrier == IF bound THEN carrier ELSE {}

\* The answers that the file system gives now.
Size(a) == [error |-> host.denied[a], full |-> attr[a] = "full"]
Names == IF host.inventory = "ok" THEN {a \in Forks : attr[a] # "absent"} ELSE {}
Live == [listed |-> Names, inventory |-> host.inventory, size |-> [a \in Forks |-> Size(a)]]

---------------------------------------------------------------------------
(* Carriers *)

\* Mutant of prepareBundleSideband: a carrier is found by its path only.
BindByPath ==
  /\ pc = "bind"
  /\ bound' = ("path" \in job.supplied)
  /\ Goto(IF job.signs THEN "sign" ELSE "observe")
  /\ UNCHANGED <<options, attr, carrier, seen, verdict, cancelled, history>>

\* The carrier of the held object, found by identity: an alias binds like a path.
BoundByIdentity == \E p \in job.supplied : ObjectOf[p] = Held

\* Two carriers for one object are refused.
prepareBundleSideband ==
  /\ pc = "bind"
  /\ IsInjective([p \in job.supplied |-> ObjectOf[p]])
  /\ bound' = BoundByIdentity
  /\ Goto(IF job.signs THEN "sign" ELSE "observe")
  /\ UNCHANGED <<options, attr, carrier, seen, verdict, cancelled, history>>

---------------------------------------------------------------------------
(* Signing *)

Report(names) ==
  /\ verdict' = names
  /\ Goto("done")
  /\ UNCHANGED <<options, attr, carrier, seen, cancelled, bound, history>>

signingSideband ==
  /\ pc = "sign"
  /\ IF job.noStrict /\ ~(job.resource /\ job.strip) THEN Report({})
     ELSE /\ Goto(IF job.strip THEN "strip" ELSE "first")
          /\ UNCHANGED <<options, attr, carrier, seen, verdict, cancelled, bound, history>>

\* Strip: the listing, the two attributes of the file, those of the carrier.
StripOrder == <<"list", "ResourceFork", "FinderInfo", "carrier", "carrier">>

\* Mutant of StripNative: an attribute that has no contents goes as well.
StripPresent ==
  LET a == StripOrder[step] IN
  /\ pc = "strip" /\ step <= 3 /\ ~cancelled
  /\ IF a = "list" THEN Listing(Live) = {} /\ seen' = Live /\ UNCHANGED attr
     ELSE /\ attr' = [attr EXCEPT ![a] = "absent"]
          /\ UNCHANGED seen
  /\ step' = step + 1
  /\ UNCHANGED <<options, pc, carrier, verdict, cancelled, bound, history>>

\* stripNative: each nonempty attribute is removed right after its query.  The
\* callback fails on errors of a query, except where First ignores them.
StripNative ==
  LET a == StripOrder[step] IN
  /\ pc = "strip" /\ step <= 3 /\ ~cancelled
  /\ IF a = "list" THEN Listing(Live) = {} /\ seen' = Live /\ UNCHANGED attr
     ELSE LET now == [Live EXCEPT !.listed = seen.listed] IN
          /\ Native(now, a) # {"error"}
          /\ attr' = [attr EXCEPT ![a] = IF a \in Native(now, a) THEN "absent" ELSE @]
          /\ UNCHANGED seen
  /\ step' = step + 1
  /\ UNCHANGED <<options, pc, carrier, verdict, cancelled, bound, history>>

\* What the carrier has next, if anything; it must be mutable to lose it.
StripCarrier ==
  /\ pc = "strip" /\ step > 3 /\ ~cancelled
  /\ IF Carrier = {} THEN /\ host.close = "ok"
                          /\ IF job.noStrict THEN Goto("done") ELSE Goto("first")
                          /\ UNCHANGED carrier
     ELSE /\ job.mutable
          /\ carrier' = carrier \ (IF "ResourceFork" \in carrier THEN {"ResourceFork"} ELSE carrier)
          /\ step' = step + 1 /\ UNCHANGED pc
  /\ UNCHANGED <<options, attr, seen, verdict, cancelled, bound, history>>

\* First on the file: its inventory is read once, the other queries in turn.
FirstLive ==
  LET o == IF step = 1 THEN Live ELSE [Live EXCEPT !.listed = seen.listed]
      found == Queries(o, Carrier)[step]
  IN /\ pc = "first" /\ ~cancelled
     /\ IF found # {} \/ step = 5 THEN Report(IF host.close = "ok" THEN found ELSE {"error"})
        ELSE /\ seen' = o /\ step' = step + 1
             /\ UNCHANGED <<options, pc, attr, carrier, verdict, cancelled, bound, history>>

---------------------------------------------------------------------------
(* Verification *)

ObserveOrder == <<"list", "ResourceFork", "FinderInfo">>

\* observe keeps every answer; on Linux only listed attributes are asked for.
Ask(a) ==
  IF a = "list" THEN [seen EXCEPT !.listed = Names, !.inventory = host.inventory]
  ELSE IF host.platform = "linux" /\ a \notin seen.listed THEN seen
  ELSE [seen EXCEPT !.size[a] = IF cancelled THEN [error |-> "EIO", full |-> FALSE] ELSE Size(a)]

ObserveNext ==
  /\ pc = "observe" /\ step <= 3
  /\ seen' = Ask(ObserveOrder[step])
  /\ step' = step + 1
  /\ UNCHANGED <<options, pc, attr, carrier, verdict, cancelled, bound, history>>

\* A failure to close the view is joined to every answer; joined to EPERM, or
\* if it is EPERM itself, it will be excused with it.
Joined(answer) == [answer EXCEPT !.error = IF @ = "EPERM" THEN @ ELSE host.close]

Observe ==
  /\ pc = "observe" /\ step = 4
  /\ seen' = IF host.close = "ok" THEN seen
             ELSE [listed |-> seen.listed, inventory |-> "EIO",
                   size |-> [a \in Forks |-> Joined(seen.size[a])]]
  /\ shot' = IF changes = 0 THEN <<Live>> ELSE <<>>
  /\ Goto("hashed")
  /\ UNCHANGED <<options, attr, carrier, verdict, cancelled, bound, changed, changes>>

\* Mutant of Validate: a resource is treated like a code object.
ValidateFirst ==
  /\ pc = "hashed" /\ ~cancelled
  /\ Report(First(seen, Carrier))

\* verifySideband, verifyResourceSideband: the policy on the observation.
Validate ==
  /\ pc = "hashed" /\ ~cancelled
  /\ Report(IF job.resource THEN Inspect(seen, Carrier) ELSE First(seen, Carrier))

\* A call that fails, or a cancellation that is noticed.
Fail ==
  /\ pc \notin {"done", "failed"}
  /\ Goto("failed")
  /\ verdict' = {"error"}
  /\ UNCHANGED <<options, attr, carrier, seen, cancelled, bound, history>>

---------------------------------------------------------------------------
(* The caller and other programs *)

Cancel ==
  /\ ~cancelled /\ pc \notin {"done", "failed"}
  /\ cancelled' = TRUE
  /\ UNCHANGED <<options, pc, step, attr, carrier, seen, verdict, bound, history>>

Change(a, value) ==
  /\ changes < MaxChanges /\ pc \notin {"done", "failed"}
  /\ attr[a] # value
  /\ attr' = [attr EXCEPT ![a] = value]
  /\ changed' = changed \cup {a} /\ changes' = changes + 1
  /\ UNCHANGED <<options, pc, step, carrier, seen, verdict, cancelled, bound, shot>>

---------------------------------------------------------------------------

NoAnswer == [error |-> "ok", full |-> FALSE]

Init ==
  /\ job \in Jobs /\ host \in Hosts
  /\ pc = "bind" /\ step = 1
  /\ attr \in [Forks -> {"absent", "empty", "full"}]
  /\ carrier \in SUBSET Forks
  /\ seen = [listed |-> {}, inventory |-> "ok", size |-> [a \in Forks |-> NoAnswer]]
  /\ verdict = {} /\ cancelled = FALSE /\ bound = FALSE
  /\ shot = <<>> /\ changed = {} /\ changes = 0

Operation ==
  \/ prepareBundleSideband \/ signingSideband \/ StripNative \/ StripCarrier
  \/ FirstLive \/ ObserveNext \/ Observe \/ Validate \/ Fail

Next == Operation \/ Cancel \/ \E a \in Forks, v \in {"absent", "empty", "full"} : Change(a, v)

Spec == Init /\ [][Next]_vars

---------------------------------------------------------------------------
(* Properties *)

\* A carrier was supplied for the object, under whatever name.
Supplied == \E p \in job.supplied : ObjectOf[p] = Held

\* The caller supplies a carrier for the object without using its own path: "an
\* alias cannot hide a target's explicitly supplied metadata".  What signing or
\* verification accepts has no nonempty attribute, in the file or a carrier,
\* but for what another program changed meanwhile and for what Darwin refuses
\* to say.  A view that fails to close may excuse more (see Observe).
AcceptedIsClean ==
  pc = "done" /\ verdict = {} /\ ~job.noStrict /\ host.close = "ok" =>
    /\ Supplied => carrier = {}
    /\ \A a \in Forks \ changed : attr[a] = "full" =>
         host.platform = "darwin" /\ host.denied[a] = "EPERM"

\* "Observation retains native query results": the verdict that is deferred to
\* validation, errors and their precedence included, is the one that the policy
\* gives on the object as it was hashed, whatever happens to it later.
DeferredIsLive ==
  pc = "done" /\ ~job.signs /\ shot # <<>> /\ host.close = "ok" =>
    verdict = IF job.resource THEN Inspect(shot[1], Carrier) ELSE First(shot[1], Carrier)

Prohibited == {a \in Forks : attr[a] = "full"} \ changed
Hidden == {a \in Forks : host.platform = "darwin" /\ host.denied[a] = "EPERM"}

\* "Strip removes only nonempty prohibited attributes, from the held native
\* object first, then an explicitly supplied mutable carrier"; verification
\* and signing without the option remove none.
StripOnlyProhibited ==
  [][/\ changes' = changes =>
          \A a \in Forks : attr'[a] # attr[a] => job.strip /\ job.signs /\ attr[a] = "full"
     /\ carrier' # carrier => /\ job.strip /\ job.signs /\ job.mutable /\ Supplied
                              /\ Prohibited \subseteq Hidden]_vars

Answers == [error : {"ok", "EPERM", "EIO"}, full : BOOLEAN]

\* The type of every variable; a code object is rejected for one reason.
TypeOK ==
  /\ job \in Jobs /\ host \in Hosts
  /\ pc \in {"bind", "sign", "strip", "first", "observe", "hashed", "done", "failed"}
  /\ step \in 1..6
  /\ attr \in [Forks -> {"absent", "empty", "full"}] /\ carrier \subseteq Forks
  /\ seen \in [listed : SUBSET Forks, inventory : {"ok", "EIO"}, size : [Forks -> Answers]]
  /\ verdict \subseteq Forks \cup {"error"} /\ Cardinality(verdict) <= IF job.resource THEN 2 ELSE 1
  /\ cancelled \in BOOLEAN /\ bound \in BOOLEAN
  /\ Len(shot) <= 1 /\ changed \subseteq Forks /\ changes \in 0..MaxChanges

\* What ValidateDirectorySideband, prepareBundleSideband and the checks of a
\* Mach-O accept has no prohibited attribute, native or in a carrier, and the
\* verdict formed later from an Observation is the one a live inspection gives.
PolicyHolds == TypeOK /\ AcceptedIsClean /\ DeferredIsLive
=============================================================================
