---------------------------- MODULE Publication ----------------------------
(***************************************************************************)
(* What signing or stripping standalone Mach-O files promises to whoever    *)
(* opens a name: the contents of a name change in one step, from what they  *)
(* were to a complete file with a signature over exactly its own payload or *)
(* with none; no other name, hard links included, is affected; and an       *)
(* operation does this at most once.                                        *)
(***************************************************************************)
EXTENDS Sequences

CONSTANTS Signers, Names, Unsigned

VARIABLES
  target,   \* target[s]: the name that operation s was given
  status,   \* status[s]: "pending", "published" or "failed"
  content   \* content[n]: the payload and the seal that a reader of n finds

vars == <<target, status, content>>

Init ==
  /\ target \in [Signers -> Names]
  /\ status = [s \in Signers |-> "pending"]
  /\ DOMAIN content = Names

\* The new file is sealed as it is; content' is otherwise left open, since the
\* payload is the one that s read at some time.
Publish(s) ==
  LET new == content'[target[s]] IN
  /\ status[s] = "pending"
  /\ status' = [status EXCEPT ![s] = "published"]
  /\ new.seal \in {Unsigned, new.pages}
  /\ content' = [content EXCEPT ![target[s]] = new]
  /\ UNCHANGED target

Fail(s) ==
  /\ status[s] = "pending"
  /\ status' = [status EXCEPT ![s] = "failed"]
  /\ UNCHANGED <<target, content>>

\* Another program writes into a file, and every name of that file shows it.
Write ==
  /\ \E linked \in SUBSET Names, new \in {content'[n] : n \in Names} :
       content' = [n \in Names |-> IF n \in linked
                                   THEN [content[n] EXCEPT !.pages = new.pages]
                                   ELSE content[n]]
  /\ UNCHANGED <<target, status>>

Next == (\E s \in Signers : Publish(s) \/ Fail(s)) \/ Write

Spec == Init /\ [][Next]_vars
=============================================================================
