------------------------ MODULE CredentialLifecycle -------------------------
(***************************************************************************)
(* What cookie rotation promises about the stored credential, without the  *)
(* journal, the lock, processes or failures.                               *)
(*                                                                         *)
(* Revisions are numbered in the order they are created.  The credential   *)
(* is replaced by an import, which is always a new revision, or by the     *)
(* successor the server granted to the very revision that is stored.       *)
(* Successors may be forgotten at any time.                                *)
(***************************************************************************)
EXTENDS Naturals

VARIABLES
  credential,   \* the stored credential: its revision and kind
  successors,   \* successors granted and not forgotten
  fresh         \* the next unused revision

vars == <<credential, successors, fresh>>

Kinds == {"absent", "cookie", "bearer"}

Init ==
  /\ credential \in [revision : Nat, kind : Kinds]
  /\ fresh \in Nat
  /\ credential.revision < fresh
  /\ successors \subseteq [source : Nat, succ : Nat]
  /\ \A s \in successors : s.source < s.succ /\ s.succ < fresh

Forget == successors' \subseteq successors

\* An import, or one that failed before it became visible.
Import ==
  /\ fresh' = fresh + 1
  /\ \/ UNCHANGED credential
     \/ \E kind \in Kinds : credential' = [revision |-> fresh, kind |-> kind]
  /\ Forget

\* The server answers a refresh of some earlier revision.
Grant ==
  /\ \E source \in 0 .. fresh - 1 :
       successors' \subseteq successors \cup {[source |-> source, succ |-> fresh]}
  /\ fresh' = fresh + 1
  /\ UNCHANGED credential

\* The successor of the stored revision, and of no other, is adopted.
Adopt ==
  /\ \E s \in successors :
       /\ s.source = credential.revision
       /\ credential' = [revision |-> s.succ, kind |-> "cookie"]
  /\ Forget
  /\ UNCHANGED fresh

Lose ==
  /\ Forget
  /\ UNCHANGED <<credential, fresh>>

Next == Import \/ Grant \/ Adopt \/ Lose

Spec == Init /\ [][Next]_vars

\* Every known successor is newer than its source and was created already.
SuccessorsAreNewer ==
  /\ credential.revision < fresh
  /\ \A s \in successors : s.source < s.succ /\ s.succ < fresh

\* The stored revision never goes back.
NeverOlder == [][credential'.revision >= credential.revision]_vars
=============================================================================
