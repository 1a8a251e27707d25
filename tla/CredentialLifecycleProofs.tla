---------------------- MODULE CredentialLifecycleProofs ----------------------
(***************************************************************************)
(* What every implementation of the credential lifecycle inherits.         *)
(***************************************************************************)
EXTENDS CredentialLifecycle, TLAPS

\* The lifecycle's states are well formed.
WellFormed ==
  /\ credential \in [revision : Nat, kind : Kinds]
  /\ fresh \in Nat
  /\ successors \subseteq [source : Nat, succ : Nat]
  /\ SuccessorsAreNewer

\* Being well formed is inductive.
LEMMA StepWellFormed == WellFormed /\ [Next]_vars => WellFormed'
<1> SUFFICES ASSUME WellFormed, [Next]_vars PROVE WellFormed'
  OBVIOUS
<1>1. CASE Import
  BY <1>1 DEF Import, Forget, WellFormed, SuccessorsAreNewer
<1>2. CASE Grant
  <2>1. PICK source \in 0 .. fresh - 1 :
          successors' \subseteq successors \cup {[source |-> source, succ |-> fresh]}
    BY <1>2 DEF Grant
  <2>2. fresh' = fresh + 1 /\ UNCHANGED credential
    BY <1>2 DEF Grant
  <2>3. source \in Nat /\ source < fresh /\ fresh \in Nat
    BY DEF WellFormed
  <2> QED BY <2>1, <2>2, <2>3 DEF WellFormed, SuccessorsAreNewer
<1>3. CASE Adopt
  BY <1>3 DEF Adopt, Forget, WellFormed, SuccessorsAreNewer, Kinds
<1>4. CASE Lose
  BY <1>4 DEF Lose, Forget, WellFormed, SuccessorsAreNewer
<1>5. CASE UNCHANGED vars
  BY <1>5 DEF vars, WellFormed, SuccessorsAreNewer
<1> QED BY <1>1, <1>2, <1>3, <1>4, <1>5 DEF Next

\* A known successor is always newer than its source, and so is the next unused
\* revision newer than everything known.
THEOREM SuccessorsStayNewer == Spec => []SuccessorsAreNewer
<1>1. Init => WellFormed
  BY DEF Init, WellFormed, SuccessorsAreNewer
<1>2. WellFormed => SuccessorsAreNewer
  BY DEF WellFormed
<1> QED BY <1>1, <1>2, StepWellFormed, PTL DEF Spec

\* The stored revision never goes back.
THEOREM CredentialNeverOlder == Spec => NeverOlder
<1>1. Init => WellFormed
  BY DEF Init, WellFormed, SuccessorsAreNewer
<1>2. WellFormed /\ [Next]_vars => [credential'.revision >= credential.revision]_vars
  BY DEF WellFormed, SuccessorsAreNewer, Next, Import, Grant, Adopt, Lose, vars
<1> QED BY <1>1, <1>2, StepWellFormed, PTL DEF Spec, NeverOlder
=============================================================================
