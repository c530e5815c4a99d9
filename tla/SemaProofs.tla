----------------------------- MODULE SemaProofs -----------------------------
(***************************************************************************)
(* Proofs about module Sema, for any set of LWPs and any alphabet: the     *)
(* pipe of sema.c holds at most one token, and implements the lock that    *)
(* module BigLock specifies and module Scheduler uses.                     *)
(***************************************************************************)
EXTENDS Sema, SequenceTheorems, TLAPS

(* OneToken is inductive together with the types. *)
TokenInv == TypeOK /\ OneToken

(* sema_init leaves one token in the pipe and nobody using it. *)
LEMMA InitToken == Init => TokenInv
PROOF
<1> SUFFICES ASSUME Init PROVE TokenInv
  OBVIOUS
<1>1. TypeOK
  BY LettersAssumption DEF Init, sema_init_state, TypeOK, Where, Unset
<1>2. Users = {}
  BY DEF Init, Users
<1>3. OneToken
  BY <1>2, LwpsAssumption DEF Init, sema_init_state, OneToken, Unset
<1> QED
  BY <1>1, <1>3 DEF TokenInv

(* Every step keeps the types; sema_char wraps at the end of the alphabet. *)
LEMMA TypeStep ==
  ASSUME TokenInv, [Next]_vars
  PROVE  TypeOK'
PROOF
<1> USE LettersAssumption DEF TokenInv, TypeOK, Move, Where, next_char
<1>1. ASSUME NEW p \in Lwps, Down(p) \/ ReadInterrupted(p) \/ Own(p) \/ Disown(p)
             \/ NestedDown(p)
      PROVE  TypeOK'
  BY <1>1 DEF Down, ReadInterrupted, Own, Disown, NestedDown, vars
<1>2. ASSUME NEW p \in Lwps, ReadToken(p) PROVE TypeOK'
  BY <1>2 DEF ReadToken
<1>3. ASSUME NEW p \in Lwps, WriteToken(p) PROVE TypeOK'
  BY <1>3 DEF WriteToken
<1>4. ASSUME NEW p \in Lwps, ForkChild(p) PROVE TypeOK'
  BY <1>4 DEF ForkChild
<1>5. CASE UNCHANGED vars
  BY <1>5 DEF vars
<1> QED
  BY <1>1, <1>2, <1>3, <1>4, <1>5 DEF Next

(* Every step keeps the one token, in the pipe or with its one user. *)
LEMMA TokenStep ==
  ASSUME TokenInv, [Next]_vars
  PROVE  OneToken'
PROOF
<1> USE LwpsAssumption DEF TokenInv, TypeOK, OneToken, Users, Move, NoOwner, Unset
<1>1. ASSUME NEW p \in Lwps, Down(p) PROVE OneToken'
  BY <1>1 DEF Down
<1>2. ASSUME NEW p \in Lwps, ReadToken(p) PROVE OneToken'
  <2>1. pipe' = <<>>
    BY <1>2 DEF ReadToken
  <2> QED
    BY <1>2, <2>1 DEF ReadToken
<1>3. ASSUME NEW p \in Lwps, Own(p) PROVE OneToken'
  BY <1>3 DEF Own
<1>4. ASSUME NEW p \in Lwps, Disown(p) PROVE OneToken'
  BY <1>4 DEF Disown
<1>5. ASSUME NEW p \in Lwps, WriteToken(p) PROVE OneToken'
  <2>1. pipe = <<>>
    BY <1>5 DEF WriteToken
  <2>2. Len(pipe') = 1 /\ pipe' # <<>>
    BY <1>5, <2>1 DEF WriteToken
  <2> QED
    BY <1>5, <2>2, SMTT(30) DEF WriteToken
<1>6. ASSUME NEW p \in Lwps, ForkChild(p) PROVE OneToken'
  BY <1>6 DEF ForkChild
<1>7. ASSUME NEW p \in Lwps, NestedDown(p) PROVE OneToken'
  BY <1>7 DEF NestedDown
<1>8. ASSUME UNCHANGED vars PROVE OneToken'
  BY <1>8 DEF vars
<1> QED
  BY <1>1, <1>2, <1>3, <1>4, <1>5, <1>6, <1>7, <1>8 DEF Next, ReadInterrupted

(* The token and its types are preserved by every step of sema.c. *)
LEMMA TokenInvariant == Spec => []TokenInv
PROOF
<1>1. TokenInv /\ [Next]_vars => TokenInv'
  BY TypeStep, TokenStep DEF TokenInv
<1> QED
  BY <1>1, InitToken, PTL DEF Spec

(* sema.c keeps exactly one token, in the pipe or with one LWP, so every   *)
(* assertion of sema_down and sema_up about bytes and owners holds.        *)
THEOREM OneTokenAlways == Spec => []OneToken
PROOF
<1>1. TokenInv => OneToken
  BY DEF TokenInv
<1> QED
  BY <1>1, TokenInvariant, PTL

(* sema_char stays within the token alphabet when it wraps, and the owner  *)
(* sema_up and sema_down record is an LWP, none or unset, for any alphabet. *)
THEOREM SemaTypeCorrect == Spec => []TypeOK
PROOF
<1>1. TokenInv => TypeOK
  BY DEF TokenInv
<1> QED
  BY <1>1, TokenInvariant, PTL

-----------------------------------------------------------------------------
(* Each step seen through holderOf: reading the byte takes the lock,       *)
(* writing it gives it back, and no other step changes who holds it.       *)
LEMMA LockStep ==
  ASSUME TokenInv, TokenInv', [Next]_vars
  PROVE  [Lock!LockNext]_holderOf
PROOF
<1> USE DEF Move
<1>1. ASSUME Users' = Users PROVE holderOf' = holderOf
  BY <1>1 DEF holderOf
<1>2. ASSUME NEW p \in Lwps, ReadToken(p) PROVE Lock!Take(p)
  <2>1. Users = {}
    BY <1>2 DEF ReadToken, TokenInv, OneToken
  <2>2. Users' = {p}
    BY <1>2, <2>1 DEF ReadToken, Users, TokenInv, TypeOK
  <2> QED
    BY <2>1, <2>2 DEF holderOf, Lock!Take
<1>3. ASSUME NEW p \in Lwps, WriteToken(p) PROVE Lock!Give(p)
  <2>1. Users = {p}
    BY <1>3 DEF WriteToken, TokenInv, OneToken, Users
  <2>2. Users' = {}
    BY <1>3, <2>1 DEF WriteToken, Users, TokenInv, TypeOK
  <2> QED
    BY <2>1, <2>2 DEF holderOf, Lock!Give
<1>4. ASSUME NEW p \in Lwps, Down(p) \/ ReadInterrupted(p) \/ Own(p) \/ Disown(p)
             \/ NestedDown(p)
      PROVE  Users' = Users
  BY <1>4 DEF Down, ReadInterrupted, Own, Disown, NestedDown, vars, Users, TokenInv, TypeOK
<1>5. ASSUME NEW p \in Lwps, ForkChild(p) PROVE Users' = Users
  BY <1>5 DEF ForkChild, Users, TokenInv, OneToken
<1>6. ASSUME UNCHANGED vars PROVE Users' = Users
  BY <1>6 DEF vars, Users
<1> QED
  BY <1>1, <1>2, <1>3, <1>4, <1>5, <1>6 DEF Next, Lock!LockNext

(* sema.c implements the_BigLock: every step of the pipe protocol takes    *)
(* the lock for one LWP when nobody has it, gives it back, or is invisible *)
(* to the scheduler; fork's child keeps what its caller held.              *)
THEOREM SemaIsALock == Spec => LockSpec
PROOF
<1>1. Init => Lock!LockInit
  BY DEF Init, Users, holderOf, Lock!LockInit
<1> QED
  BY <1>1, LockStep, TokenInvariant, PTL DEF Spec, LockSpec, Lock!LockSpec
=============================================================================
