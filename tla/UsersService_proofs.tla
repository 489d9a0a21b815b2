-------------------------- MODULE UsersService_proofs --------------------------
(***************************************************************************)
(* What the lookups of UsersService return, for every table of users.      *)
(***************************************************************************)
EXTENDS UsersService, WellFoundedInduction, TLAPS

(* Min of a non-empty set of naturals is its least element. *)
LEMMA MinIsLeast ==
    ASSUME NEW S \in SUBSET Nat, S # {}
    PROVE  Min(S) \in S /\ \A n \in S : Min(S) <= n
  <1> DEFINE R == {ss \in Nat \X Nat : ss[1] < ss[2]}
  <1>1. \E n \in S : \A m \in S : ~(<<m, n>> \in R)
    <2>1. IsWellFoundedOn(R, Nat)
      BY NatLessThanWellFounded, Zenon DEF OpToRel
    <2> HIDE DEF R
    <2>2. QED
      BY <2>1, WFMin
  <1>2. \E n \in S : \A m \in S : n <= m
    <2>1. PICK n \in S : \A m \in S : ~(<<m, n>> \in R)
      BY <1>1
    <2>2. ASSUME NEW m \in S
          PROVE  n <= m
      <3>1. <<m, n>> \in R <=> m < n
        OBVIOUS
      <3>2. QED
        BY <2>1, <3>1, SMT
    <2>3. QED
      BY <2>2
  <1>3. QED
    BY <1>2 DEF Min

(* findByEmail returns `undefined` or the first user of that email. *)
LEMMA FindByEmailFinds ==
    ASSUME UsersTypeOK, NEW e
    PROVE  /\ FindByEmail(e) \in 0 .. Len(users)
           /\ FindByEmail(e) # 0 => users[FindByEmail(e)].email = e
           /\ FindByEmail(e) = 0 => \A i \in DOMAIN users : users[i].email # e
  <1> DEFINE I == {i \in 1 .. Len(users) : users[i].email = e}
  <1>1. FindByEmail(e) = IF I # {} THEN Min(I) ELSE 0
    BY DEF FindByEmail, SelectInSeq
  <1>2. I \in SUBSET Nat /\ Len(users) \in Nat /\ DOMAIN users = 1 .. Len(users)
    BY DEF UsersTypeOK
  <1>3. CASE I = {}
    BY <1>1, <1>2, <1>3
  <1>4. CASE I # {}
    <2>1. Min(I) \in I
      BY <1>2, <1>4, MinIsLeast
    <2>2. QED
      BY <1>1, <1>2, <1>4, <2>1
  <1>5. QED
    BY <1>3, <1>4

(* findOne returns `undefined` or the first user of that id. *)
LEMMA FindOneFinds ==
    ASSUME UsersTypeOK, NEW id
    PROVE  /\ FindOne(id) \in 0 .. Len(users)
           /\ FindOne(id) # 0 => users[FindOne(id)].id = id
           /\ FindOne(id) = 0 => \A i \in DOMAIN users : users[i].id # id
  <1> DEFINE I == {i \in 1 .. Len(users) : users[i].id = id}
  <1>1. FindOne(id) = IF I # {} THEN Min(I) ELSE 0
    BY DEF FindOne, SelectInSeq
  <1>2. I \in SUBSET Nat /\ Len(users) \in Nat /\ DOMAIN users = 1 .. Len(users)
    BY DEF UsersTypeOK
  <1>3. CASE I = {}
    BY <1>1, <1>2, <1>3
  <1>4. CASE I # {}
    <2>1. Min(I) \in I
      BY <1>2, <1>4, MinIsLeast
    <2>2. QED
      BY <1>1, <1>2, <1>4, <2>1
  <1>5. QED
    BY <1>3, <1>4
==============================================================================
