------------------------ MODULE AccessControlProofs -------------------------
(***************************************************************************)
(* Theorems about AccessControl for any number of users, copies, key slots *)
(* and grants.  The merge of an entry is a recursive function, so its type *)
(* is shown by induction; the induction is over a set of numbers, by its   *)
(* least counterexample.                                                   *)
(***************************************************************************)
EXTENDS AccessControl, WellFoundedInduction, TLAPS

LEMMA SetInduction ==
    ASSUME NEW P, 0 \in P, \A n \in P \cap Nat : n + 1 \in P
    PROVE  Nat \subseteq P
<1> DEFINE B == {n \in Nat : n \notin P}
<1>1. SUFFICES ASSUME B # {} PROVE FALSE
  OBVIOUS
<1>2. PICK x \in B : \A y \in B : ~ (<<y, x>> \in OpToRel(<, Nat))
  BY <1>1, WFMin, NatLessThanWellFounded, B \subseteq Nat, Zenon
<1>3. \A y \in B : ~ (y < x)
  BY <1>2 DEF OpToRel
<1>4. x # 0 /\ x - 1 \in Nat /\ x - 1 < x
  OBVIOUS
<1>5. x - 1 \in P \cap Nat
  BY <1>3, <1>4
<1> QED
  BY <1>5, <1>4, (x - 1) + 1 = x

-----------------------------------------------------------------------------
(* MergeRun is the last value of a function with this recursion. *)
MergeSteps(first, theirs, n, g) ==
    g = [i \in 0 .. n |->
            IF i = 0 THEN first ELSE MergeEntry(g[i - 1], theirs[i])]

LEMMA MergeStepsExist ==
    ASSUME NEW first \in Entry, NEW theirs \in Seq(Entry)
    PROVE  \E g : MergeSteps(first, theirs, Len(theirs), g)
<1> DEFINE P == {n \in Nat : \E g : MergeSteps(first, theirs, n, g)}
<1>1. 0 \in P
  <2> DEFINE g == [i \in 0 .. 0 |-> first]
  <2>1. MergeSteps(first, theirs, 0, g)
    BY DEF MergeSteps
  <2> QED
    BY <2>1, Zenon
<1>2. ASSUME NEW n \in P \cap Nat PROVE n + 1 \in P
  <2> SUFFICES \E h : MergeSteps(first, theirs, n + 1, h)
    OBVIOUS
  <2>1. PICK g : MergeSteps(first, theirs, n, g)
    OBVIOUS
  <2> DEFINE h == [i \in 0 .. n + 1 |->
                      IF i = n + 1 THEN MergeEntry(g[n], theirs[n + 1]) ELSE g[i]]
  <2>2. \A i \in 0 .. n :
            g[i] = IF i = 0 THEN first ELSE MergeEntry(g[i - 1], theirs[i])
    BY <2>1 DEF MergeSteps
  <2>3. ASSUME NEW i \in 0 .. n + 1
        PROVE  h[i] = IF i = 0 THEN first ELSE MergeEntry(h[i - 1], theirs[i])
    <3>1. CASE i = n + 1
      <4>1. h[i] = MergeEntry(g[n], theirs[n + 1]) /\ h[i - 1] = g[n] /\ i # 0
        BY <3>1
      <4> HIDE DEF h
      <4> QED BY <4>1, <3>1
    <3>2. CASE i \in 0 .. n
      <4>1. h[i] = g[i] /\ (i # 0 => h[i - 1] = g[i - 1])
        BY <3>2
      <4> HIDE DEF h
      <4> QED BY <4>1, <3>2, <2>2
    <3> QED
      BY <3>1, <3>2
  <2>4. MergeSteps(first, theirs, n + 1, h)
    <3>1. h = [i \in 0 .. n + 1 |-> h[i]]
      OBVIOUS
    <3> HIDE DEF h
    <3> QED BY <2>3, <3>1 DEF MergeSteps
  <2> QED
    BY <2>4, Zenon
<1>3. Nat \subseteq P
  <2> HIDE DEF P
  <2> QED BY <1>1, <1>2, SetInduction, Zenon
<1> QED
  BY <1>3

LEMMA MergeStepsTyped ==
    ASSUME NEW first \in Entry, NEW theirs \in Seq(Entry), NEW g,
           MergeSteps(first, theirs, Len(theirs), g)
    PROVE  g[Len(theirs)] \in Entry
<1> DEFINE P == {n \in Nat : n <= Len(theirs) => g[n] \in Entry}
<1>1. \A i \in 0 .. Len(theirs) :
          g[i] = IF i = 0 THEN first ELSE MergeEntry(g[i - 1], theirs[i])
  BY DEF MergeSteps
<1>2. 0 \in P
  BY <1>1
<1>3. ASSUME NEW n \in P \cap Nat PROVE n + 1 \in P
  BY <1>1 DEF MergeEntry
<1>4. Nat \subseteq P
  <2> HIDE DEF P
  <2> QED BY <1>2, <1>3, SetInduction, Zenon
<1> QED
  BY <1>4

(* Merging any number of entries of the file into one gives an entry. *)
LEMMA MergeRunTyped ==
    ASSUME NEW first \in Entry, NEW theirs \in Seq(Entry)
    PROVE  MergeRun(first, theirs) \in Entry
<1> DEFINE g == CHOOSE h : MergeSteps(first, theirs, Len(theirs), h)
<1>1. MergeSteps(first, theirs, Len(theirs), g)
  BY MergeStepsExist, Zenon
<1>2. MergeRun(first, theirs) = g[Len(theirs)]
  BY Zenon DEF MergeRun, MergeSteps
<1>3. g[Len(theirs)] \in Entry
  <2> HIDE DEF g
  <2> QED BY <1>1, MergeStepsTyped, Zenon
<1> QED
  BY <1>2, <1>3, Zenon

(* A local Owner stays Owner whatever the file says. *)
LEMMA MergeRunOwner ==
    ASSUME NEW first \in Entry, NEW theirs \in Seq(Entry), first.role = Owner
    PROVE  MergeRun(first, theirs) = first
<1> DEFINE g == CHOOSE h : MergeSteps(first, theirs, Len(theirs), h)
           P == {n \in Nat : n <= Len(theirs) => g[n] = first}
<1>1. MergeSteps(first, theirs, Len(theirs), g)
  BY MergeStepsExist, Zenon
<1>2. MergeRun(first, theirs) = g[Len(theirs)]
  BY Zenon DEF MergeRun, MergeSteps
<1> HIDE DEF g
<1>3. \A i \in 0 .. Len(theirs) :
          g[i] = IF i = 0 THEN first ELSE MergeEntry(g[i - 1], theirs[i])
  BY <1>1 DEF MergeSteps
<1>4. 0 \in P
  BY <1>3
<1>5. ASSUME NEW n \in P \cap Nat PROVE n + 1 \in P
  BY <1>3 DEF MergeEntry
<1>6. Nat \subseteq P
  <2> HIDE DEF P
  <2> QED BY <1>4, <1>5, SetInduction, Zenon
<1> QED
  BY <1>2, <1>6

LEMMA MergeEntriesTyped ==
    ASSUME NEW mine \in Seq(Entry), NEW theirs \in Seq(Entry)
    PROVE  /\ MergeEntries(mine, theirs) \in Seq(Entry)
           /\ mine # <<>> \/ theirs # <<>> <=> MergeEntries(mine, theirs) # <<>>
           /\ Len(mine) <= 1 => Len(MergeEntries(mine, theirs)) <= 1
<1>1. CASE mine # <<>>
  <2>1. mine[1] \in Entry /\ Tail(mine) \in Seq(Entry) /\ Len(Tail(mine)) = Len(mine) - 1
    BY <1>1
  <2>2. MergeRun(mine[1], theirs) \in Entry
    BY <2>1, MergeRunTyped
  <2>3. MergeEntries(mine, theirs) = <<MergeRun(mine[1], theirs)>> \o Tail(mine)
    BY <1>1, Zenon DEF MergeEntries
  <2> QED
    BY <2>1, <2>2, <2>3, <1>1
<1>2. CASE mine = <<>> /\ theirs # <<>>
  <2>1. theirs[1] \in Entry
    BY <1>2
  <2>2. MergeRun(theirs[1], theirs) \in Entry
    BY <2>1, MergeRunTyped
  <2>3. MergeEntries(mine, theirs) = <<MergeRun(theirs[1], theirs)>>
    BY <1>2 DEF MergeEntries
  <2> QED
    BY <2>2, <2>3, <1>2
<1>3. CASE mine = <<>> /\ theirs = <<>>
  <2>1. MergeEntries(mine, theirs) = <<>>
    BY <1>3 DEF MergeEntries
  <2> QED
    BY <2>1, <1>3
<1> QED
  BY <1>1, <1>2, <1>3

(* A user whose first entry in the copy is Owner is Owner after the merge. *)
LEMMA MergeEntriesOwner ==
    ASSUME NEW mine \in Seq(Entry), NEW theirs \in Seq(Entry),
           mine # <<>>, mine[1].role = Owner
    PROVE  /\ MergeEntries(mine, theirs) # <<>>
           /\ MergeEntries(mine, theirs)[1].role = Owner
<1>1. mine[1] \in Entry /\ Tail(mine) \in Seq(Entry)
  OBVIOUS
<1>2. MergeRun(mine[1], theirs) = mine[1]
  BY <1>1, MergeRunOwner
<1>3. MergeEntries(mine, theirs) = <<mine[1]>> \o Tail(mine)
  BY <1>2, Zenon DEF MergeEntries
<1>4. MergeEntries(mine, theirs)[1] = mine[1] /\ MergeEntries(mine, theirs) # <<>>
  BY <1>1, <1>3
<1> QED
  BY <1>4

-----------------------------------------------------------------------------
(* What `ovc access` keeps of a list and its key slots: one entry a user,  *)
(* for exactly the users with a slot, and an Owner among them.             *)
Listed(a, s) ==
    /\ \A u \in Users : Len(a[u]) <= 1
    /\ \A u \in Users : IsUser(a, u) <=> u \in s

OwnerIn(a) == \E u \in Users : IsUser(a, u) /\ RoleFor(a, u) = Owner

(* A stale copy is as good as the file it was read from: it brings its own *)
(* Owner along, whom merge_from never replaces.                            *)
AccessInv ==
    /\ TypeOK
    /\ ~direct => /\ Listed(acl, slots) /\ OwnerIn(acl)
                  /\ \A c \in opened : Listed(copyAcl[c], copySlots[c]) /\ OwnerIn(copyAcl[c])

LEMMA InitInv == Init => AccessInv
<1> SUFFICES ASSUME Init PROVE AccessInv
  OBVIOUS
<1>1. Founder \in Users
  BY AccessAssumption
<1> DEFINE e == [role |-> Owner, at |-> 0]
<1>2. e \in Entry
  BY DEF Entry, Roles, Read, Owner
<1>3. <<e>> \in Seq(Entry) /\ <<>> \in Seq(Entry)
  BY <1>2
<1>4. \A u \in Users : acl[u] = IF u = Founder THEN <<e>> ELSE <<>>
  BY DEF Init
<1>5. acl \in Acl
  BY <1>3 DEF Init, Acl
<1>6. [u \in Users |-> <<>>] \in Acl
  BY <1>3 DEF Acl
<1>7. TypeOK
  <2> HIDE DEF e
  <2>1. copyAcl \in [Copies -> Acl]
    BY <1>6 DEF Init
  <2>2. copySlots \in [Copies -> SUBSET Users]
    BY DEF Init
  <2> QED
    BY <1>1, <1>5, <2>1, <2>2 DEF Init, TypeOK
<1>8. Listed(acl, slots) /\ OwnerIn(acl)
  BY <1>1, <1>4 DEF Init, Listed, OwnerIn, IsUser, RoleFor
<1> QED
  BY <1>7, <1>8 DEF AccessInv, Init

LEMMA AddKeyInv == ASSUME AccessInv, NEW u \in Users, AddKey(u) PROVE AccessInv'
  BY DEF AccessInv, TypeOK, AddKey

LEMMA RemoveKeyInv == ASSUME AccessInv, NEW u \in Users, RemoveKey(u) PROVE AccessInv'
  BY DEF AccessInv, TypeOK, RemoveKey

LEMMA GrantInv ==
    ASSUME AccessInv, NEW u \in Users, NEW role \in Roles, GrantAccess(u, role)
    PROVE  AccessInv'
<1> USE DEF AccessInv
<1>1. NewEntry(role) \in Entry
  BY DEF NewEntry, Entry, TypeOK
<1>2. acl \in Acl /\ acl' = [acl EXCEPT ![u] = Append(acl[u], NewEntry(role))]
  BY DEF GrantAccess, TypeOK
<1>3. acl' \in Acl
  BY <1>1, <1>2 DEF Acl
<1>4. TypeOK'
  BY <1>3 DEF GrantAccess, TypeOK
<1>5. ASSUME ~direct PROVE Listed(acl, slots)' /\ OwnerIn(acl)'
  <2>1. acl[u] = <<>>
    BY <1>5 DEF Listed, IsUser, GrantAccess, CanAddKey
  <2>2. acl'[u] = <<NewEntry(role)>> /\ \A v \in Users \ {u} : acl'[v] = acl[v]
    BY <1>2, <2>1 DEF Acl
  <2>3. Len(acl'[u]) = 1 /\ acl'[u] # <<>>
    BY <2>2
  <2>4. slots' = slots \cup {u}
    BY DEF GrantAccess
  <2>5. Listed(acl, slots)'
    <3>1. ASSUME NEW v \in Users
          PROVE  Len(acl'[v]) <= 1 /\ (acl'[v] # <<>> <=> v \in slots')
      <4>1. CASE v = u
        <5>1. v \in slots'
          BY <2>4, <4>1
        <5>2. Len(acl'[v]) = 1 /\ acl'[v] # <<>>
          BY <2>3, <4>1, Zenon
        <5> QED
          BY <5>1, <5>2
      <4>2. CASE v # u
        BY <1>5, <2>2, <2>4, <4>2 DEF Listed, IsUser
      <4> QED
        BY <4>1, <4>2
    <3> QED
      BY <3>1 DEF Listed, IsUser
  <2>6. OwnerIn(acl)'
    BY <1>5, <2>1, <2>2 DEF OwnerIn, IsUser, RoleFor
  <2> QED
    BY <2>5, <2>6
<1> QED
  BY <1>4, <1>5 DEF GrantAccess

(* With one entry a user, several Owners are several users. *)
LEMMA OtherOwner ==
    ASSUME NEW a \in Acl, \A u \in Users : Len(a[u]) <= 1, SeveralOwners(a), NEW u \in Users
    PROVE  \E v \in Users \ {u} : IsUser(a, v) /\ RoleFor(a, v) = Owner
<1>0. PICK v \in Users, w \in Users :
          \E i \in DOMAIN a[v], j \in DOMAIN a[w] :
              <<v, i>> # <<w, j>> /\ a[v][i].role = Owner /\ a[w][j].role = Owner
  BY DEF SeveralOwners
<1>1. PICK i \in DOMAIN a[v], j \in DOMAIN a[w] :
          <<v, i>> # <<w, j>> /\ a[v][i].role = Owner /\ a[w][j].role = Owner
  BY <1>0
<1>2. a[v] \in Seq(Entry) /\ a[w] \in Seq(Entry) /\ Len(a[v]) <= 1 /\ Len(a[w]) <= 1
  BY DEF Acl
<1>3. i = 1 /\ j = 1 /\ a[v] # <<>> /\ a[w] # <<>>
  BY <1>2
<1>4. v # w
  BY <1>1, <1>3
<1> QED
  BY <1>1, <1>3, <1>4 DEF IsUser, RoleFor

LEMMA OwnerKept ==
    ASSUME NEW a, NEW b, NEW u \in Users, \A v \in Users \ {u} : b[v] = a[v],
           \E v \in Users \ {u} : IsUser(a, v) /\ RoleFor(a, v) = Owner
    PROVE  OwnerIn(b)
<1>1. PICK v \in Users \ {u} : IsUser(a, v) /\ RoleFor(a, v) = Owner
  OBVIOUS
<1>2. b[v] = a[v] /\ v \in Users
  OBVIOUS
<1>3. IsUser(b, v) /\ RoleFor(b, v) = Owner
  BY <1>1, <1>2, Zenon DEF IsUser, RoleFor
<1> QED
  BY <1>2, <1>3, Zenon DEF OwnerIn

LEMMA RevokeInv ==
    ASSUME AccessInv, NEW u \in Users, RevokeAccess(u) PROVE AccessInv'
<1> USE DEF AccessInv
<1>1. acl \in Acl /\ acl' = [acl EXCEPT ![u] = <<>>]
  BY DEF RevokeAccess, TypeOK
<1>2. acl' \in Acl /\ acl'[u] = <<>> /\ \A v \in Users \ {u} : acl'[v] = acl[v]
  BY <1>1 DEF Acl
<1>3. TypeOK'
  BY <1>2 DEF RevokeAccess, TypeOK
<1>4. ASSUME ~direct PROVE Listed(acl, slots)' /\ OwnerIn(acl)'
  <2>1. slots' = slots \ {u}
    BY DEF RevokeAccess
  <2>2. Listed(acl, slots)'
    BY <1>2, <1>4, <2>1 DEF Listed, IsUser
  <2>3. \E v \in Users \ {u} : IsUser(acl, v) /\ RoleFor(acl, v) = Owner
    BY <1>1, <1>4, OtherOwner DEF Listed, RevokeAccess, MayRevoke, OwnerIn
  <2>4. OwnerIn(acl)'
    BY <1>2, <2>3 DEF OwnerIn, IsUser, RoleFor
  <2> QED
    BY <2>2, <2>4
<1> QED
  BY <1>3, <1>4 DEF RevokeAccess

LEMMA SetRoleInv ==
    ASSUME AccessInv, NEW u \in Users, NEW role \in Roles, SetRole(u, role)
    PROVE  AccessInv'
<1> USE DEF AccessInv
<1>1. acl \in Acl /\ acl[u] \in Seq(Entry) /\ acl[u] # <<>>
  BY DEF SetRole, TypeOK, Acl, IsUser
<1>2. acl[u][1] \in Entry
  BY <1>1
<1> DEFINE e == [acl[u][1] EXCEPT !.role = role]
<1>3. e \in Entry /\ e.role = role
  BY <1>2 DEF Entry
<1>4. acl' = [acl EXCEPT ![u] = [acl[u] EXCEPT ![1] = e]]
  BY DEF SetRole
<1> HIDE DEF e
<1>5. /\ [acl[u] EXCEPT ![1] = e] \in Seq(Entry) /\ Len([acl[u] EXCEPT ![1] = e]) = Len(acl[u])
      /\ [acl[u] EXCEPT ![1] = e] # <<>> /\ [acl[u] EXCEPT ![1] = e][1] = e
  BY <1>1, <1>3
<1>6. /\ acl' \in Acl /\ acl'[u] = [acl[u] EXCEPT ![1] = e]
      /\ \A v \in Users \ {u} : acl'[v] = acl[v]
  BY <1>1, <1>4, <1>5 DEF Acl
<1>7. TypeOK'
  BY <1>6 DEF SetRole, TypeOK
<1>8. ASSUME ~direct PROVE Listed(acl, slots)' /\ OwnerIn(acl)'
  <2>1. slots' = slots
    BY DEF SetRole
  <2>2. Listed(acl, slots)'
    <3>1. ASSUME NEW v \in Users
          PROVE  Len(acl'[v]) <= 1 /\ (acl'[v] # <<>> <=> v \in slots')
      <4>1. CASE v = u
        <5>1. Len(acl'[v]) = Len(acl[v]) /\ acl'[v] # <<>> /\ acl[v] # <<>>
          BY <1>1, <1>5, <1>6, <4>1
        <5> QED
          BY <1>8, <2>1, <5>1 DEF Listed, IsUser
      <4>2. CASE v # u
        BY <1>6, <1>8, <2>1, <4>2 DEF Listed, IsUser
      <4> QED
        BY <4>1, <4>2
    <3> QED
      BY <3>1 DEF Listed, IsUser
  <2>3. CASE role = Owner
    <3>1. acl'[u] # <<>> /\ acl'[u][1] = e
      BY <1>5, <1>6, Zenon
    <3>2. e.role = Owner
      BY <1>3, <2>3
    <3>3. IsUser(acl', u) /\ RoleFor(acl', u) = Owner
      BY <3>1, <3>2, Zenon DEF IsUser, RoleFor
    <3> QED
      BY <2>2, <3>3 DEF OwnerIn
  <2>4. CASE role # Owner
    <3>1. CASE RoleFor(acl, u) = Owner
      <4>1. SeveralOwners(acl)
        BY <2>4, <3>1 DEF SetRole
      <4>2. \A v \in Users : Len(acl[v]) <= 1
        BY <1>8 DEF Listed
      <4>3. \E v \in Users \ {u} : IsUser(acl, v) /\ RoleFor(acl, v) = Owner
        BY <1>1, <4>1, <4>2, OtherOwner
      <4> QED
        BY <1>6, <2>2, <4>3, OwnerKept DEF OwnerIn
    <3>2. CASE RoleFor(acl, u) # Owner
      <4>1. \E v \in Users \ {u} : IsUser(acl, v) /\ RoleFor(acl, v) = Owner
        BY <1>8, <3>2, Zenon DEF OwnerIn
      <4> QED
        BY <1>6, <2>2, <4>1, OwnerKept DEF OwnerIn
    <3> QED
      BY <3>1, <3>2
  <2> QED
    BY <2>2, <2>3, <2>4
<1> QED
  BY <1>7, <1>8 DEF SetRole

LEMMA OpenInv == ASSUME AccessInv, NEW c \in Copies, OpenCopy(c) PROVE AccessInv'
<1> USE DEF AccessInv
<1>1. /\ copyAcl' = [copyAcl EXCEPT ![c] = acl] /\ copySlots' = [copySlots EXCEPT ![c] = slots]
      /\ opened' = opened \cup {c}
  BY DEF OpenCopy
<1>2. /\ copyAcl'[c] = acl /\ copySlots'[c] = slots
      /\ \A d \in Copies \ {c} : copyAcl'[d] = copyAcl[d] /\ copySlots'[d] = copySlots[d]
  BY <1>1 DEF TypeOK
<1>3. TypeOK'
  BY <1>1 DEF OpenCopy, TypeOK
<1>4. UNCHANGED <<acl, slots, direct>> /\ opened \subseteq Copies
  BY DEF OpenCopy, TypeOK
<1>5. ASSUME ~direct, NEW d \in opened'
      PROVE  (Listed(copyAcl[d], copySlots[d]) /\ OwnerIn(copyAcl[d]))'
  <2>1. CASE d = c
    BY <1>2, <1>4, <1>5, <2>1
  <2>2. CASE d # c
    BY <1>1, <1>2, <1>4, <1>5, <2>2
  <2> QED
    BY <2>1, <2>2
<1> QED
  BY <1>3, <1>4, <1>5

LEMMA SaveTyped == ASSUME TypeOK, NEW c \in Copies, SaveCopy(c) PROVE TypeOK'
<1>1. acl \in Acl /\ copyAcl[c] \in Acl
  BY DEF TypeOK
<1>2. \A u \in Users : MergeEntries(copyAcl[c][u], acl[u]) \in Seq(Entry)
  BY <1>1, MergeEntriesTyped DEF Acl
<1>3. acl' \in Acl
  BY <1>2 DEF SaveCopy, Acl
<1>4. slots' \subseteq Users
  BY DEF SaveCopy, TypeOK, MergeSlots
<1> QED
  BY <1>3, <1>4 DEF SaveCopy, TypeOK

LEMMA SaveInv == ASSUME AccessInv, NEW c \in Copies, SaveCopy(c) PROVE AccessInv'
<1> USE DEF AccessInv
<1>1. TypeOK'
  BY SaveTyped
<1>2. acl \in Acl /\ copyAcl[c] \in Acl
  BY DEF TypeOK
<1>3. \A u \in Users : acl[u] \in Seq(Entry) /\ copyAcl[c][u] \in Seq(Entry)
  BY <1>2 DEF Acl
<1>4. /\ \A u \in Users : acl'[u] = MergeEntries(copyAcl[c][u], acl[u])
      /\ slots' = copySlots[c] \cup slots /\ opened' = opened \ {c} /\ c \in opened
      /\ UNCHANGED <<copyAcl, copySlots, direct>>
  BY DEF SaveCopy, MergeSlots
<1>5. ASSUME ~direct PROVE Listed(acl, slots)' /\ OwnerIn(acl)'
  <2>1. Listed(acl, slots) /\ Listed(copyAcl[c], copySlots[c]) /\ OwnerIn(copyAcl[c])
    BY <1>4, <1>5
  <2>2. Listed(acl, slots)'
    <3>1. ASSUME NEW u \in Users
          PROVE  Len(acl'[u]) <= 1 /\ (acl'[u] # <<>> <=> u \in slots')
      BY <1>3, <1>4, <2>1, MergeEntriesTyped DEF Listed, IsUser
    <3> QED
      BY <3>1 DEF Listed, IsUser
  <2>3. OwnerIn(acl)'
    BY <1>3, <1>4, <2>1, MergeEntriesOwner DEF OwnerIn, IsUser, RoleFor
  <2> QED
    BY <2>2, <2>3
<1> QED
  BY <1>1, <1>4, <1>5

LEMMA SaveCurrentInv == ASSUME AccessInv, NEW c \in Copies, SaveCurrentCopy(c) PROVE AccessInv'
  BY DEF AccessInv, TypeOK, SaveCurrentCopy

LEMMA NextInv == AccessInv /\ [Next]_vars => AccessInv'
<1>1. ASSUME AccessInv, Next PROVE AccessInv'
  BY <1>1, AddKeyInv, RemoveKeyInv, GrantInv, RevokeInv, SetRoleInv, OpenInv, SaveInv, SaveCurrentInv, Zenon DEF Next
<1>2. ASSUME AccessInv, UNCHANGED vars PROVE AccessInv'
  BY <1>2 DEF AccessInv, TypeOK, vars
<1> QED
  BY <1>1, <1>2

(* The types and what the access commands keep, in every reachable state.  *)
THEOREM AccessInvariant == Spec => []AccessInv
<1> QED
  BY InitInv, NextInv, PTL DEF Spec

(* Without `ovc key` the file always has an Owner. *)
THEOREM OwnerRemains == Spec => []OwnerExists
<1>1. AccessInv => OwnerExists
  BY DEF AccessInv, OwnerExists, HasOwner, OwnerIn
<1> QED
  BY <1>1, AccessInvariant, PTL

(* Without `ovc key` the users of the list are those with a key slot. *)
THEOREM UsersAreKeyHolders == Spec => []UsersHaveKeys
<1>1. AccessInv => UsersHaveKeys
  BY DEF AccessInv, UsersHaveKeys, Listed
<1> QED
  BY <1>1, AccessInvariant, PTL

LEMMA NobodyDropped ==
    ASSUME TypeOK, Next, NEW u \in Users, IsUser(acl, u), ~IsUser(acl', u)
    PROVE  u \in revoked'
<1>0. acl \in Acl /\ acl[u] \in Seq(Entry)
  BY DEF TypeOK, Acl
<1>1. CASE UNCHANGED acl
  BY <1>1 DEF IsUser
<1>2. CASE \E v \in Users : RevokeAccess(v)
  BY <1>0, <1>2 DEF RevokeAccess, IsUser, Acl
<1>3. ASSUME NEW v \in Users, NEW role \in Roles, GrantAccess(v, role) PROVE FALSE
  <2>1. acl' = [acl EXCEPT ![v] = Append(acl[v], NewEntry(role))]
    BY <1>3 DEF GrantAccess
  <2>2. NewEntry(role) \in Entry
    BY DEF NewEntry, Entry, TypeOK
  <2>3. Append(acl[u], NewEntry(role)) # <<>>
    BY <1>0, <2>2
  <2>4. acl'[u] = acl[u] \/ acl'[u] = Append(acl[u], NewEntry(role))
    BY <1>0, <2>1 DEF Acl
  <2> QED
    BY <2>3, <2>4 DEF IsUser
<1>4. ASSUME NEW v \in Users, NEW role \in Roles, SetRole(v, role) PROVE FALSE
  <2>1. acl[v] \in Seq(Entry) /\ acl[v] # <<>>
    BY <1>0, <1>4 DEF SetRole, Acl, IsUser
  <2> DEFINE s == [acl[v] EXCEPT ![1].role = role]
  <2>2. DOMAIN s = DOMAIN acl[v] /\ 1 \in DOMAIN acl[v]
    BY <2>1
  <2>3. acl' = [acl EXCEPT ![v] = s]
    BY <1>4 DEF SetRole
  <2> HIDE DEF s
  <2>4. s # <<>>
    BY <2>2
  <2> QED
    BY <1>0, <2>3, <2>4 DEF Acl, IsUser
<1>5. ASSUME NEW c \in Copies, SaveCopy(c) PROVE FALSE
  <2>1. copyAcl[c][u] \in Seq(Entry)
    BY DEF TypeOK, Acl
  <2>2. acl'[u] = MergeEntries(copyAcl[c][u], acl[u])
    BY <1>5 DEF SaveCopy
  <2> QED
    BY <1>0, <2>1, <2>2, MergeEntriesTyped DEF IsUser
<1> QED
  BY <1>1, <1>2, <1>3, <1>4, <1>5 DEF Next, AddKey, RemoveKey, OpenCopy, SaveCurrentCopy

(* Merging drops nobody, also when keys are handled directly and a user    *)
(* has several entries.                                                    *)
THEOREM OnlyRevocationRemoves == Spec => UsersLeaveByRevocation
<1>1. AccessInv /\ [Next]_vars
        => [\A u \in Users : IsUser(acl, u) /\ ~IsUser(acl', u) => u \in revoked']_vars
  BY NobodyDropped DEF AccessInv
<1> QED
  BY <1>1, AccessInvariant, PTL DEF Spec, UsersLeaveByRevocation
=============================================================================
