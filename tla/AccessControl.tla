--------------------------- MODULE AccessControl ----------------------------
(***************************************************************************)
(* Who may use a repository: the access control list and the key slots of  *)
(* its superblock (access.rs and the key and access operations of          *)
(* repository.rs), changed by `ovc access`, `ovc key` and the API, while   *)
(* other users hold older copies that `ovc commit` later merges back       *)
(* (AccessControl::merge_from, Repository::merge_and_save).                *)
(*                                                                         *)
(* The commands that change the list open the file, apply one operation    *)
(* and save without merging, so each is one step on the file here: the     *)
(* conflict check turns away a copy that is not current (module RepoSave). *)
(***************************************************************************)
EXTENDS Naturals, FiniteSets, Sequences

CONSTANTS
    Users,      \* key fingerprints
    Founder,    \* the key `ovc init` was run with
    KeyUsers,   \* keys that `ovc key add` and `ovc key remove` are used on
    Copies,     \* commands that opened the file and will save with merging
    MaxSlots,   \* MAX_KEY_SLOTS
    MaxClock    \* bound: access grants

ASSUME AccessAssumption ==
    /\ Founder \in Users
    /\ KeyUsers \subseteq Users
    /\ IsFiniteSet(Users)
    /\ MaxSlots \in Nat \ {0}
    /\ MaxClock \in Nat

(* AccessRole: Read < Write < Admin < Owner. *)
Read  == 0
Write == 1
Admin == 2
Owner == 3
Roles == Read .. Owner

VARIABLES
    acl,       \* acl[u]: the entries of u in the file's list, oldest first
    slots,     \* users with a key slot in the file
    copyAcl,   \* copyAcl[c]: the list in copy c
    copySlots, \* copySlots[c]: the key slots in copy c
    opened,    \* the copies that are open
    clock,     \* time of the next grant
    revoked,   \* history: users whose access or key was taken away last
    direct     \* history: `ovc key` has been used

vars == <<acl, slots, copyAcl, copySlots, opened, clock, revoked, direct>>

Entry == [role : Roles, at : Nat]
Acl   == [Users -> Seq(Entry)]

(* user_for and role_for look at the first entry of a user. *)
IsUser(a, u) == a[u] # <<>>
RoleFor(a, u) == a[u][1].role

(* owner_count > 1, counting entries. *)
SeveralOwners(a) ==
    \E u, v \in Users : \E i \in DOMAIN a[u], j \in DOMAIN a[v] :
        /\ <<u, i>> # <<v, j>>
        /\ a[u][i].role = Owner
        /\ a[v][j].role = Owner

(* Type invariant of the file, the copies and the history. *)
TypeOK ==
    /\ acl \in Acl
    /\ slots \subseteq Users
    /\ copyAcl \in [Copies -> Acl]
    /\ copySlots \in [Copies -> SUBSET Users]
    /\ opened \subseteq Copies
    /\ clock \in Nat
    /\ revoked \subseteq Users
    /\ direct \in BOOLEAN

(* init_with_key: the creator has the only key slot and is Owner. *)
Init ==
    /\ acl = [u \in Users |->
                IF u = Founder THEN <<[role |-> Owner, at |-> 0]>> ELSE <<>>]
    /\ slots = {Founder}
    /\ copyAcl = [c \in Copies |-> [u \in Users |-> <<>>]]
    /\ copySlots = [c \in Copies |-> {}]
    /\ opened = {}
    /\ clock = 1
    /\ revoked = {}
    /\ direct = FALSE

(* open_with_key needs a key slot. *)
CanOpen == slots # {}

(* add_key refuses a key that has a slot, and more than MAX_KEY_SLOTS. *)
CanAddKey(u) == u \notin slots /\ Cardinality(slots) < MaxSlots

AddKey(u) ==
    /\ CanOpen
    /\ u \in KeyUsers
    /\ CanAddKey(u)
    /\ slots' = slots \cup {u}
    /\ revoked' = revoked \ {u}
    /\ direct' = TRUE
    /\ UNCHANGED <<acl, copyAcl, copySlots, opened, clock>>

(* remove_key leaves the access list alone. *)
RemoveKey(u) ==
    /\ u \in KeyUsers
    /\ u \in slots
    /\ slots' = slots \ {u}
    /\ revoked' = revoked \cup {u}
    /\ direct' = TRUE
    /\ UNCHANGED <<acl, copyAcl, copySlots, opened, clock>>

NewEntry(role) == [role |-> role, at |-> clock]

GrantAccess(u, role) ==
    /\ CanOpen
    /\ CanAddKey(u)
    /\ clock <= MaxClock
    /\ slots' = slots \cup {u}
    /\ acl' = [acl EXCEPT ![u] = Append(@, NewEntry(role))]
    /\ clock' = clock + 1
    /\ revoked' = revoked \ {u}
    /\ UNCHANGED <<copyAcl, copySlots, opened, direct>>

(* The guard of revoke_access, and its mutant that lets any Owner go. *)
MutMayRevoke(u) == u \in slots
MayRevoke(u) ==
    /\ IsUser(acl, u) /\ RoleFor(acl, u) = Owner => SeveralOwners(acl)
    /\ u \in slots

RevokeAccess(u) ==
    /\ MayRevoke(u)
    /\ slots' = slots \ {u}
    /\ acl' = [acl EXCEPT ![u] = <<>>]
    /\ revoked' = revoked \cup {u}
    /\ UNCHANGED <<copyAcl, copySlots, opened, clock, direct>>

SetRole(u, role) ==
    /\ CanOpen
    /\ IsUser(acl, u)
    /\ RoleFor(acl, u) = Owner /\ role # Owner => SeveralOwners(acl)
    /\ acl' = [acl EXCEPT ![u][1].role = role]
    /\ UNCHANGED <<slots, copyAcl, copySlots, opened, clock, revoked, direct>>

OpenCopy(c) ==
    /\ CanOpen
    /\ c \notin opened
    /\ opened' = opened \cup {c}
    /\ copyAcl' = [copyAcl EXCEPT ![c] = acl]
    /\ copySlots' = [copySlots EXCEPT ![c] = slots]
    /\ UNCHANGED <<acl, slots, clock, revoked, direct>>

(* merge_from, one user: an unknown user is imported; a local Owner stays; *)
(* otherwise the entry granted later wins.  Without `ovc key` a user has   *)
(* at most one entry; a second one in the file is merged into the first.   *)
MergeEntry(mine, theirs) ==
    IF mine.role # Owner /\ theirs.at > mine.at THEN theirs ELSE mine

MergeRun(first, theirs) ==
    LET step[i \in 0 .. Len(theirs)] ==
            IF i = 0 THEN first ELSE MergeEntry(step[i - 1], theirs[i])
    IN  step[Len(theirs)]

(* Mutant: a user the copy does not know is not imported. *)
MutMergeEntries(mine, theirs) ==
    IF mine = <<>> THEN <<>> ELSE <<MergeRun(mine[1], theirs)>> \o Tail(mine)

MergeEntries(mine, theirs) ==
    CASE mine # <<>> -> <<MergeRun(mine[1], theirs)>> \o Tail(mine)
      [] mine = <<>> /\ theirs # <<>> -> <<MergeRun(theirs[1], theirs)>>
      [] mine = <<>> /\ theirs = <<>> -> <<>>

(* Mutant: the slots of the file are forgotten. *)
MutMergeSlots(mine, theirs) == mine
MergeSlots(mine, theirs) == mine \cup theirs

SaveCopy(c) ==
    /\ c \in opened
    /\ opened' = opened \ {c}
    /\ acl' = [u \in Users |-> MergeEntries(copyAcl[c][u], acl[u])]
    /\ slots' = MergeSlots(copySlots[c], slots)
    /\ UNCHANGED <<copyAcl, copySlots, clock, revoked, direct>>

(* A copy that is current passes the conflict check and is saved as it is. *)
SaveCurrentCopy(c) ==
    /\ c \in opened
    /\ copyAcl[c] = acl
    /\ copySlots[c] = slots
    /\ opened' = opened \ {c}
    /\ UNCHANGED <<acl, slots, copyAcl, copySlots, clock, revoked, direct>>

Next ==
    \/ \E u \in Users : \/ AddKey(u) \/ RemoveKey(u) \/ RevokeAccess(u)
                        \/ \E role \in Roles : \/ GrantAccess(u, role)
                                               \/ SetRole(u, role)
    \/ \E c \in Copies : OpenCopy(c) \/ SaveCopy(c) \/ SaveCurrentCopy(c)

Spec == Init /\ [][Next]_vars

-----------------------------------------------------------------------------
(* Unless keys are handled behind the access list's back, every sequence   *)
(* of grants, revocations, role changes and merges of stale copies leaves  *)
(* the file with an Owner, so access can always be managed and the list is *)
(* never empty (an empty list means that everyone may do everything).      *)
(* With keys removed and granted again there can be none: such a user has  *)
(* two entries, which revoke_access counts as two Owners.                  *)
HasOwner == \E u \in Users : IsUser(acl, u) /\ RoleFor(acl, u) = Owner

OwnerExists == ~direct => HasOwner

(* Unless keys are handled directly, a user is in the access list exactly  *)
(* when the user has a key slot.                                           *)
UsersHaveKeys == ~direct => \A u \in Users : IsUser(acl, u) <=> u \in slots

(* Whatever is granted, merged or done to keys, a user leaves the access   *)
(* list only through a revocation: merging drops nobody.                   *)
UsersLeaveByRevocation ==
    [][\A u \in Users :
          IsUser(acl, u) /\ ~IsUser(acl', u) => u \in revoked']_vars
=============================================================================
