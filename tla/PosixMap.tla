------------------------------ MODULE PosixMap ------------------------------
(***************************************************************************)
(* The conversions of src/shared/ku/posix.c, used by the FUSE layer: user  *)
(* and group ids and SIDs, permission bits and DACLs, POSIX and Windows    *)
(* paths.  The module has no variables: it defines the conversions as they *)
(* are computed and states that what is converted comes back, that the     *)
(* access check of Windows on a converted DACL decides as POSIX would, and *)
(* what of any other DACL the mode that is read from it says.              *)
(*                                                                         *)
(* An environment e stands for what FspPosixInitialize and                 *)
(* FspPosixSetUidMap have found: the SID of the accounts of the machine    *)
(* and of its domain (<<>> when there is none), the trusted domains with   *)
(* their offsets, the overriding map of ids, and whether equal owners and  *)
(* groups keep distinct permissions.  A SID is its authority and the       *)
(* sequence of its subauthorities.  Ids are below 2^31.                    *)
(***************************************************************************)
EXTENDS Integers, Sequences, SequencesExt

CONSTANTS
  Environments, \* the machines the conversions are checked for
  Uids,         \* the ids that are converted
  Rids          \* the last subauthorities of the SIDs that are converted

ASSUME UidsAssumption == Uids \subseteq Nat /\ Rids \subseteq Nat

NoDomain == <<>>
Sid(authority, subs) == [authority |-> authority, subs |-> subs]
World    == Sid(1, <<0>>)
AuthUsers == Sid(5, <<11>>)
Unmapped == Sid(0, <<65534>>)
UnmappedUid == 65534

(***************************************************************************)
(* Ids to SIDs.                                                            *)
(***************************************************************************)
InRange(u, lo, hi) == lo <= u /\ u < hi

\* A domain with its three numbers: 21-X-Y-Z.
Account(domain, rid) == Sid(5, domain \o <<rid>>)

(* The trusted domain an id falls into: the one of the largest offset.     *)
TrustedOf(e, u) ==
  LET below == {i \in DOMAIN e.trusted : e.trusted[i].offset <= u}
  IN  {i \in below : \A j \in below : \/ e.trusted[j].offset < e.trusted[i].offset
                                      \/ /\ e.trusted[j].offset = e.trusted[i].offset
                                         /\ i <= j}

DomainSidOf(e, u) ==
  IF (u < 3145728 \/ e.trusted = <<>>) /\ e.primary # NoDomain
  THEN Account(e.primary, u - 1048576)
  ELSE IF TrustedOf(e, u) = {}
       THEN Unmapped
       ELSE LET t == e.trusted[CHOOSE i \in TrustedOf(e, u) : TRUE]
            IN  Account(t.domain, u - t.offset)

DefaultSid(e, u) ==
  CASE u < 512 \/ u = 1000            -> Sid(5, <<u>>)
    [] InRange(u, 512, 1000)          -> Sid(5, <<32, u>>)
    [] InRange(u, 196608, 262144)     -> IF e.account = NoDomain THEN Unmapped
                                         ELSE Account(e.account, u - 196608)
    [] u >= 1048576                   -> DomainSidOf(e, u)
    [] InRange(u, 393216, 458752)     -> Sid(16, <<u - 393216>>)
    [] InRange(u, 65536, 69632)       -> Sid((u - 65536) \div 256, <<u % 256>>)
    [] /\ InRange(u, 4096, 1048576) /\ u # UnmappedUid
       /\ ~InRange(u, 196608, 262144) /\ ~InRange(u, 393216, 458752)
       /\ ~InRange(u, 65536, 69632)   -> Sid(5, <<u \div 4096, u % 4096>>)
    [] OTHER                          -> Unmapped

(* The overriding map is searched first, and its first match counts.       *)
MapUidToSid(e, u) ==
  LET i == SelectInSeq(e.map, LAMBDA entry : entry.uid = u)
  IN  IF i # 0 THEN e.map[i].sid ELSE DefaultSid(e, u)

(***************************************************************************)
(* SIDs to ids.                                                            *)
(***************************************************************************)
IsRelativeSid(domain, sid) ==
  domain # NoDomain /\ sid.authority = 5 /\ Front(sid.subs) = domain

(* Mutant: the accounts of the machine are looked up before the domain.    *)
DomainUid_AccountFirst(e, sid) ==
  LET rid == Last(sid.subs)
      t   == SelectInSeq(e.trusted, LAMBDA d : IsRelativeSid(d.domain, sid))
  IN  CASE IsRelativeSid(e.account, sid) -> 196608 + rid
        [] ~IsRelativeSid(e.account, sid) /\ IsRelativeSid(e.primary, sid) -> 1048576 + rid
        [] OTHER -> IF t = 0 THEN UnmappedUid ELSE e.trusted[t].offset + rid

DomainUid(e, sid) ==
  LET rid == Last(sid.subs)
      t   == SelectInSeq(e.trusted, LAMBDA d : IsRelativeSid(d.domain, sid))
  IN  CASE IsRelativeSid(e.primary, sid) -> 1048576 + rid
        [] ~IsRelativeSid(e.primary, sid) /\ IsRelativeSid(e.account, sid) -> 196608 + rid
        [] OTHER -> IF t = 0 THEN UnmappedUid ELSE e.trusted[t].offset + rid

DefaultUid(e, sid) ==
  LET count == Len(sid.subs)
      first == IF count >= 2 THEN sid.subs[1] ELSE 0
      rid   == Last(sid.subs)
  IN  CASE sid.authority = 5 /\ (count = 1 \/ (count = 2 /\ first = 32)) -> rid
        [] sid.authority = 5 /\ count >= 2 /\ first = 5  -> UnmappedUid
        [] sid.authority = 5 /\ count >= 5 /\ first = 21 -> DomainUid(e, sid)
        [] sid.authority = 5 /\ count = 2 /\ first \notin {5, 32} -> 4096 * first + rid
        [] sid.authority = 16 -> 393216 + rid
        [] sid.authority \notin {5, 16} /\ (sid.authority # 0 \/ rid # 65534) ->
             65536 + 256 * sid.authority + rid
        [] OTHER -> UnmappedUid

MapSidToUid(e, sid) ==
  LET i == SelectInSeq(e.map, LAMBDA entry : entry.sid = sid)
  IN  IF i # 0 THEN e.map[i].uid ELSE DefaultUid(e, sid)

(***************************************************************************)
(* Permissions to DACLs.  A permission is a set of r, w and x, a mode the  *)
(* permissions of the three classes, the directory and the sticky bit; an  *)
(* access mask is the set of the rights it grants.  Default stands for the *)
(* rights every allowing entry has, Control for what only the owner's has. *)
(***************************************************************************)
Perms == SUBSET {"r", "w", "x"}
Modes == [owner : Perms, group : Perms, world : Perms, dir : BOOLEAN, sticky : BOOLEAN]

AccessMask(dir, sticky, perm) ==
  (IF "r" \in perm THEN {"ReadData"} ELSE {})
  \union (IF "w" \in perm
          THEN {"WriteAttributes", "WriteData", "AppendData"}
               \union IF dir /\ ~sticky THEN {"DeleteChild"} ELSE {}
          ELSE {})
  \union (IF "x" \in perm THEN {"Execute"} ELSE {})

\* An entry is allowing, denying or of another type; INHERIT_ONLY_ACE is set or not.
Ace(type, sid, mask) == [type |-> type, sid |-> sid, mask |-> mask, inherit |-> FALSE]

(* Mutant: what the world may do is not denied to the owner.               *)
MoreThan_GroupOnly(perm, others) == others[1] \ perm
\* The permissions that a later class has and this one has not.
MoreThan(perm, others) == UNION {others[i] : i \in DOMAIN others} \ perm

DenyEntry(sid, mask, perm) == IF perm = {} THEN <<>> ELSE <<Ace("deny", sid, mask)>>

Dacl(e, m, owner, group) ==
  LET both == m.owner \intersect m.group
      same == ~e.distinct /\ owner = group
      own  == IF same THEN both ELSE m.owner
      grp  == IF same THEN both ELSE m.group
      od   == MoreThan(own, <<grp, m.world>>)
      gd   == MoreThan(grp, <<m.world>>)
  IN  <<Ace("allow", owner, {"Default", "Control", "WriteAttributes"}
                              \union AccessMask(m.dir, FALSE, own))>>
      \o DenyEntry(owner, AccessMask(m.dir, FALSE, od) \ {"WriteAttributes"}, od)
      \o <<Ace("allow", group, {"Default"} \union AccessMask(m.dir, m.sticky, grp))>>
      \o DenyEntry(group, AccessMask(m.dir, m.sticky, gd), gd)
      \o <<Ace("allow", World, {"Default"} \union AccessMask(m.dir, m.sticky, m.world))>>

MapPermissionsToSecurityDescriptor(e, uid, gid, m) ==
  LET owner == MapUidToSid(e, uid)
      group == MapUidToSid(e, gid)
  IN  [owner |-> owner, group |-> group, hasDacl |-> TRUE,
       dacl |-> Dacl(e, m, owner, group)]

(***************************************************************************)
(* DACLs to permissions.  The owner, the group and the DACL of a security  *)
(* descriptor may be absent.                                               *)
(***************************************************************************)
NoSid == Sid(0, <<>>)
Everyone == {World, AuthUsers}

\* FspGetFileGenericMapping.
Generic ==
  LET write == {"WriteData", "AppendData", "WriteAttributes"}
  IN  [GenericRead    |-> {"ReadData", "Default"},
       GenericWrite   |-> write \union {"Default"},
       GenericExecute |-> {"Execute", "Default"},
       GenericAll     |-> {"ReadData", "Execute", "DeleteChild", "Default", "Control"} \union write]

\* FspPosixCanonicalizeAccessMask.
Canonical(mask) ==
  (mask \ DOMAIN Generic) \union UNION {Generic[g] : g \in mask \intersect DOMAIN Generic}

(* An entry is for a class when it is for everyone or for the SID of the   *)
(* class; for an absent one, when its SID has the id of the class.         *)
IsFor(e, sid, id, ace) ==
  \/ ace.sid \in Everyone
  \/ IF sid # NoSid THEN ace.sid = sid ELSE MapSidToUid(e, ace.sid) = id

(* What the entries for a class grant, in the order of the entries: a      *)
(* right that was denied is not granted later, nor one that was granted    *)
(* denied.  Other types of entries do not count, inherit-only ones do.     *)
Collected(e, dacl, sid, id) ==
  LET Add(c, ace) ==
        LET mask == Canonical(ace.mask)
        IN  IF ace.type = "other" \/ ~IsFor(e, sid, id, ace) THEN c
            ELSE IF ace.type = "allow"
                 THEN [c EXCEPT !.allow = @ \union (mask \ c.deny)]
                 ELSE [c EXCEPT !.deny = @ \union (mask \ c.allow)]
  IN  FoldLeft(Add, [allow |-> {}, deny |-> {}], dacl).allow

PermissionOf(mask) ==
  (IF "ReadData" \in mask THEN {"r"} ELSE {})
  \union (IF {"WriteData", "AppendData"} \subseteq mask THEN {"w"} ELSE {})
  \union (IF "Execute" \in mask THEN {"x"} ELSE {})

(* The ids of an absent owner or group are those the caller has for them   *)
(* (OwnerOptional, GroupOptional); it is STATUS_INVALID_SID without.       *)
NoId == -1
Refused(sd, uid, gid) == (sd.owner = NoSid /\ uid = NoId) \/ (sd.group = NoSid /\ gid = NoId)

MapSecurityDescriptorToPermissions(e, sd, origUid, origGid) ==
  LET uid == IF sd.owner = NoSid THEN origUid ELSE MapSidToUid(e, sd.owner)
      gid == IF sd.group = NoSid THEN origGid ELSE MapSidToUid(e, sd.group)
      Rights(sid, id) ==
        IF sd.hasDacl THEN Collected(e, sd.dacl, sid, id) ELSE Generic.GenericAll
      oa == Rights(sd.owner, uid)
      ga == Rights(sd.group, gid)
      wa == Rights(World, NoId)
  IN  [refused |-> Refused(sd, origUid, origGid),
       uid     |-> uid,
       gid     |-> gid,
       owner   |-> PermissionOf(oa),
       group   |-> PermissionOf(ga),
       world   |-> PermissionOf(wa),
       sticky  |-> /\ "DeleteChild" \in oa
                   /\ \/ "DeleteChild" \notin ga /\ "w" \in PermissionOf(ga)
                      \/ "DeleteChild" \notin wa /\ "w" \in PermissionOf(wa)]

(***************************************************************************)
(* Paths, as sequences of code points: the characters that are invalid in  *)
(* Windows names have a place in the private use area from 61440, U+F000.  *)
(***************************************************************************)
Slash == 47
Backslash == 92
PrivateUse == 61440
InvalidPathChars == 1..31 \union {34, 42, 58, 60, 62, 63, 92, 124} \* " * : < > ? \ |

MapPosixToWindowsPath(path) ==
  [i \in DOMAIN path |->
     CASE path[i] = Slash            -> Backslash
       [] path[i] \in InvalidPathChars -> PrivateUse + path[i]
       [] OTHER                      -> path[i]]

MapWindowsToPosixPath(path) ==
  [i \in DOMAIN path |->
     CASE path[i] = Backslash -> Slash
       [] path[i] - PrivateUse \in InvalidPathChars -> path[i] - PrivateUse
       [] OTHER -> path[i]]

-----------------------------------------------------------------------------
(* The ids whose SID belongs to another id: the logon SIDs 5-5-RID, the    *)
(* aliases and the authority 5 under the numbers of their second form, and *)
(* the accounts of a machine whose domain is its own.                      *)
Aliases(e) ==
  {u \in Uids : \/ InRange(u, 20480, 24576) \/ InRange(u, 131072, 135168)
                \/ InRange(u, 66816, 67072)
                \/ (InRange(u, 196608, 262144) /\ e.account = e.primary)}

(* The SIDs the comments of FspPosixMapUidToSid promise to convert.        *)
Low(n) == {r \in Rids : r < n}
Sids(e) ==
  {Sid(5, <<r>>) : r \in Low(512) \union {1000}}
  \union {Sid(5, <<32, r>>) : r \in {n \in Low(1000) : n >= 512}}
  \union {Sid(5, <<x, r>>) : x \in {1, 15, 17, 21, 64, 83}, r \in Low(4096) \ {4094}}
  \union {Sid(x, <<r>>) : x \in {0, 1, 4, 9}, r \in Low(256)}
  \union {Sid(16, <<r>>) : r \in Low(65536)}
  \union {Account(e.account, r) : r \in IF e.account = NoDomain THEN {} ELSE Low(65536)}
  \union {Account(e.primary, r) : r \in IF e.primary = NoDomain THEN {} ELSE Low(2097152)}
  \union UNION {{Account(e.trusted[i].domain, r) : r \in Low(65536)} : i \in DOMAIN e.trusted}
  \union {e.map[i].sid : i \in DOMAIN e.map}

Overridden(e, u) == \E i \in DOMAIN e.map : e.map[i].uid = u

(* An id that has a SID of its own comes back, and so does a SID that the  *)
(* conversion knows unless another id overrides it.                        *)
IdsReturn(e) ==
  /\ \A u \in Uids \ Aliases(e) :
       MapUidToSid(e, u) # Unmapped => MapSidToUid(e, MapUidToSid(e, u)) = u
  /\ \A s \in Sids(e) :
       \/ MapUidToSid(e, MapSidToUid(e, s)) = s
       \/ Overridden(e, DefaultUid(e, s))
  /\ MapUidToSid(e, MapSidToUid(e, Unmapped)) = Unmapped

(* A path of POSIX without characters of the private use area comes back,  *)
(* and its Windows form has no character that Windows does not allow.      *)
PathsReturn ==
  LET Chars == 1..127 \union {128, 233, PrivateUse + 200, 65535}
  IN  \A a, b \in Chars :
        LET windows == MapPosixToWindowsPath(<<a, b>>)
        IN  /\ MapWindowsToPosixPath(windows) = <<a, b>>
            /\ Range(windows) \intersect InvalidPathChars \subseteq {Backslash}

(* What is converted comes back, in every environment.  The numeric ranges *)
(* of the ids meet at their bounds, the same SID may belong to two of the  *)
(* domains that are tried in turn, and characters share a place            *)
(* (FspPosixMapUidToSid, FspPosixMapSidToUid, the maps of paths).          *)
ConversionsExact == PathsReturn /\ \A e \in Environments : IdsReturn(e)

(***************************************************************************)
(* The access check of Windows, and that of POSIX.                         *)
(***************************************************************************)
(* The first entry for a SID of the caller that names a right decides;     *)
(* inherit-only entries are for children.  Without a DACL all is granted.  *)
AccessCheck(sd, sids, right) ==
  LET i == SelectInSeq(sd.dacl, LAMBDA a : /\ a.type # "other" /\ ~a.inherit
                                           /\ a.sid \in sids /\ right \in a.mask)
  IN  ~sd.hasDacl \/ (i # 0 /\ sd.dacl[i].type = "allow")

(* The permissions of the one class a caller belongs to.                   *)
ClassOf(m, isOwner, inGroup) ==
  IF isOwner THEN m.owner ELSE IF inGroup THEN m.group ELSE m.world

Ids == {0, 1000, 65534}

(* The DACL made of a mode lets every caller (the owner, in the group or   *)
(* not, a member of the group, anybody else) do what its class may do in   *)
(* POSIX and no more, although Windows looks at all entries that match:    *)
(* read, write and append, execute, and delete the children of a directory *)
(* that is not sticky or its own.  With one SID as owner and group it is   *)
(* the owner's permissions, or what both have.  The mode comes back, the   *)
(* sticky bit as far as somebody else may write.                           *)
DaclDecides(e) ==
  \A uid, gid \in Ids, m \in Modes :
    LET sd  == MapPermissionsToSecurityDescriptor(e, uid, gid, m)
        own == IF uid = gid /\ ~e.distinct THEN m.owner \intersect m.group ELSE m.owner
        got == MapSecurityDescriptorToPermissions(e, sd, NoId, NoId)
    IN  /\ \A isOwner, isMember \in BOOLEAN :
             LET inGroup == IF uid = gid THEN isOwner ELSE isMember
                 sids    == {World} \union (IF isOwner THEN {sd.owner} ELSE {})
                                   \union (IF inGroup THEN {sd.group} ELSE {})
                 class   == ClassOf([m EXCEPT !.owner = own], isOwner, inGroup)
                 May(r)  == AccessCheck(sd, sids, r)
             IN  /\ May("ReadData") <=> "r" \in class
                 /\ May("WriteData") <=> "w" \in class
                 /\ May("AppendData") <=> "w" \in class
                 /\ May("Execute") <=> "x" \in class
                 /\ May("DeleteChild") <=>
                      "w" \in class /\ m.dir /\ (isOwner \/ ~m.sticky)
                 /\ May("Control") <=> isOwner
        /\ got.uid = uid /\ got.gid = gid
        /\ got.owner = own /\ got.world = m.world
        /\ got.group = IF uid = gid THEN own ELSE m.group
        /\ got.sticky <=> /\ m.dir /\ m.sticky /\ "w" \in own
                         /\ "w" \in m.world \union IF uid = gid THEN {} ELSE m.group

(* What the conversion takes an entry for: generic rights are mapped, as   *)
(* when a descriptor is assigned to a file, and INHERIT_ONLY_ACE is not    *)
(* looked at.                                                              *)
AsRead(dacl) ==
  [i \in DOMAIN dacl |-> [dacl[i] EXCEPT !.mask = Canonical(@), !.inherit = FALSE]]

(* The mode that is read from a DACL without inherit-only entries is what  *)
(* the access check gives to an owner, a member of the group and anybody   *)
(* else; an inherit-only entry, which the access check skips, counts in    *)
(* the mode as if it were an entry for the file itself.  An owner or group *)
(* that is absent but known by its id is treated like its SID, and where   *)
(* there is no DACL the mode is 0777.                                      *)
ModeIsAccess(e) ==
  LET owner == MapUidToSid(e, 1000)
      group == MapUidToSid(e, 0)
      users == Sid(5, <<32, 545>>)
      read  == {"ReadData", "Execute"}
      Aces  == [type : {"allow", "deny"}, sid : {owner, group, users, World, AuthUsers},
                mask : {read, {"WriteData"}, {"GenericWrite"}}, inherit : {FALSE}]
                 \union [type : {"allow", "deny"}, sid : {owner, World}, mask : {read},
                          inherit : {TRUE}]
                 \union [type : {"other"}, sid : {World}, mask : {read}, inherit : {FALSE}]
  IN  \A dacl \in UNION {[1..n -> Aces] : n \in 0..2}, hasDacl \in BOOLEAN,
         sdOwner \in {owner, NoSid}, sdGroup \in {group, NoSid} :
        LET sd  == [owner |-> sdOwner, group |-> sdGroup, hasDacl |-> hasDacl, dacl |-> dacl]
            got == MapSecurityDescriptorToPermissions(e, sd, 1000, 0)
            May(sids, r) ==
              AccessCheck([sd EXCEPT !.dacl = AsRead(@)], Everyone \union sids, r)
            Perm(sids)   == {p \in {"r", "w", "x"} :
              CASE p = "r" -> May(sids, "ReadData")
                [] p = "w" -> May(sids, "WriteData") /\ May(sids, "AppendData")
                [] OTHER   -> May(sids, "Execute")}
        IN  /\ got.uid = 1000 /\ got.gid = 0 /\ ~got.refused
            /\ got.owner = Perm({owner}) /\ got.group = Perm({group})
            /\ got.world = Perm({})

(* Permissions mean the same on both sides: the deny entries correct what  *)
(* the entries of later classes would add, and the scan of a foreign DACL  *)
(* decides as Windows does, but that it looks at neither the inherit-only  *)
(* flag nor the types of entries it does not know                          *)
(* (FspPosixMapPermissionsToSecurityDescriptor,                            *)
(* FspPosixMapSecurityDescriptorToPermissions).                            *)
PermissionsExact ==
  \A distinct \in BOOLEAN :
    LET e == [CHOOSE x \in Environments : x.map = <<>> EXCEPT !.distinct = distinct]
    IN  DaclDecides(e) /\ ModeIsAccess(e)
=============================================================================
