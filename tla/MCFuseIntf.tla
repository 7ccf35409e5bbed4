----------------------------- MODULE MCFuseIntf ----------------------------
(* The FUSE layer with two threads, and the conversions and the directory  *)
(* buffer it uses for small inputs.                                        *)
EXTENDS FuseIntf, PosixMap, DirBuffer

Symmetry == Permutations(Threads) \union Permutations(Descs) \union Permutations(Paths)

\* A FUSE file system with all callbacks, and one with the fewest.
MCSettings == {<<"fine", Optional>>, <<"coarse", {}>>}

\* Machines without a domain, in one, in one with trusts, a domain controller,
\* one with overridden ids, and one whose accounts cannot be found.
SamDomain == <<21, 1, 2, 3>>
Domain    == <<21, 4, 5, 6>>
Trusts    == <<[domain |-> <<21, 7, 8, 9>>, offset |-> 3145728],
               [domain |-> <<21, 10, 11, 12>>, offset |-> 5242880]>>
Machine(account, primary, trusted, map) ==
  [account |-> account, primary |-> primary, trusted |-> trusted, map |-> map,
   distinct |-> TRUE]
MCEnvironments ==
  {Machine(NoDomain, NoDomain, <<>>, <<>>),
   Machine(SamDomain, NoDomain, <<>>, <<>>),
   Machine(SamDomain, Domain, <<>>, <<>>),
   Machine(SamDomain, Domain, Trusts, <<>>),
   Machine(Domain, Domain, Trusts, <<>>),
   Machine(SamDomain, Domain, Trusts,
           <<[uid |-> 1000, sid |-> Account(SamDomain, 1001)],
             [uid |-> 18, sid |-> Account(Domain, 500)]>>)}

\* The ids at and around the bounds of the ranges.
Bounds == {0, 512, 1000, 1001, 4094, 4096, 20480, 24576, 65534, 65536, 66816, 67072,
           69632, 131072, 135168, 196608, 262144, 393216, 458752, 1048576, 3145728, 5242880}
MCUids == {b + d : b \in Bounds, d \in {0, 1, 18, 255}} \union {b - 1 : b \in Bounds \ {0}}
MCRids == {0, 1, 18, 255, 256, 500, 511, 512, 544, 999, 1000, 4095, 4096, 65535, 65536, 2097151}

\* ".", "..", "!", "a", "abc" and ".a".
MCNames == {Dot, DotDot, <<33>>, <<97>>, <<97, 98, 99>>, <<46, 97>>}

-----------------------------------------------------------------------------
(* What the conversions and the buffer do does not depend on the state;    *)
(* each fact is stated where a request rests on it.                        *)
Answering(t) == request[t].step = "opened"

(* The ids and the path of a file that a request opens have one meaning on *)
(* both sides: what is converted comes back (ConversionsExact).            *)
ConversionsReturn == \A t \in Threads : Answering(t) => ConversionsExact

(* The access check that Windows makes for a file that a request opens, on *)
(* the DACL made of its mode, decides as POSIX does (PermissionsExact).    *)
PermissionsKept == \A t \in Threads : Answering(t) => PermissionsExact

(* A request that lists a directory returns each of its valid entries once *)
(* and in order, in as many reads as it takes (ListingsExact).             *)
DirectoryIsRead ==
  \A t \in Threads :
    (request[t].step = "use" /\ request[t].use = "list") => ListingsExact
=============================================================================
