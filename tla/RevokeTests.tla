---------------------------- MODULE RevokeTests ----------------------------
(* The tests themselves, as sequences of the steps of RevokeSteps. *)
EXTENDS RevokeSteps

CapStore == {"store", "dirty"}
NoCapStore == {"untouched", "clean"}

Revoked(x) == <<<<"look", x>>, <<"want", {"revoked", "null"}>>>>
Intact(x)  == <<<<"look", x>>, <<"want", {"cap"}>>>>
Pages01(s0, s1) == <<<<"call">>, <<"mincore", 0, s0>>, <<"mincore", 1, s1>>>>
Last(info) == <<<<"revoke", "last", info>>>>
Clock == <<<<"clock", "">>>>

RevokeTest(name, steps) ==
  IF CheriBSD THEN Plain(name, steps \o Success)
  ELSE TestOf(name, FALSE, TRUE, Failure)   \* REVOCATION_IS_NOT_SUPPORTED_MSG

vm_capdirty ==
  Plain("vm_capdirty",
        <<<<"call">>, <<"call">>>> \o Pages01({"untouched"}, {"untouched"})
        \o <<<<"data", 0>>, <<"mincore", 0, {}>>, <<"put", "p1">>, <<"call">>,
             <<"mincore", 1, CapStore>>, <<"call">>>>
        \o Success)

(* Revoke with the bit set, then, in two calls, with the bit clear. *)
cheri_revoke_lightly ==
  RevokeTest("cheri_revoke_lightly",
    <<<<"call">>, <<"call">>, <<"put", "p0">>, <<"put", "kq">>, <<"mark", TRUE>>>>
    \o Last("crsi") \o Clock \o Revoked("p0") \o Revoked("kq")
    \o <<<<"mark", FALSE>>, <<"put", "p0">>, <<"put", "kq">>,
         <<"revoke", "open", "crsi">>, <<"clock", "open">>>>
    \o Last("crsi") \o Clock \o Intact("p0") \o Intact("kq"))

(* Mutant: page 1 is never looked at. *)
LoadsideOnePage ==
  RevokeTest("cheri_revoke_loadside",
    <<<<"call">>, <<"put", "p0">>, <<"mark", TRUE>>, <<"put", "p1">>,
      <<"erase", "p1", "null">>, <<"revoke", "open", "crsi">>>>
    \o Revoked("p0") \o Last("crsi") \o <<<<"put", "p0">>>> \o Last("crsi")
    \o Revoked("p0"))

cheri_revoke_loadside ==
  RevokeTest("cheri_revoke_loadside",
    <<<<"call">>, <<"put", "p0">>, <<"mark", TRUE>>, <<"put", "p1">>,
      <<"erase", "p1", "null">>>>
    \o Pages01(CapStore, CapStore) \o <<<<"mincore", 2, NoCapStore>>, <<"revoke", "open", "crsi">>>>
    \o Revoked("p0") \o Pages01(CapStore, CapStore)
    \o <<<<"erase", "p0b", "revoked">>>> \o Last("crsi") \o Pages01(CapStore, CapStore)
    \o <<<<"put", "p0">>>> \o Pages01(CapStore, CapStore)
    \o Last("crsi") \o Revoked("p0") \o Pages01(CapStore, NoCapStore)
    \o Last("crsi") \o Pages01(NoCapStore, NoCapStore))

AsyncSteps ==
  <<<<"call">>, <<"put", "p0">>, <<"mark", TRUE>>, <<"async">>, <<"opened">>,
    <<"poll">>, <<"closed">>>>
  \o Revoked("p0")
cheri_revoke_async == RevokeTest("cheri_revoke_async", AsyncSteps)
cheri_revoke_async_fork ==
  RevokeTest("cheri_revoke_async_fork",
             <<<<"thread">>>> \o AsyncSteps \o <<<<"stop">>, <<"join">>>>)

(* The child revokes and its parent's copies stay, then the other way round. *)
Gone(x) == <<<<"look", x>>, <<"demand", {"revoked"}>>>>
Kept(x) == <<<<"look", x>>, <<"demand", {"cap"}>>>>
KidRevokes == <<<<"mark", TRUE>>, <<"pageout">>, <<"revoke", "last", "NULL">>>>
              \o Gone("p0") \o Gone("p1") \o <<<<"exit", {"revoked"}>>>>
KidWaits == <<<<"piperead">>>> \o Kept("p0") \o Kept("p1") \o <<<<"exit", {"cap"}>>>>
cheri_revoke_cow_mapping ==
  RevokeTest("cheri_revoke_cow_mapping",
    <<<<"call">>, <<"put", "p0">>, <<"put", "p1">>, <<"fork", KidRevokes>>,
      <<"wait", "check">>>>
    \o Intact("p0") \o Intact("p1")
    \o <<<<"call">>, <<"fork", KidWaits>>, <<"mark", TRUE>>, <<"pageout">>>>
    \o Last("NULL") \o Revoked("p0") \o Revoked("p1")
    \o <<<<"pipewrite">>, <<"wait", "check">>, <<"call">>>>)

RevokeTestSet ==
  {cheri_revoke_lightly, cheri_revoke_loadside, cheri_revoke_async,
   cheri_revoke_async_fork, cheri_revoke_cow_mapping}
  \cup IF CheriBSD THEN {vm_capdirty} ELSE {}

=============================================================================
