------------------------------- MODULE MCSpawn ------------------------------
(* All command lines of a few words over a small registry of tests. *)
EXTENDS Spawn

O(letter) == <<"opt", letter>>
A(text) == <<"arg", text>>

MCTests == <<"plain", "spawner", "childless">>
MCSlow == {"plain"}
MCHasChild == {"spawner"}
MCSpawners == {"spawner"}
MCMatches(pattern, name) == pattern = "*" \/ pattern = name

(* Up to three options, then up to two arguments. *)
Letters == {"a", "c", "E", "g", "K", "l", "v", "q", "Q", "u"}
Opts == {<<>>} \cup {<<O(x)>> : x \in Letters}
        \cup {<<O(x), O(y)>> : x, y \in Letters}
        \cup {<<O(x), O(y), O(z)>> : x, y, z \in {"E", "K", "c", "v", "l", "f"}}
Args == {<<>>} \cup {<<A(x)>> : x \in {"spawner", "childless", "*", "nosuch"}}
        \cup {<<A("spawner"), A("*")>>, <<A("plain"), A("spawner")>>}
MCCommandLines == {o \o a : o \in Opts, a \in Args}

(* One word that would be an option if it came first, one name. *)
MCExtras == {<<>>, <<A("AAAA")>>, <<O("l"), A("plain")>>}

=============================================================================
