---------------------------- MODULE MCRevocation ----------------------------
(* The tests of the cheri_revoke_lib family over a small block. *)
EXTENDS Revocation

MCScripts ==
  {<<"LOAD_ONCE", "LOAD_SPLIT">>,                    \* cheri_revoke_lib
   <<"fork", "LOAD_ONCE", "LOAD_SPLIT">>,            \* .._fork
   <<"LOAD_SPLIT_INIT", "fork", "LOAD_SPLIT_FINI">>}  \* .._fork_split
  \cup                                               \* .._child_*
  {prior \o <<"exec", m>> :
     prior \in {<<>>, <<"LOAD_ONCE">>, <<"LOAD_SPLIT_INIT">>},
     m \in {"LOAD_ONCE", "LOAD_SPLIT"}}

=============================================================================
