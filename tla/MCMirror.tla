------------------------------ MODULE MCMirror ------------------------------
(***************************************************************************)
(* TLC instance of Mirror: a message edited and then revoked, and a        *)
(* session that flaps.                                                     *)
(***************************************************************************)
EXTENDS Mirror

E(kind, of) == [kind |-> kind, of |-> of]

MCStreams == {<<E("message", 0), E("edit", 1), E("delete", 1)>>,
              <<E("connected", 0), E("down", 0), E("connected", 0)>>,
              <<E("read", 0), E("message", 0)>>}
=============================================================================
