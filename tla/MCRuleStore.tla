---- MODULE MCRuleStore ----
(***************************************************************************)
(* Lines of one and two characters, for two clients.  The careful one has  *)
(* eight bytes of rules and five of configuration: lists of no line to     *)
(* three, lines that grow and shrink in front of others.  The documented   *)
(* one has six and three: lists that fill their place to the last byte.    *)
(* In MCRoomBehind a list of rules may end where the other list begins.    *)
(***************************************************************************)
EXTENDS RuleStore

MCLines == {<<7>>, <<8, 9>>}
MCFileLines == << <<7>> >>
Store(client, conf, size, rules) ==
    [client |-> client, conf |-> conf, size |-> size, rules |-> rules]
MCStores == {Store("careful", 8, 13, 3), Store("documented", 6, 9, 2)}
MCRoomBehind == {Store("documented", 8, 14, 3)}
====
