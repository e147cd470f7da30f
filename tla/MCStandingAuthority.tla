------------------------- MODULE MCStandingAuthority -------------------------
(***************************************************************************)
(* A server that binds and revokes, and one that decides and changes the    *)
(* profile.                                                                *)
(***************************************************************************)
EXTENDS StandingAuthority

CONSTANTS reader, server

MCWork == [c \in Call |->
  IF c = reader THEN {[kind |-> "bind"], [kind |-> "revoke"]}
  ELSE {[kind |-> k] : k \in {"configure", "revoke", "install"}}
         \cup [kind : {"decide"}, proposal : Proposal]]

MCRules == [p \in Policy |->
  << [id |-> "first", effect |-> "allow", proposals |-> Proposal],
     [id |-> "second", effect |-> "allow", proposals |-> Proposal],
     [id |-> "never", effect |-> "deny", proposals |-> {}] >>]

MCAlwaysPrompt == [p \in Policy |-> {}]
MCBudget == [r \in RuleId |-> 1]
=============================================================================
