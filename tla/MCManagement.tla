----------------------------- MODULE MCManagement -----------------------------
(* Names for the small instances of Management. *)
EXTENDS Management

CONSTANTS noDir, box

\* Three words, two of them in two cases, and the empty one.
MCParts == {"ann", "Ann", "corp", "shop", "Shop", ""}
MCSmall == [p \in MCParts |-> CASE p = "Ann" -> "ann" [] p = "Shop" -> "shop" [] OTHER -> p]

MCUsernames == {<<"ann">>}
MCDomains == {<<"Shop">>, <<"ann", "corp">>}

\* Names without a domain, with one, with two '@', and without a user.
MCTyped == {<<"Ann">>, <<"ann", "corp">>, <<"Ann", "shop">>, <<"ann", "ann", "corp">>,
            <<"", "corp">>, <<"ann", "">>}

Entry(u, d, dir) ==
  [username |-> u, domain |-> d, maildir |-> dir, storage |-> "maildir", rest |-> 1]
\* Entries of one name in two cases, with the address for a name, and a directory.
MCEntries ==
  {Entry(<<"Ann">>, <<"corp">>, box), Entry(<<"ann">>, <<"corp">>, noDir),
   Entry(<<"ann", "corp">>, <<"">>, noDir)}

MCDomainFiles == {[name |-> <<"corp">>, info |-> 2], [name |-> <<"shop">>, info |-> 1]}
=============================================================================
