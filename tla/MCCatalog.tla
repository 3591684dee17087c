------------------------------ MODULE MCCatalog -----------------------------
(* A small instance of Catalog. *)
EXTENDS Catalog, TLC

CONSTANTS a, b, u, v, d1, d2

S(n, x, l) == [name |-> n, alias |-> x, url |-> l]
H(n, x) == [name |-> n, alias |-> x]
C(ss, hs, d) == [servers |-> ss, services |-> hs, db |-> d]

\* A server with the alias of its name left out; the same server, re-pointed, with a
\* service, in another database; a server that has the first one's name as its alias; two
\* servers that answer to one name, which Load refuses; and a file that does not parse.
Files ==
  {C(<<S(a, None, u)>>, <<>>, d1),
   C(<<S(a, None, v)>>, <<H(b, None)>>, d2),
   C(<<S(b, a, u)>>, <<>>, d1),
   C(<<S(b, a, u), S(a, b, u)>>, <<>>, d1),
   None}

Asked == {S(b, None, u)}

=============================================================================
