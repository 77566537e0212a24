----------------------------- MODULE MCRegistry -----------------------------
(* Small instances of Registry.  The names and services are chosen so that *)
(* two different streams have the same key, "a/b/c".                       *)
EXTENDS Registry, TLC

Symmetry == Permutations(Sessions)

TwoNames == {"a", "a/b"}
TwoServices == {"b/c", "c"}
TwoPasswords == {"p", "root"}
Root == {"root"}

\* Two clients with one password: the later entry takes it over.
Proxies == {[name |-> "a", service |-> "b/c", password |-> "p"],
            [name |-> "a/b", service |-> "c", password |-> "p"]}
OneProxy == <<[name |-> "a", service |-> "b/c", password |-> "p"]>>

Slashed(name, service) == name \o "/" \o service
=============================================================================
