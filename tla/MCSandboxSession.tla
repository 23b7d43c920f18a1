-------------------------- MODULE MCSandboxSession --------------------------
EXTENDS SandboxSession, TLC
Host(provider, account) == [provider |-> provider, account |-> account]
Apart == [b \in Backends |-> Host(b, b)]
OneProvider == [b \in Backends |-> Host("e2b", b)]
OneAccount == [b \in Backends |-> Host("e2b", "team")]
Hosts == {Apart, OneProvider, OneAccount}
Symmetry == Permutations(Calls) \union Permutations(Backends)
=============================================================================
