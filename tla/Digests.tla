------------------------------- MODULE Digests -------------------------------
(***************************************************************************)
(* What the modules of protocol-runtime share: the domain-separated hash   *)
(* and the absence of a value.                                             *)
(***************************************************************************)

\* sha256DomainSeparated: injective, and the domain is part of the preimage.
Digest(domain, content) == [domain |-> domain, content |-> content]

None == [none |-> "none"]
=============================================================================
