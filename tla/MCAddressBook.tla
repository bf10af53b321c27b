---------------------------- MODULE MCAddressBook ----------------------------
(* Symmetry of the address-book runs. *)
EXTENDS AddressBook, TLC

\* No property names an operation or an address id; the users differ by Overlap.
Interchangeable == Permutations(Reqs) \cup Permutations(AddrIds)
=============================================================================
