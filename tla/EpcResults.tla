------------------------------ MODULE EpcResults ------------------------------
(***************************************************************************)
(* What a call returns: Rust's Result, and the panic that is none.  Of an  *)
(* error only the fact is kept.                                            *)
(***************************************************************************)
Ok(value) == [tag |-> "ok", value |-> value]
Err       == [tag |-> "err"]
Panic     == [tag |-> "panic"]

Tags == {"ok", "err", "panic"}

Calls == {"new", "from_canonical", "set", "get", "to_canonical"}

\* No canonical value has been written.
NoValue == [tag |-> "none"]

=============================================================================
