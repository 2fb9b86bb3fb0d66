----------------------------- MODULE NodeProperty -----------------------------
(***************************************************************************)
(* StaticNodeProperty (src/middleware/epc_types.rs): the value of one      *)
(* ECHONET Lite property, kept in the form in which it goes on the wire -  *)
(* a byte for the EPC, a byte for the length of the data (PDC), the data   *)
(* (EDT) - and the four calls that read and write it.                      *)
(*                                                                         *)
(* What a value means is up to three closures given to the constructor,    *)
(* one set for each kind of property.  They are constants here; module     *)
(* EpcCodecs has the ones of the program.  Each returns a record that says *)
(* whether it returned Ok or Err or panicked.                              *)
(***************************************************************************)
EXTENDS Integers, Sequences, EpcResults

CONSTANTS
    Kinds,                     \* the kinds of property
    Epc(_),                    \* the EPC of a kind
    Canonicals(_),             \* canonical values of a kind
    Edts(_),                   \* data a peer sends for a kind
    FromCanonicalFn(_, _),     \* from_canonical_fn: kind, canonical
    ToCanonicalFn(_, _),       \* to_canonical_fn: kind, internal
    ValidatorFn(_, _, _)       \* validator_fn: kind, internal, and what
                               \*   to_canonical returns when it is called

Byte == 0..255

ASSUME EpcAssumption == \A kind \in Kinds : Epc(kind) \in Byte

ASSUME EdtsAssumption == \A kind \in Kinds : Edts(kind) \subseteq Seq(Byte)

ASSUME FromCanonicalAssumption ==
    \A kind \in Kinds : \A canonical \in Canonicals(kind) :
        LET encoded == FromCanonicalFn(kind, canonical)
        IN  encoded.tag = "ok" => encoded.value \in Seq(Byte)

VARIABLES
    kind,            \* the kind of this property; it never changes
    last_value,      \* the bytes last stored
    last_updated,    \* has a value ever been stored?
    result,          \* the call made last, and what it returned
    written          \* the canonical value last stored by from_canonical,
                     \*   unless set has stored other data since

vars == <<kind, last_value, last_updated, result, written>>

-----------------------------------------------------------------------------
\* Mutant: the length is not cut to a byte.
PDCUncut(length) == length

\* The PDC of a value: its length, as far as a byte can say it.
PDC(length) == IF length > 255 THEN 255 ELSE length

\* Mutant: the length given is that of the whole buffer.
WithHeaderLength(internal) ==
    [internal EXCEPT ![1] = Epc(kind), ![2] = PDC(Len(internal))]

\* The first two bytes of the buffer are overwritten, whatever they hold.
WithHeader(internal) ==
    [internal EXCEPT ![1] = Epc(kind), ![2] = PDC(Len(internal) - 2)]

\* What to_canonical returns now.
Read ==
    IF last_updated THEN ToCanonicalFn(kind, last_value) ELSE Err

\* The data without the header, as get copies it.
Data == SubSeq(last_value, 3, Len(last_value))

Init ==
    /\ kind \in Kinds
    /\ last_value = <<>>
    /\ last_updated = FALSE
    /\ result = [call |-> "new", tag |-> "ok"]
    /\ written = NoValue

\* A panic ends the process.
Alive == result.tag # "panic"

Returns(call, tag) ==
    /\ result' = [call |-> call, tag |-> tag]
    /\ UNCHANGED <<kind, last_value, last_updated, written>>

Stores(call, internal, canonical) ==
    /\ last_value' = internal
    /\ last_updated' = TRUE
    /\ written' = canonical
    /\ result' = [call |-> call, tag |-> "ok"]
    /\ UNCHANGED kind

-----------------------------------------------------------------------------
\* from_canonical, when the conversion fails.
FromCanonicalUnconverted(canonical) ==
    LET encoded == FromCanonicalFn(kind, canonical)
    IN  /\ encoded.tag # "ok"
        /\ Returns("from_canonical", encoded.tag)

\* from_canonical, when the buffer has no room for the header.
FromCanonicalTooShort(canonical) ==
    LET encoded == FromCanonicalFn(kind, canonical)
    IN  /\ encoded.tag = "ok"
        /\ Len(encoded.value) < 2
        /\ Returns("from_canonical", "err")

\* The verdict on a buffer: the validator may return Err, or Ok of a Boolean.
Verdict(internal) == ValidatorFn(kind, internal, Read)

\* from_canonical, when the validator panics, returns Err or Ok(false).
FromCanonicalRefused(canonical) ==
    LET encoded == FromCanonicalFn(kind, canonical)
    IN  /\ encoded.tag = "ok"
        /\ Len(encoded.value) >= 2
        /\ LET verdict == Verdict(WithHeader(encoded.value))
           IN  /\ verdict # Ok(TRUE)
               /\ Returns("from_canonical",
                          IF verdict.tag = "panic" THEN "panic" ELSE "err")

FromCanonical(canonical) ==
    LET encoded == FromCanonicalFn(kind, canonical)
    IN  /\ encoded.tag = "ok"
        /\ Len(encoded.value) >= 2
        /\ LET internal == WithHeader(encoded.value)
           IN  /\ Verdict(internal) = Ok(TRUE)
               /\ Stores("from_canonical", internal, Ok(canonical))

\* set copies the data behind a header of its own making.
Framed(edt) == WithHeader(<<0, 0>> \o edt)

\* set, when the validator panics or returns Err.
SetRefused(edt) ==
    LET verdict == Verdict(Framed(edt))
    IN  /\ verdict.tag # "ok"
        /\ Returns("set", verdict.tag)

\* Mutant: the value is stored before it is validated.
SetThenValidate(edt) ==
    LET verdict == Verdict(Framed(edt))
    IN  /\ last_value' = Framed(edt)
        /\ last_updated' = TRUE
        /\ written' = NoValue
        /\ result' = [call |-> "set", tag |-> verdict.tag]
        /\ UNCHANGED kind

\* set otherwise; the Boolean in the verdict is not looked at.
Set(edt) ==
    LET verdict == Verdict(Framed(edt))
    IN  /\ verdict.tag = "ok"
        /\ Stores("set", Framed(edt), NoValue)

Get == Returns("get", IF last_updated THEN "ok" ELSE "err")

ToCanonical == Returns("to_canonical", Read.tag)

\* The process is gone.
Panicked == ~ Alive /\ UNCHANGED vars

Next ==
    \/ /\ Alive
       /\ \E canonical \in Canonicals(kind) :
             \/ FromCanonicalUnconverted(canonical)
             \/ FromCanonicalTooShort(canonical)
             \/ FromCanonicalRefused(canonical)
             \/ FromCanonical(canonical)
    \/ /\ Alive
       /\ \E edt \in Edts(kind) : SetRefused(edt) \/ Set(edt)
    \/ Alive /\ (Get \/ ToCanonical)
    \/ Panicked

Spec == Init /\ [][Next]_vars

-----------------------------------------------------------------------------
(* Properties.                                                             *)

\* The types of the variables.
TypeOK ==
    /\ kind \in Kinds
    /\ last_value \in Seq(Byte)
    /\ last_updated \in BOOLEAN
    /\ result \in [call : Calls, tag : Tags]
    /\ written = NoValue
         \/ \E canonical \in Canonicals(kind) : written = Ok(canonical)

\* A stored value is ready for the wire (the comment on last_value: "it is
\* ready to be used immediately"): it starts with its EPC and the length of
\* its data, which the conversions never set themselves.  Of data too long for
\* a byte the length is the largest.
HeaderWellFormed ==
    last_updated =>
        /\ Len(last_value) >= 2
        /\ last_value[1] = Epc(kind)
        /\ Len(last_value) <= 257 => last_value[2] = Len(last_value) - 2
        /\ Len(last_value) > 257 => last_value[2] = 255

\* A call that fails, at whatever point, leaves the stored value as it was
\* (set: "Copy and validate before actually setting").
FailuresKeepValue ==
    [][ result'.tag # "ok" =>
            UNCHANGED <<last_value, last_updated, written>> ]_vars

\* Everything stored has passed the validator, through both ways in: a peer
\* that is sent the value accepts it.
StoredIsValid == last_updated => Verdict(last_value) = Ok(TRUE)

\* No call panics, whatever was stored before.
NeverPanics == Alive

\* A value that was written as a canonical value reads back as that value, up
\* to what its type cannot hold (Nearest).
ReadsBack(Nearest(_, _)) ==
    \A canonical \in Canonicals(kind) :
        written = Ok(canonical) => Read = Ok(Nearest(kind, canonical))

=============================================================================
