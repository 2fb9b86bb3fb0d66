-------------------------- MODULE NodePropertyProofs --------------------------
(***************************************************************************)
(* Proofs about NodeProperty for every choice of the conversion closures.  *)
(* What holds of any closures is proved from Tagged alone; what depends on *)
(* them is proved for the kinds whose closures keep one of the contracts   *)
(* stated here, which say what the four calls need of them.                *)
(***************************************************************************)
EXTENDS NodeProperty, TLAPS

\* The closures return Ok or Err or panic.
Tagged ==
    /\ \A k \in Kinds : \A canonical \in Canonicals(k) :
          FromCanonicalFn(k, canonical).tag \in Tags
    /\ \A k \in Kinds, internal \in Seq(Byte) :
          /\ ToCanonicalFn(k, internal).tag \in Tags
          /\ \A stored :
                stored.tag \in Tags =>
                    ValidatorFn(k, internal, stored).tag \in Tags

\* The validator does not look at what is stored.
LooksAtBytes(k) ==
    \A internal \in Seq(Byte) :
        \A stored, other :
            ValidatorFn(k, internal, stored) = ValidatorFn(k, internal, other)

\* When the validator returns Ok it returns Ok(true).
AnswersTrue(k) ==
    \A internal \in Seq(Byte) :
        \A stored :
            LET verdict == ValidatorFn(k, internal, stored)
            IN  verdict.tag = "ok" => verdict = Ok(TRUE)

\* The validator accepts only when a stored value can be read.
NeedsStored(k) ==
    \A internal \in Seq(Byte) :
        \A stored :
            stored.tag # "ok" => ValidatorFn(k, internal, stored).tag # "ok"

-----------------------------------------------------------------------------
\* The length of a value, cut to a byte.
LEMMA PDCByte ==
    ASSUME NEW length \in Nat
    PROVE  PDC(length) \in Byte
<1>1. CASE length > 255
  BY <1>1 DEF PDC, Byte
<1>2. CASE length <= 255
  BY <1>2 DEF PDC, Byte
<1> QED
  BY <1>1, <1>2

\* The header is written over the first two bytes and nothing else changes.
LEMMA HeaderWritten ==
    ASSUME kind \in Kinds, NEW internal \in Seq(Byte), Len(internal) >= 2
    PROVE  /\ WithHeader(internal) \in Seq(Byte)
           /\ Len(WithHeader(internal)) = Len(internal)
           /\ WithHeader(internal)[1] = Epc(kind)
           /\ WithHeader(internal)[2] = PDC(Len(internal) - 2)
<1>1. Epc(kind) \in Byte
  BY EpcAssumption
<1>2. PDC(Len(internal) - 2) \in Byte
  <2>1. Len(internal) - 2 \in Nat
    OBVIOUS
  <2> QED
    BY <2>1, PDCByte
<1>3. {1, 2} \subseteq DOMAIN internal
  OBVIOUS
<1> QED
  BY <1>1, <1>2, <1>3 DEF WithHeader

\* The buffer that set makes.
LEMMA FrameWritten ==
    ASSUME kind \in Kinds, NEW edt \in Edts(kind)
    PROVE  /\ Framed(edt) \in Seq(Byte)
           /\ Len(Framed(edt)) >= 2
           /\ Framed(edt)[1] = Epc(kind)
           /\ Framed(edt)[2] = PDC(Len(Framed(edt)) - 2)
<1>1. edt \in Seq(Byte)
  BY EdtsAssumption
<1>2. <<0, 0>> \in Seq(Byte) /\ Len(<<0, 0>>) = 2
  BY DEF Byte
<1>3. /\ <<0, 0>> \o edt \in Seq(Byte)
      /\ Len(<<0, 0>> \o edt) = 2 + Len(edt)
  BY <1>1, <1>2
<1>4. Len(<<0, 0>> \o edt) >= 2
  BY <1>1, <1>3
<1> QED
  BY <1>3, <1>4, HeaderWritten DEF Framed

\* The buffer that from_canonical makes.
LEMMA EncodedWritten ==
    ASSUME kind \in Kinds, NEW canonical \in Canonicals(kind),
           FromCanonicalFn(kind, canonical).tag = "ok",
           Len(FromCanonicalFn(kind, canonical).value) >= 2
    PROVE  LET internal == WithHeader(FromCanonicalFn(kind, canonical).value)
           IN  /\ internal \in Seq(Byte)
               /\ Len(internal) >= 2
               /\ internal[1] = Epc(kind)
               /\ internal[2] = PDC(Len(internal) - 2)
<1>1. FromCanonicalFn(kind, canonical).value \in Seq(Byte)
  BY FromCanonicalAssumption
<1> QED
  BY <1>1, HeaderWritten

\* The value that to_canonical returns is of one of the three tags.
LEMMA ReadTagged ==
    ASSUME Tagged, TypeOK
    PROVE  Read.tag \in Tags
<1>1. CASE last_updated
  BY <1>1 DEF Tagged, TypeOK, Read
<1>2. CASE ~ last_updated
  BY <1>2 DEF Read, Err, Tags
<1> QED
  BY <1>1, <1>2

-----------------------------------------------------------------------------
(* What holds of any closures.                                             *)

\* What TypeOK and HeaderWellFormed need of each other.
Inv == TypeOK /\ HeaderWellFormed

LEMMA InitInv == Init => Inv
<1> SUFFICES ASSUME Init PROVE Inv
  OBVIOUS
<1>1. last_value \in Seq(Byte)
  BY DEF Init
<1>2. result \in [call : Calls, tag : Tags]
  BY DEF Init, Calls, Tags
<1> QED
  BY <1>1, <1>2 DEF Init, Inv, TypeOK, HeaderWellFormed

\* A call that stores nothing keeps the invariant.
LEMMA ReturnsInv ==
    ASSUME Inv, NEW call \in Calls, NEW tag \in Tags, Returns(call, tag)
    PROVE  Inv'
  BY DEF Inv, TypeOK, HeaderWellFormed, Returns

\* Storing a buffer with a header keeps the invariant.
LEMMA StoresInv ==
    ASSUME Inv, NEW call \in Calls, NEW internal \in Seq(Byte), NEW value,
           Len(internal) >= 2,
           internal[1] = Epc(kind),
           internal[2] = PDC(Len(internal) - 2),
           value = NoValue
             \/ \E canonical \in Canonicals(kind) : value = Ok(canonical),
           Stores(call, internal, value)
    PROVE  Inv'
<1>1. TypeOK'
  BY DEF Inv, TypeOK, Stores, Tags
<1>2. HeaderWellFormed'
  <2>1. /\ Len(internal) <= 257 => PDC(Len(internal) - 2) = Len(internal) - 2
        /\ Len(internal) > 257 => PDC(Len(internal) - 2) = 255
    BY DEF PDC
  <2> QED
    BY <2>1 DEF HeaderWellFormed, Stores
<1> QED
  BY <1>1, <1>2 DEF Inv

LEMMA InvInductive ==
    ASSUME Tagged, Inv, [Next]_vars
    PROVE  Inv'
<1> USE DEF Calls
<1>0. kind \in Kinds
  BY DEF Inv, TypeOK
<1>1. ASSUME NEW canonical \in Canonicals(kind),
             FromCanonicalUnconverted(canonical)
      PROVE  Inv'
  <2>1. FromCanonicalFn(kind, canonical).tag \in Tags
    BY <1>0 DEF Tagged
  <2> QED
    BY <1>1, <2>1, ReturnsInv DEF FromCanonicalUnconverted
<1>2. ASSUME NEW canonical \in Canonicals(kind),
             FromCanonicalTooShort(canonical)
      PROVE  Inv'
  BY <1>2, ReturnsInv DEF FromCanonicalTooShort, Tags
<1>3. ASSUME NEW canonical \in Canonicals(kind),
             FromCanonicalRefused(canonical)
      PROVE  Inv'
  BY <1>3, ReturnsInv DEF FromCanonicalRefused, Tags
<1>4. ASSUME NEW canonical \in Canonicals(kind),
             FromCanonical(canonical)
      PROVE  Inv'
  BY <1>0, <1>4, EncodedWritten, StoresInv DEF FromCanonical
<1>5. ASSUME NEW edt \in Edts(kind), SetRefused(edt)
      PROVE  Inv'
  <2>1. Verdict(Framed(edt)).tag \in Tags
    BY <1>0, FrameWritten, ReadTagged DEF Tagged, Verdict, Inv
  <2> QED
    BY <1>5, <2>1, ReturnsInv DEF SetRefused
<1>6. ASSUME NEW edt \in Edts(kind), Set(edt)
      PROVE  Inv'
  BY <1>0, <1>6, FrameWritten, StoresInv DEF Set
<1>7. CASE Get
  BY <1>7, ReturnsInv DEF Get, Tags
<1>8. CASE ToCanonical
  BY <1>8, ReturnsInv, ReadTagged DEF ToCanonical, Inv
<1>9. CASE UNCHANGED vars
  BY <1>9 DEF vars, Inv, TypeOK, HeaderWellFormed
<1> QED
  BY <1>1, <1>2, <1>3, <1>4, <1>5, <1>6, <1>7, <1>8, <1>9
     DEF Next, Panicked

\* The variables keep their types, whatever the closures, as long as they
\* return.
THEOREM TypeCorrect == ASSUME Tagged PROVE Spec => []TypeOK
<1>1. Inv => TypeOK
  BY DEF Inv
<1> QED
  BY <1>1, InitInv, InvInductive, PTL DEF Spec

\* A stored value always starts with its own EPC and the length of its data,
\* however from_canonical, set and their failures follow each other.
THEOREM HeaderCorrect == ASSUME Tagged PROVE Spec => []HeaderWellFormed
<1>1. Inv => HeaderWellFormed
  BY DEF Inv
<1> QED
  BY <1>1, InitInv, InvInductive, PTL DEF Spec

\* A call that does not return Ok leaves the stored value alone.
THEOREM FailuresKeep == Spec => FailuresKeepValue
<1>1. [Next]_vars =>
          [result'.tag # "ok" =>
               UNCHANGED <<last_value, last_updated, written>>]_vars
  <2>1. ASSUME NEW canonical \in Canonicals(kind),
               \/ FromCanonicalUnconverted(canonical)
               \/ FromCanonicalTooShort(canonical)
               \/ FromCanonicalRefused(canonical)
        PROVE  UNCHANGED <<last_value, last_updated, written>>
    BY <2>1 DEF FromCanonicalUnconverted, FromCanonicalTooShort,
                FromCanonicalRefused, Returns
  <2>2. ASSUME NEW canonical \in Canonicals(kind), FromCanonical(canonical)
        PROVE  result'.tag = "ok"
    BY <2>2 DEF FromCanonical, Stores
  <2>3. ASSUME NEW edt \in Edts(kind), SetRefused(edt)
        PROVE  UNCHANGED <<last_value, last_updated, written>>
    BY <2>3 DEF SetRefused, Returns
  <2>4. ASSUME NEW edt \in Edts(kind), Set(edt)
        PROVE  result'.tag = "ok"
    BY <2>4 DEF Set, Stores
  <2>5. CASE Get \/ ToCanonical
    BY <2>5 DEF Get, ToCanonical, Returns
  <2> QED
    BY <2>1, <2>2, <2>3, <2>4, <2>5 DEF Next, Panicked
<1> QED
  BY <1>1, PTL DEF Spec, FailuresKeepValue

-----------------------------------------------------------------------------
(* What holds of closures that keep a contract.                            *)

\* What is stored is valid if the validator looks at the bytes alone and either
\* never answers Ok(false) or was asked by from_canonical; and nothing is ever
\* stored if the validator needs a stored value.
Checked == LooksAtBytes(kind) /\ (AnswersTrue(kind) \/ written.tag = "ok")

ValidInv ==
    /\ Inv
    /\ Checked => StoredIsValid
    /\ NeedsStored(kind) => ~ last_updated

\* The verdict on a buffer does not change when another value is stored.
LEMMA SameVerdict ==
    ASSUME LooksAtBytes(kind), kind' = kind,
           NEW internal \in Seq(Byte), last_value' = internal,
           Verdict(internal) = Ok(TRUE)
    PROVE  StoredIsValid'
<1>1. ValidatorFn(kind, internal, Read') = ValidatorFn(kind, internal, Read)
  BY DEF LooksAtBytes
<1>2. Verdict(last_value)' = ValidatorFn(kind, internal, Read')
  BY DEF Verdict
<1>3. Verdict(last_value)' = Ok(TRUE)
  BY <1>1, <1>2 DEF Verdict
<1>4. Ok(TRUE)' = Ok(TRUE)
  BY DEF Ok
<1> QED
  BY <1>3, <1>4 DEF StoredIsValid

\* A call that stores nothing leaves the stored value as valid as it was.
LEMMA ReturnsValid ==
    ASSUME StoredIsValid,
           UNCHANGED <<kind, last_value, last_updated>>
    PROVE  StoredIsValid'
<1>1. Read' = Read
  BY DEF Read, Err
<1>2. Verdict(last_value)' = Verdict(last_value)
  BY <1>1 DEF Verdict
<1> QED
  BY <1>2 DEF StoredIsValid, Ok

\* Nothing is stored by a call that does not change last_updated.
LEMMA KeepsValid ==
    ASSUME ValidInv, UNCHANGED <<kind, last_value, last_updated, written>>
    PROVE  /\ Checked' => StoredIsValid'
           /\ NeedsStored(kind)' => ~ last_updated'
<1>1. Checked' = Checked /\ NeedsStored(kind)' = NeedsStored(kind)
  BY DEF Checked, LooksAtBytes, AnswersTrue, NeedsStored, Ok
<1> QED
  BY <1>1, ReturnsValid DEF ValidInv

\* A call that stores a buffer for which the verdict was Ok, and Ok(true) if the
\* call was from_canonical.
LEMMA StoresValid ==
    ASSUME ValidInv, NEW internal \in Seq(Byte), kind' = kind,
           last_value' = internal, Verdict(internal).tag = "ok",
           written'.tag = "ok" => Verdict(internal) = Ok(TRUE)
    PROVE  /\ Checked' => StoredIsValid'
           /\ NeedsStored(kind)' => ~ last_updated'
<1>1. /\ LooksAtBytes(kind)' = LooksAtBytes(kind)
      /\ AnswersTrue(kind)' = AnswersTrue(kind)
      /\ NeedsStored(kind)' = NeedsStored(kind)
  BY DEF LooksAtBytes, AnswersTrue, NeedsStored, Ok
<1>2. ASSUME Checked' PROVE StoredIsValid'
  <2>1. LooksAtBytes(kind) /\ (AnswersTrue(kind) \/ written'.tag = "ok")
    BY <1>1, <1>2 DEF Checked
  <2>2. AnswersTrue(kind) => Verdict(internal) = Ok(TRUE)
    BY DEF AnswersTrue, Verdict
  <2> QED
    BY <2>1, <2>2, SameVerdict
<1>3. ~ NeedsStored(kind)
  <2> SUFFICES ASSUME NeedsStored(kind) PROVE FALSE
    OBVIOUS
  <2>1. Read.tag # "ok"
    BY DEF ValidInv, Read, Err
  <2> QED
    BY <2>1 DEF NeedsStored, Verdict
<1> QED
  BY <1>1, <1>2, <1>3

LEMMA ValidInductive ==
    ASSUME Tagged, ValidInv, [Next]_vars
    PROVE  ValidInv'
<1> DEFINE Valid ==
        (Checked => StoredIsValid) /\ (NeedsStored(kind) => ~ last_updated)
<1>0. kind \in Kinds /\ Inv
  BY DEF ValidInv, Inv, TypeOK
<1>1. Inv'
  BY <1>0, InvInductive
<1>2. ASSUME NEW canonical \in Canonicals(kind),
             \/ FromCanonicalUnconverted(canonical)
             \/ FromCanonicalTooShort(canonical)
             \/ FromCanonicalRefused(canonical)
      PROVE  Valid'
  BY <1>2, KeepsValid
     DEF FromCanonicalUnconverted, FromCanonicalTooShort,
         FromCanonicalRefused, Returns
<1>3. ASSUME NEW canonical \in Canonicals(kind), FromCanonical(canonical)
      PROVE  Valid'
  <2> DEFINE internal == WithHeader(FromCanonicalFn(kind, canonical).value)
  <2>1. internal \in Seq(Byte) /\ Verdict(internal) = Ok(TRUE)
    BY <1>0, <1>3, EncodedWritten DEF FromCanonical
  <2>2. Verdict(internal).tag = "ok"
    BY <2>1 DEF Ok
  <2>3. kind' = kind /\ last_value' = internal
    BY <1>3 DEF FromCanonical, Stores
  <2> QED
    BY <2>1, <2>2, <2>3, StoresValid
<1>4. ASSUME NEW edt \in Edts(kind), SetRefused(edt)
      PROVE  Valid'
  BY <1>4, KeepsValid DEF SetRefused, Returns
<1>5. ASSUME NEW edt \in Edts(kind), Set(edt)
      PROVE  Valid'
  <2>1. Framed(edt) \in Seq(Byte)
    BY <1>0, FrameWritten
  <2>2. /\ kind' = kind /\ last_value' = Framed(edt)
        /\ Verdict(Framed(edt)).tag = "ok"
        /\ written'.tag # "ok"
    BY <1>5 DEF Set, Stores, NoValue
  <2> QED
    BY <2>1, <2>2, StoresValid
<1>6. ASSUME Get \/ ToCanonical PROVE Valid'
  BY <1>6, KeepsValid DEF Get, ToCanonical, Returns
<1>7. ASSUME UNCHANGED vars PROVE Valid'
  BY <1>7, KeepsValid DEF vars
<1>8. Valid'
  BY <1>2, <1>3, <1>4, <1>5, <1>6, <1>7 DEF Next, Panicked
<1> QED
  BY <1>1, <1>8 DEF ValidInv

LEMMA InitValid == Init => ValidInv
  BY InitInv DEF Init, ValidInv, StoredIsValid

\* Everything stored passes the validator, although set does not look at the
\* Boolean in the verdict: if the validator looks at the bytes alone, and never
\* returns Ok(false) or the value came through from_canonical, which does look;
\* or if the validator needs a value stored before, and so never gets one.
THEOREM StoredValid ==
    ASSUME Tagged
    PROVE  Spec => [](Checked \/ NeedsStored(kind) => StoredIsValid)
<1>1. ValidInv => (Checked \/ NeedsStored(kind) => StoredIsValid)
  BY DEF ValidInv, StoredIsValid
<1> QED
  BY <1>1, InitValid, ValidInductive, PTL DEF Spec

-----------------------------------------------------------------------------
(* Panics.                                                                 *)

\* What is stored has passed the validator, as far as set looks at it.
AcceptedInv ==
    /\ Inv
    /\ last_updated => \E stored : ValidatorFn(kind, last_value, stored).tag = "ok"

\* A validator panics on a buffer now.
ValidatorPanics ==
    \E internal \in Seq(Byte) : Verdict(internal).tag = "panic"

\* What a call that panicked has met with: an encoder, a decoder or a validator
\* that panics.
PanicHasCause ==
    ~ Alive =>
        \/ /\ result.call = "from_canonical"
           /\ \E canonical \in Canonicals(kind) :
                 FromCanonicalFn(kind, canonical).tag = "panic"
        \/ result.call = "to_canonical" /\ Read.tag = "panic"
        \/ ValidatorPanics

LEMMA AcceptedInductive ==
    ASSUME Tagged, AcceptedInv, [Next]_vars
    PROVE  AcceptedInv'
<1> DEFINE Judged ==
        last_updated =>
            \E stored : ValidatorFn(kind, last_value, stored).tag = "ok"
<1>0. kind \in Kinds /\ Inv /\ Judged
  BY DEF AcceptedInv, Inv, TypeOK
<1>1. Inv'
  BY <1>0, InvInductive
<1>2. ASSUME UNCHANGED <<kind, last_value, last_updated>>
      PROVE  Judged'
  BY <1>0, <1>2
<1>3. ASSUME NEW canonical \in Canonicals(kind), FromCanonical(canonical)
      PROVE  Judged'
  BY <1>3 DEF FromCanonical, Stores, Verdict, Ok
<1>4. ASSUME NEW edt \in Edts(kind), Set(edt)
      PROVE  Judged'
  BY <1>4 DEF Set, Stores, Verdict
<1>5. Judged'
  BY <1>2, <1>3, <1>4
     DEF Next, Panicked, FromCanonicalUnconverted, FromCanonicalTooShort,
         FromCanonicalRefused, SetRefused, Get, ToCanonical, Returns, vars
<1> QED
  BY <1>1, <1>5 DEF AcceptedInv

\* A cause is not removed by a call that stores nothing.
LEMMA CauseKept ==
    ASSUME UNCHANGED <<kind, last_value, last_updated>>
    PROVE  /\ Read' = Read
           /\ ValidatorPanics' = ValidatorPanics
<1>1. Read' = Read
  BY DEF Read, Err
<1> QED
  BY <1>1 DEF ValidatorPanics, Verdict

LEMMA CauseInductive ==
    ASSUME AcceptedInv, PanicHasCause, [Next]_vars
    PROVE  PanicHasCause'
<1>0. kind \in Kinds
  BY DEF AcceptedInv, Inv, TypeOK
<1>1. ASSUME NEW canonical \in Canonicals(kind),
             FromCanonicalUnconverted(canonical)
      PROVE  PanicHasCause'
  BY <1>1 DEF FromCanonicalUnconverted, Returns, PanicHasCause, Alive
<1>2. ASSUME NEW canonical \in Canonicals(kind),
             FromCanonicalTooShort(canonical)
      PROVE  PanicHasCause'
  BY <1>2 DEF FromCanonicalTooShort, Returns, PanicHasCause, Alive
<1>3. ASSUME NEW canonical \in Canonicals(kind),
             FromCanonicalRefused(canonical)
      PROVE  PanicHasCause'
  <2> DEFINE internal == WithHeader(FromCanonicalFn(kind, canonical).value)
  <2>1. internal \in Seq(Byte)
    BY <1>0, <1>3, EncodedWritten DEF FromCanonicalRefused
  <2>2. result'.tag = "panic" => Verdict(internal).tag = "panic"
    BY <1>3 DEF FromCanonicalRefused, Returns
  <2>3. ValidatorPanics' = ValidatorPanics
    BY <1>3, CauseKept DEF FromCanonicalRefused, Returns
  <2> QED
    BY <2>1, <2>2, <2>3 DEF PanicHasCause, Alive, ValidatorPanics
<1>4. ASSUME NEW canonical \in Canonicals(kind), FromCanonical(canonical)
      PROVE  PanicHasCause'
  BY <1>4 DEF FromCanonical, Stores, PanicHasCause, Alive
<1>5. ASSUME NEW edt \in Edts(kind), SetRefused(edt)
      PROVE  PanicHasCause'
  <2>1. Framed(edt) \in Seq(Byte)
    BY <1>0, FrameWritten
  <2>2. result'.tag = "panic" => Verdict(Framed(edt)).tag = "panic"
    BY <1>5 DEF SetRefused, Returns
  <2>3. ValidatorPanics' = ValidatorPanics
    BY <1>5, CauseKept DEF SetRefused, Returns
  <2> QED
    BY <2>1, <2>2, <2>3 DEF PanicHasCause, Alive, ValidatorPanics
<1>6. ASSUME NEW edt \in Edts(kind), Set(edt)
      PROVE  PanicHasCause'
  BY <1>6 DEF Set, Stores, PanicHasCause, Alive
<1>7. ASSUME Get PROVE PanicHasCause'
  BY <1>7 DEF Get, Returns, PanicHasCause, Alive
<1>8. ASSUME ToCanonical PROVE PanicHasCause'
  <2>1. /\ result'.call = "to_canonical" /\ result'.tag = Read.tag
        /\ Read' = Read
    BY <1>8, CauseKept DEF ToCanonical, Returns
  <2> QED
    BY <2>1 DEF PanicHasCause, Alive
<1>9. ASSUME UNCHANGED vars PROVE PanicHasCause'
  <2>1. /\ UNCHANGED <<kind, last_value, last_updated>> /\ result' = result
    BY <1>9 DEF vars
  <2>2. Read' = Read /\ ValidatorPanics' = ValidatorPanics
    BY <2>1, CauseKept
  <2> QED
    BY <2>1, <2>2 DEF PanicHasCause, Alive
<1> QED
  BY <1>1, <1>2, <1>3, <1>4, <1>5, <1>6, <1>7, <1>8, <1>9 DEF Next, Panicked

\* Whatever the closures, a call can only panic because the closure it calls
\* does, and to_canonical only on bytes to which the validator once answered
\* Ok: the validation in from_canonical and set is what protects it, however
\* long before the read the value was stored.
THEOREM PanicsHaveCauses ==
    ASSUME Tagged PROVE Spec => [](PanicHasCause /\ AcceptedInv)
<1>1. Init => AcceptedInv /\ PanicHasCause
  BY InitInv DEF Init, AcceptedInv, PanicHasCause, Alive
<1> QED
  BY <1>1, AcceptedInductive, CauseInductive, PTL DEF Spec

-----------------------------------------------------------------------------
\* The bytes from_canonical stores for a canonical value.
BytesFor(canonical) == WithHeader(FromCanonicalFn(kind, canonical).value)

\* What was written last is what is stored.
WrittenInv ==
    /\ Inv
    /\ \A canonical \in Canonicals(kind) :
          written = Ok(canonical) =>
              /\ FromCanonicalFn(kind, canonical).tag = "ok"
              /\ Len(FromCanonicalFn(kind, canonical).value) >= 2
              /\ last_updated
              /\ last_value = BytesFor(canonical)

LEMMA WrittenInductive ==
    ASSUME Tagged, WrittenInv, [Next]_vars
    PROVE  WrittenInv'
<1> DEFINE Stored(canonical) ==
             /\ FromCanonicalFn(kind, canonical).tag = "ok"
             /\ Len(FromCanonicalFn(kind, canonical).value) >= 2
             /\ last_updated
             /\ last_value = BytesFor(canonical)
           Written ==
             \A canonical \in Canonicals(kind) :
                 written = Ok(canonical) => Stored(canonical)
<1>0. kind \in Kinds /\ Inv /\ Written
  BY DEF WrittenInv, Inv, TypeOK
<1>1. Inv'
  BY <1>0, InvInductive
<1>2. ASSUME UNCHANGED <<kind, last_value, last_updated, written>>
      PROVE  Written'
  BY <1>0, <1>2 DEF BytesFor, WithHeader, PDC, Ok
<1>3. ASSUME NEW canonical \in Canonicals(kind), FromCanonical(canonical)
      PROVE  Written'
  <2>1. /\ FromCanonicalFn(kind, canonical).tag = "ok"
        /\ Len(FromCanonicalFn(kind, canonical).value) >= 2
        /\ last_updated' = TRUE
        /\ last_value' = BytesFor(canonical)
        /\ kind' = kind
        /\ written' = Ok(canonical)
    BY <1>3 DEF FromCanonical, Stores, BytesFor
  <2>2. BytesFor(canonical)' = BytesFor(canonical)
    BY <2>1 DEF BytesFor, WithHeader, PDC
  <2>3. ASSUME NEW other \in Canonicals(kind), written' = Ok(other)
        PROVE  other = canonical
    BY <2>1, <2>3 DEF Ok
  <2>4. \A other \in Canonicals(kind) : Ok(other)' = Ok(other)
    BY DEF Ok
  <2> QED
    BY <2>1, <2>2, <2>3, <2>4
<1>4. ASSUME NEW edt \in Edts(kind), Set(edt)
      PROVE  Written'
  BY <1>4 DEF Set, Stores, NoValue, Ok
<1>5. Written'
  BY <1>2, <1>3, <1>4
     DEF Next, Panicked, FromCanonicalUnconverted, FromCanonicalTooShort,
         FromCanonicalRefused, SetRefused, Get, ToCanonical, Returns, vars
<1> QED
  BY <1>1, <1>5 DEF WrittenInv

\* As long as the value written last has not been set over, reading it decodes
\* what encoding it gave, whatever calls failed or read the value in between.
THEOREM WrittenIsKept ==
    ASSUME Tagged
    PROVE  Spec => []\A canonical \in Canonicals(kind) :
               written = Ok(canonical) =>
                   /\ FromCanonicalFn(kind, canonical).tag = "ok"
                   /\ Read = ToCanonicalFn(kind, BytesFor(canonical))
<1>1. Init => WrittenInv
  BY InitInv DEF Init, WrittenInv, NoValue, Ok
<1>2. WrittenInv => \A canonical \in Canonicals(kind) :
          written = Ok(canonical) =>
              /\ FromCanonicalFn(kind, canonical).tag = "ok"
              /\ Read = ToCanonicalFn(kind, BytesFor(canonical))
  BY DEF WrittenInv, Read
<1> QED
  BY <1>1, <1>2, WrittenInductive, PTL DEF Spec

=============================================================================
