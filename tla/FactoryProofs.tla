----------------------------- MODULE FactoryProofs -----------------------------
(***************************************************************************)
(* Proofs about a property as property_factory makes it.  NodePropertyProofs *)
(* says what any closures must do for the calls to be safe, EpcProofs and   *)
(* ConversionProofs what the closures of the factory do; together they say *)
(* which calls are safe, which values come back and which are accepted,    *)
(* for every canonical value of a kind and whatever bytes a peer sends.    *)
(***************************************************************************)
EXTENDS ConversionProofs

\* The decoders and the validators are the factory's; what FactoryAssumption
\* says of from_canonical_fn.
FactoryClosures ==
    \A k \in Kinds, internal \in Seq(Byte) :
        /\ ToCanonicalFn(k, internal) = Decode(k, internal)
        /\ \A stored :
              ValidatorFn(k, internal, stored) = Validate(k, internal, stored)

-----------------------------------------------------------------------------
(* The contracts.                                                          *)

\* No closure of the factory returns anything but Ok or Err or panics.
LEMMA FactoryTagged ==
    ASSUME FactoryClosures PROVE Tagged
<1>1. ASSUME NEW k \in Kinds, NEW canonical \in Canonicals(k)
      PROVE  FromCanonicalFn(k, canonical).tag \in Tags
  BY <1>1, FactoryAssumption, EncodeTagged
<1>2. ASSUME NEW k \in Kinds, NEW internal \in Seq(Byte)
      PROVE  ToCanonicalFn(k, internal).tag \in Tags
  BY <1>2, FactoryAssumption, DecodeTagged DEF FactoryClosures
<1>3. ASSUME NEW k \in Kinds, NEW internal \in Seq(Byte), NEW stored,
             stored.tag \in Tags
      PROVE  ValidatorFn(k, internal, stored).tag \in Tags
  <2>1. ValidatorFn(k, internal, stored) = Validate(k, internal, stored)
    BY DEF FactoryClosures
  <2> QED
    BY <1>3, <2>1, FactoryAssumption, ValidateTagged
<1> QED
  BY <1>1, <1>2, <1>3 DEF Tagged

\* A validator looks at the bytes alone and, but for the kinds listed, never
\* answers Ok(false); or it needs a value that can be read.
LEMMA CheckedKinds ==
    ASSUME FactoryClosures, NEW k \in Kinds
    PROVE  \/ NeedsStored(k)
           \/ LooksAtBytes(k) /\ (k \notin UncheckedKinds => AnswersTrue(k))
<1>1. k \in DOMAIN Property
  BY FactoryAssumption
<1>2. CASE Property[k].family = "fault"
  <2>1. ASSUME NEW internal \in Seq(Byte), NEW stored, stored.tag # "ok"
        PROVE  ValidatorFn(k, internal, stored).tag # "ok"
    BY <1>1, <1>2, <2>1, VerdictOnFault DEF FactoryClosures
  <2> QED
    BY <2>1 DEF NeedsStored
<1>3. CASE Property[k].family # "fault"
  <2>1. ASSUME NEW internal \in Seq(Byte), NEW stored, NEW other
        PROVE  ValidatorFn(k, internal, stored) = ValidatorFn(k, internal, other)
    <3>1. /\ ValidatorFn(k, internal, stored) = Validate(k, internal, stored)
          /\ ValidatorFn(k, internal, other) = Validate(k, internal, other)
      BY DEF FactoryClosures
    <3> QED
      BY <1>1, <1>3, <3>1, VerdictOnBytes
  <2>2. ASSUME k \notin UncheckedKinds, NEW internal \in Seq(Byte), NEW stored,
               ValidatorFn(k, internal, stored).tag = "ok"
        PROVE  ValidatorFn(k, internal, stored) = Ok(TRUE)
    <3>1. ValidatorFn(k, internal, stored) = Validate(k, internal, stored)
      BY DEF FactoryClosures
    <3>2. Property[k].family \notin {"eoj_array", "location"}
      BY <1>1, <2>2, SmallFamilies DEF UncheckedKinds
    <3>3. Validate(k, internal, stored) \in {Ok(TRUE), Err}
      BY <1>1, <1>3, <3>2, VerdictDecided
    <3>4. Err.tag # "ok"
      BY DEF Err
    <3> QED
      BY <2>2, <3>1, <3>3, <3>4
  <2> QED
    BY <2>1, <2>2 DEF LooksAtBytes, AnswersTrue
<1> QED
  BY <1>2, <1>3

-----------------------------------------------------------------------------
(* What is stored, and what panics.                                        *)

\* The types of a property of the factory.
LEMMA FactoryTyped ==
    ASSUME FactoryClosures PROVE Spec => []TypeOK
  BY FactoryTagged, TypeCorrect

\* Whatever canonical values are written and whatever a peer sends, what is
\* stored satisfies the validator: of every kind what from_canonical stores, and
\* what set stores but for the kinds whose validator answers Ok(false), the three
\* lists of EOJs and the installation location.
THEOREM CheckedIsValid ==
    ASSUME FactoryClosures PROVE Spec => []ValidElsewhere
<1>1. Spec => [](Checked \/ NeedsStored(kind) => StoredIsValid)
  BY FactoryTagged, StoredValid
<1>2. TypeOK /\ (Checked \/ NeedsStored(kind) => StoredIsValid)
          => ValidElsewhere
  BY CheckedKinds DEF TypeOK, ValidElsewhere, Checked
<1> QED
  BY <1>1, <1>2, FactoryTyped, PTL

\* Whatever canonical values are written and whatever a peer sends, encoding
\* panics only on a duration that has an amount, on the location "location" and
\* on a manufacturer's code shorter than three bytes, reading only on a location
\* that names no place, and no call panics otherwise.
THEOREM CalmIsCalm ==
    ASSUME FactoryClosures PROVE Spec => []CalmElsewhere
<1>1. Spec => [](PanicHasCause /\ AcceptedInv)
  BY FactoryTagged, PanicsHaveCauses
<1>2. TypeOK /\ PanicHasCause /\ AcceptedInv => CalmElsewhere
  <2> SUFFICES ASSUME TypeOK, PanicHasCause, AcceptedInv PROVE CalmElsewhere
    OBVIOUS
  <2>1. kind \in Kinds /\ kind \in DOMAIN Property /\ last_value \in Seq(Byte)
    BY FactoryAssumption DEF TypeOK
  <2>2. ASSUME Read.tag = "panic"
        PROVE  Unreadable(kind, last_value)
    <3>1. last_updated /\ Read = ToCanonicalFn(kind, last_value)
      BY <2>2 DEF Read, Err
    <3>2. PICK stored : ValidatorFn(kind, last_value, stored).tag = "ok"
      BY <3>1 DEF AcceptedInv
    <3>3. Validate(kind, last_value, stored).tag = "ok"
      BY <2>1, <3>2 DEF FactoryClosures
    <3>4. Decode(kind, last_value).tag = "panic"
      BY <2>1, <2>2, <3>1 DEF FactoryClosures
    <3> QED
      BY <2>1, <3>3, <3>4, AcceptedReadable
  <2>3. ASSUME NEW canonical \in Canonicals(kind),
               Encode(kind, canonical).tag = "panic"
        PROVE  Perilous(kind, canonical)
    <3>1. canonical \in CanonicalsOf(kind)
      BY <2>1, FactoryAssumption
    <3> QED
      BY <2>1, <2>3, <3>1, EncodeReturns
  <2>4. ~ ValidatorPanics
    <3> SUFFICES ASSUME ValidatorPanics PROVE FALSE
      OBVIOUS
    <3>1. PICK internal \in Seq(Byte) : Verdict(internal).tag = "panic"
      BY DEF ValidatorPanics
    <3>2. Validate(kind, internal, Read).tag = "panic"
      BY <2>1, <3>1 DEF Verdict, FactoryClosures
    <3>3. Property[kind].family = "fault" /\ Read.tag = "panic"
      BY <2>1, <3>2, ValidateCalm
    <3> QED
      BY <2>2, <3>3 DEF Unreadable
  <2>5. ASSUME ~ Alive
        PROVE  \/ /\ result.call = "from_canonical"
                  /\ \E canonical \in Canonicals(kind) :
                        Perilous(kind, canonical)
               \/ /\ result.call = "to_canonical"
                  /\ Unreadable(kind, last_value)
    <3>1. CASE result.call = "to_canonical" /\ Read.tag = "panic"
      BY <2>2, <3>1
    <3>2. CASE /\ result.call = "from_canonical"
               /\ \E canonical \in Canonicals(kind) :
                     FromCanonicalFn(kind, canonical).tag = "panic"
      <4>1. PICK canonical \in Canonicals(kind) :
                FromCanonicalFn(kind, canonical).tag = "panic"
        BY <3>2
      <4>2. Encode(kind, canonical).tag = "panic"
        BY <2>1, <4>1, FactoryAssumption
      <4> QED
        BY <2>3, <3>2, <4>2
    <3> QED
      BY <2>4, <2>5, <3>1, <3>2 DEF PanicHasCause
  <2> QED
    BY <2>2, <2>3, <2>5 DEF CalmElsewhere, NeverPanics
<1> QED
  BY <1>1, <1>2, FactoryTyped, PTL

-----------------------------------------------------------------------------
(* What the conversions make of a value.                                   *)

\* The buffer that from_canonical stores is the one its kind's decoder is
\* shown to read.
LEMMA BytesAreSent ==
    ASSUME NEW k \in Kinds, k = kind, NEW canonical \in Canonicals(k)
    PROVE  BytesFor(canonical) = Sent(k, Encode(k, canonical).value)
<1>1. /\ Epc(k) = EpcOf(k)
      /\ FromCanonicalFn(k, canonical) = Encode(k, canonical)
  BY FactoryAssumption
<1> QED
  BY <1>1 DEF BytesFor, WithHeader, Sent

\* The conversions of every kind are each other's inverse, for every canonical
\* value but the ones that change on their way to the wire and back.
THEOREM ConversionsAgree ==
    ASSUME FactoryClosures PROVE Spec => []ConvertsBackElsewhere
<1>1. TypeOK => ConvertsBackElsewhere
  <2>1. ASSUME TypeOK, NEW canonical \in Canonicals(kind),
               ~ Altered(kind, canonical)
        PROVE  ConvertsBack(kind, canonical)
    <3>1. kind \in DOMAIN Property /\ canonical \in CanonicalsOf(kind)
      BY <2>1, FactoryAssumption DEF TypeOK
    <3> QED
      BY <2>1, <3>1, UnalteredBack
  <2> QED
    BY <2>1 DEF ConvertsBackElsewhere
<1> QED
  BY <1>1, FactoryTyped, PTL

\* A value written as a canonical value reads back as the nearest value of its
\* type, for every kind and whatever calls failed in between, but for the
\* values that change on their way to the wire and back.
THEOREM WrittenReadsBack ==
    ASSUME FactoryClosures PROVE Spec => []RoundTripElsewhere
<1> DEFINE Kept ==
        \A canonical \in Canonicals(kind) :
            written = Ok(canonical) =>
                /\ FromCanonicalFn(kind, canonical).tag = "ok"
                /\ Read = ToCanonicalFn(kind, BytesFor(canonical))
<1>1. Spec => []Kept
  BY FactoryTagged, WrittenIsKept
<1>2. TypeOK /\ Kept => RoundTripElsewhere
  <2> SUFFICES ASSUME TypeOK, Kept, written.tag = "ok",
                      ~ Altered(kind, written.value)
               PROVE  RoundTrip
    BY DEF RoundTripElsewhere
  <2>1. ASSUME NEW canonical \in Canonicals(kind), written = Ok(canonical)
        PROVE  Read = Ok(Nearest(kind, canonical))
    <3> DEFINE encoded == Encode(kind, canonical)
    <3>1. /\ kind \in Kinds /\ kind \in DOMAIN Property
          /\ canonical \in CanonicalsOf(kind)
          /\ FromCanonicalFn(kind, canonical) = encoded
      BY FactoryAssumption DEF TypeOK
    <3>2. ~ Altered(kind, canonical)
      BY <2>1 DEF Ok
    <3>3. encoded.tag = "ok"
      BY <2>1, <3>1
    <3>4. /\ Len(encoded.value) >= 2
          /\ Decode(kind, Sent(kind, encoded.value))
                 = Ok(Nearest(kind, canonical))
      BY <3>1, <3>2, <3>3, UnalteredBack DEF ConvertsBack
    <3>5. BytesFor(canonical) = Sent(kind, encoded.value)
      BY <3>1, BytesAreSent
    <3>6. BytesFor(canonical) \in Seq(Byte)
      BY <3>1, <3>3, <3>4, EncodedWritten DEF BytesFor
    <3>7. ToCanonicalFn(kind, BytesFor(canonical))
              = Decode(kind, BytesFor(canonical))
      BY <3>1, <3>6 DEF FactoryClosures
    <3> QED
      BY <2>1, <3>4, <3>5, <3>7
  <2> QED
    BY <2>1 DEF RoundTrip, ReadsBack
<1> QED
  BY <1>1, <1>2, FactoryTyped, PTL

\* A canonical value that the type can hold is never refused, whatever is
\* stored before, but for the values that are listed.
THEOREM HeldIsAccepted ==
    ASSUME FactoryClosures PROVE Spec => []AcceptedElsewhere
<1>1. TypeOK => AcceptedElsewhere
  <2> SUFFICES ASSUME TypeOK, NEW canonical \in Canonicals(kind),
                      Representable(kind, canonical), ~ Refused(kind, canonical)
               PROVE  IsAccepted(canonical)
    BY DEF AcceptedElsewhere
  <2> DEFINE encoded == Encode(kind, canonical)
             internal == WithHeader(encoded.value)
  <2>1. /\ kind \in Kinds /\ kind \in DOMAIN Property
        /\ canonical \in CanonicalsOf(kind)
        /\ FromCanonicalFn(kind, canonical) = encoded
    BY FactoryAssumption DEF TypeOK
  <2>2. /\ encoded.tag = "ok"
        /\ encoded.value \in Seq(Byte)
        /\ Len(encoded.value) >= 2
        /\ \A stored :
              Validate(kind, Sent(kind, encoded.value), stored) = Ok(TRUE)
    BY <2>1, RepresentableAccepted DEF Accepted
  <2>3. internal = Sent(kind, encoded.value)
    BY <2>1, BytesAreSent DEF BytesFor
  <2>4. internal \in Seq(Byte)
    BY <2>1, <2>2, HeaderWritten
  <2>5. Verdict(internal) = Validate(kind, internal, Read)
    BY <2>1, <2>4 DEF Verdict, FactoryClosures
  <2> QED
    BY <2>2, <2>3, <2>5 DEF IsAccepted
<1> QED
  BY <1>1, FactoryTyped, PTL

\* A property map that a peer announces, as a list or as a bitmap, is read as
\* that map, and as a list of up to 14 operations it passes the validator, for
\* all three maps of an object.
THEOREM PeerMapsUnderstood ==
    ASSUME FactoryClosures PROVE Spec => []MapsUnderstood
<1>1. TypeOK => MapsUnderstood
  <2>1. ASSUME TypeOK, Property[kind].family = "property_map",
               NEW map \in Canonicals(kind),
               map.count = Cardinality(map.cells)
        PROVE  /\ Decode(kind, Announced(kind, map)) = Ok(map)
               /\ map.count < 15 =>
                     Validate(kind, Announced(kind, map), Err) = Ok(TRUE)
    <3>1. kind \in DOMAIN Property /\ map \in CanonicalsOf(kind)
      BY <2>1, FactoryAssumption DEF TypeOK
    <3>2. map \in PropertyMaps
      BY <2>1, <3>1, CanonicalsTyped
    <3> QED
      BY <2>1, <3>1, <3>2, MapUnderstood
  <2> QED
    BY <2>1 DEF MapsUnderstood
<1> QED
  BY <1>1, FactoryTyped, PTL

=============================================================================
