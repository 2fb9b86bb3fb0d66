--------------------------- MODULE FaultDescription ---------------------------
(***************************************************************************)
(* NodeObjectFaultDescription (src/middleware/api.rs): the description of  *)
(* a fault, an enum whose variants may carry a number, and its conversion  *)
(* to and from the 16 bits that go on the wire.                            *)
(***************************************************************************)
EXTENDS Integers, Sequences, EpcResults

Fault(name, payload) == [name |-> name, payload |-> payload]

\* The codes 1 to 6.
Recoverable ==
    <<"RecoverableByPowerCycle", "RecoverableByReset",
      "RecoverableByPhysicalAdjustment", "RecoverableByAdditionalResources",
      "RecoverableByCleaning", "RecoverableBatteryReplacement">>

\* The variants that carry an index, with the codes of the first and the last.
Indexed ==
    [RepairSafetyDevice |-> [first |-> 10, last |-> 19],
     RepairSwitch       |-> [first |-> 20, last |-> 29],
     RepairSensor       |-> [first |-> 30, last |-> 59],
     RepairComponent    |-> [first |-> 60, last |-> 89],
     RepairControlBoard |-> [first |-> 90, last |-> 110]]

ToU16(fault) ==
    CASE fault.name = "None" -> 0
      [] \E i \in DOMAIN Recoverable : Recoverable[i] = fault.name ->
            CHOOSE i \in DOMAIN Recoverable : Recoverable[i] = fault.name
      [] fault.name = "RecoverableUserDefined" -> 256 * fault.payload + 9
      [] fault.name \in DOMAIN Indexed ->
            Indexed[fault.name].first + fault.payload
      [] fault.name \in {"RepairUserDefined", "EchonetMiddleware"} ->
            fault.payload
      [] fault.name = "Indeterminate" -> 1023

\* (0xff & value) >> 8
HighByte(value) == (value % 256) \div 256

\* The faults that only the low byte tells apart.
FromLowByte(low, high) ==
    IF low \in DOMAIN Recoverable THEN Ok(Fault(Recoverable[low], 0))
    ELSE IF low = 9 THEN Ok(Fault("RecoverableUserDefined", high))
    ELSE IF \E name \in DOMAIN Indexed :
                low \in Indexed[name].first..Indexed[name].last
    THEN LET name == CHOOSE name \in DOMAIN Indexed :
                         low \in Indexed[name].first..Indexed[name].last
         IN  Ok(Fault(name, low - Indexed[name].first))
    ELSE Err

\* Mutant: the user's codes end where those of the middleware do.
FromWordMerged(value) ==
    CASE value = 0           -> Ok(Fault("None", 0))
      [] value \in 111..1004 -> Ok(Fault("RepairUserDefined", value))
      [] value = 1023        -> Ok(Fault("Indeterminate", 0))
      [] OTHER               -> Err

\* The others, by the whole value.
FromWord(value) ==
    CASE value = 0            -> Ok(Fault("None", 0))
      [] value \in 111..1000  -> Ok(Fault("RepairUserDefined", value))
      [] value \in 1001..1004 -> Ok(Fault("EchonetMiddleware", value))
      [] value = 1023         -> Ok(Fault("Indeterminate", 0))
      [] OTHER                -> Err

TryFromU16(value) ==
    LET low  == value % 256
        high == HighByte(value)
    IN  IF (high = 0 \/ high >= 4) /\ low < 111 THEN FromLowByte(low, high)
        ELSE FromWord(value)

=============================================================================
