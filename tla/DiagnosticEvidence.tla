------------------------- MODULE DiagnosticEvidence -------------------------
(***************************************************************************)
(* One required diagnostic, from the lines of its section in the contract  *)
(* (contract_config.cpp: RequireExactKeys, NonemptyString, StringMap and   *)
(* the loop of ParseInput) to the verdict of CheckDiagnosticEvidence on a  *)
(* status that claims to be it.  AdapterNode knows a status only by its    *)
(* flaws; this is where they come from.                                    *)
(*                                                                         *)
(* YAML keeps every line of a mapping, a key that comes twice included,    *)
(* and looks the first up.                                                 *)
(***************************************************************************)
EXTENDS Naturals, SequencesExt

CONSTANTS
  Texts,            \* what a scalar may say
  Blank, Padded,    \* texts without a visible character; with a space at an end
  NoScalar,         \* a node that is not a scalar
  MaxFields, MaxLines, MaxValues      \* bounds

ASSUME TextsAssumption == Blank \cup Padded \subseteq Texts /\ NoScalar \notin Texts
ASSUME BoundsAssumption == {MaxFields, MaxLines, MaxValues} \subseteq Nat

VARIABLES
  section,          \* the lines of the diagnostic's section
  required_values,  \* the lines of its required_values
  level, hardware_id, values      \* the status received

evidenceVars == <<section, required_values, level, hardware_id, values>>

Line(key, value) == [key |-> key, value |-> value]

NonemptyStringRefused(node) == node = NoScalar \/ node \in Blank \cup Padded

KeysOf(lines) == {lines[k].key : k \in DOMAIN lines}

KeyRepeats(lines) == Cardinality(KeysOf(lines)) # Len(lines)

Lookup(lines, key) == lines[SelectInSeq(lines, LAMBDA line : line.key = key)].value

RequireExactKeysRefused(lines, expected) ==
  KeyRepeats(lines) \/ KeysOf(lines) # expected

(* Slip: a line that repeats a key is passed over. *)
StringMapRefusedUnlessRepeated(lines) ==
  \/ lines = <<>>
  \/ \E k \in DOMAIN lines :
       NonemptyStringRefused(lines[k].key) \/ NonemptyStringRefused(lines[k].value)

StringMapRefused(lines) ==
  \/ lines = <<>>
  \/ \E k \in DOMAIN lines :
       NonemptyStringRefused(lines[k].key) \/ NonemptyStringRefused(lines[k].value)
  \/ KeyRepeats(lines)

StringMap(lines) == [key \in KeysOf(lines) |-> Lookup(lines, key)]

DiagnosticKeys ==
  {"expected_publisher", "hardware_id", "maximum_level", "name", "required_values"}

(* What ParseInput says to the section. *)
DiagnosticRefused ==
  \/ RequireExactKeysRefused(section, DiagnosticKeys)
  \/ NonemptyStringRefused(Lookup(section, "hardware_id"))
  \/ StringMapRefused(required_values)

(* Slip: the values are compared as they are read. *)
CheckDiagnosticEvidenceAtOnce(required, actual_level, actual_hardware_id, actual_values) ==
  LET wrong == {k \in DOMAIN actual_values :
                  /\ actual_values[k].key \in DOMAIN required.required_values
                  /\ actual_values[k].value # required.required_values[actual_values[k].key]}
      again == {k \in DOMAIN actual_values :
                  \E j \in 1..(k - 1) : actual_values[j].key = actual_values[k].key}
      missing == DOMAIN required.required_values \ KeysOf(actual_values)
  IN  IF actual_level > required.maximum_level \/ actual_hardware_id # required.hardware_id
        THEN "UPSTREAM_DIAGNOSTIC_IDENTITY_OR_LEVEL_MISMATCH"
      ELSE IF again # {} /\ \A k \in wrong : \E j \in again : j <= k
        THEN "UPSTREAM_DIAGNOSTIC_DUPLICATE_VALUE_KEY"
      ELSE IF wrong # {} \/ missing # {} THEN "UPSTREAM_DIAGNOSTIC_VALUE_MISMATCH"
      ELSE "NONE"

CheckDiagnosticEvidence(required, actual_level, actual_hardware_id, actual_values) ==
  IF actual_level > required.maximum_level \/ actual_hardware_id # required.hardware_id
    THEN "UPSTREAM_DIAGNOSTIC_IDENTITY_OR_LEVEL_MISMATCH"
  ELSE IF KeyRepeats(actual_values) THEN "UPSTREAM_DIAGNOSTIC_DUPLICATE_VALUE_KEY"
  ELSE IF \E key \in DOMAIN required.required_values :
            \/ key \notin KeysOf(actual_values)
            \/ Lookup(actual_values, key) # required.required_values[key]
    THEN "UPSTREAM_DIAGNOSTIC_VALUE_MISMATCH"
  ELSE "NONE"

(* RequiredDiagnosticConfig, of a section that was accepted. *)
RequiredDiagnostic ==
  [hardware_id |-> Lookup(section, "hardware_id"), maximum_level |-> 0,
   required_values |-> StringMap(required_values)]

Evidence(actual_values) ==
  CheckDiagnosticEvidence(RequiredDiagnostic, level, hardware_id, actual_values)

-----------------------------------------------------------------------------
(* The section is written line by line until a node runs with it; statuses *)
(* come then.                                                              *)
EvidenceInit ==
  /\ section = <<Line("name", "relay"), Line("expected_publisher", "/relay"),
                 Line("maximum_level", "0")>>
  /\ required_values = <<>>
  /\ level = 0 /\ hardware_id = NoScalar /\ values = <<>>

BeforeTheNodeRuns == hardware_id = NoScalar /\ UNCHANGED <<level, hardware_id, values>>

WriteField ==
  /\ BeforeTheNodeRuns
  /\ Len(section) < 3 + MaxFields
  /\ \E key \in {"hardware_id", "required_values"}, text \in Texts :
       section' = Append(section, Line(key, text))
  /\ UNCHANGED required_values

WriteRequirement ==
  /\ BeforeTheNodeRuns
  /\ Len(required_values) < MaxLines
  /\ \E key \in Texts, value \in Texts \cup {NoScalar} :
       required_values' = Append(required_values, Line(key, value))
  /\ UNCHANGED section

StartStatus ==
  /\ ~DiagnosticRefused
  /\ level' \in {0, 1} /\ hardware_id' \in Texts /\ values' = <<>>
  /\ UNCHANGED <<section, required_values>>

AddValue ==
  /\ hardware_id # NoScalar
  /\ Len(values) < MaxValues
  /\ \E key \in Texts, value \in Texts : values' = Append(values, Line(key, value))
  /\ UNCHANGED <<section, required_values, level, hardware_id>>

(* A draft is thrown away. *)
StartAgain ==
  /\ Len(section) = 3 + MaxFields
  /\ section' = SubSeq(section, 1, 3) /\ required_values' = <<>>
  /\ level' = 0 /\ hardware_id' = NoScalar /\ values' = <<>>

EvidenceNext == WriteField \/ WriteRequirement \/ StartStatus \/ AddValue \/ StartAgain

EvidenceSpec == EvidenceInit /\ [][EvidenceNext]_evidenceVars

-----------------------------------------------------------------------------
(***************************************************************************)
(* RequirementsHeld: a status that passes satisfies every line somebody    *)
(* wrote into the section and reviewed there, once: no line of an accepted *)
(* contract is shadowed by another, none of the status by a later one      *)
(* (contract_config.cpp:101, :167, :656).                                  *)
(***************************************************************************)
RequirementsHeld ==
  (~DiagnosticRefused /\ Evidence(values) = "NONE") =>
    /\ \A k \in DOMAIN section :
         section[k].key = "hardware_id" => section[k].value = hardware_id
    /\ \A k \in DOMAIN required_values :
         {values[j].value : j \in {j \in DOMAIN values :
                                     values[j].key = required_values[k].key}}
           = {required_values[k].value}
    /\ \A i, j \in DOMAIN values : i # j => values[i].key # values[j].key

(***************************************************************************)
(* EvidenceIsOrderless: the verdict, and with it whether the adapter       *)
(* latches for a repeated key or only waits, does not depend on the order  *)
(* in which the other node lists its values (contract_config.cpp:655-665). *)
(***************************************************************************)
EvidenceIsOrderless ==
  ~DiagnosticRefused =>
    \A order \in Bijection(DOMAIN values, DOMAIN values) :
      Evidence([k \in DOMAIN values |-> values[order[k]]]) = Evidence(values)
=============================================================================
