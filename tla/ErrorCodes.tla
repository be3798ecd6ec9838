----------------------------- MODULE ErrorCodes -----------------------------
(***************************************************************************)
(* The CALLERROR codes of the three protocol versions: what each version   *)
(* can say, what it understands, and the code it answers a fault with.     *)
(* A code is its wire spelling; the three error.rs files list the          *)
(* spellings twice, once for writing and once for reading, and so does     *)
(* this module.                                                            *)
(***************************************************************************)

Versions == {"ocpp1.6", "ocpp2.0.1", "ocpp2.1"}

\* wire_code, one arm per RpcErrorCode.
Spelled16 ==
    {"NotImplemented", "NotSupported", "InternalError", "ProtocolError",
     "SecurityError", "FormationViolation", "PropertyConstraintViolation",
     "OccurenceConstraintViolation", "TypeConstraintViolation", "GenericError"}

Spelled201 ==
    {"FormatViolation", "GenericError", "InternalError", "MessageTypeNotSupported",
     "NotImplemented", "NotSupported", "OccurrenceConstraintViolation",
     "PropertyConstraintViolation", "ProtocolError", "RpcFrameworkError",
     "SecurityError", "TypeConstraintViolation"}

Spelled21 == Spelled201

\* from_wire, the arms that name a code; GenericError is only the fall-through.
Understood16 ==
    {"NotImplemented", "NotSupported", "InternalError", "ProtocolError",
     "SecurityError", "FormationViolation", "PropertyConstraintViolation",
     "OccurenceConstraintViolation", "TypeConstraintViolation"}

Understood201 ==
    {"FormatViolation", "InternalError", "MessageTypeNotSupported",
     "NotImplemented", "NotSupported", "OccurrenceConstraintViolation",
     "PropertyConstraintViolation", "ProtocolError", "RpcFrameworkError",
     "SecurityError", "TypeConstraintViolation"}

Understood21 == Understood201

Spelled(version) ==
    CASE version = "ocpp1.6"   -> Spelled16
      [] version = "ocpp2.0.1" -> Spelled201
      [] version = "ocpp2.1"   -> Spelled21

Understood(version) ==
    CASE version = "ocpp1.6"   -> Understood16
      [] version = "ocpp2.0.1" -> Understood201
      [] version = "ocpp2.1"   -> Understood21

FromWire(version, code) ==
    IF code \in Understood(version) THEN code ELSE "GenericError"

\* Why a CALL is refused: no handler, or a payload that does not parse; or a
\* handler turns a schema violation into the error it answers.
Faults == {"unhandled", "property", "occurrence"}

not_implemented == "NotImplemented"

\* From<ValidationError>, of each version's error type.
Validation16(fault) ==
    IF fault = "property" THEN "PropertyConstraintViolation"
                          ELSE "OccurenceConstraintViolation"

Validation201(fault) ==
    IF fault = "property" THEN "PropertyConstraintViolation"
                          ELSE "OccurrenceConstraintViolation"

Validation21(fault) == Validation201(fault)

\* Mutant: one spelling for every version.
OneSpelling(version, fault) ==
    IF fault = "unhandled" THEN not_implemented ELSE Validation201(fault)

ErrorCode(version, fault) ==
    IF fault = "unhandled" THEN not_implemented
    ELSE CASE version = "ocpp1.6"   -> Validation16(fault)
           [] version = "ocpp2.0.1" -> Validation201(fault)
           [] version = "ocpp2.1"   -> Validation21(fault)

==============================================================================
