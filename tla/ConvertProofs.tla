---------------------------- MODULE ConvertProofs ----------------------------
(***************************************************************************)
(* Proof that an InstanceFilter received from CM and sent back is the      *)
(* message received, for every integer width: ConvertToAos followed by     *)
(* ConvertToProto is the identity on the wire's InstanceFilters.  The      *)
(* argument is the arithmetic of the two casts, int64 -> uint64 -> int64,  *)
(* on a Width-bit two's-complement range, and the "" and -1 conventions.   *)
(***************************************************************************)
EXTENDS Convert, TLAPS

(* The cast int64 -> uint64 -> int64 gives back every value of the int64   *)
(* range, for every positive modulus.                                      *)
LEMMA CastRoundTrip ==
    ASSUME NEW s \in Int64
    PROVE  /\ ToUInt64(s) \in Int
           /\ ToInt64(ToUInt64(s)) = s
<1>1. Modulus \in Nat \ {0}
  BY ModulusPositive
<1>2. s \in -(Modulus \div 2) .. (Modulus \div 2) - 1
  BY DEF Int64
<1> QED
  BY <1>1, <1>2 DEF ToUInt64, ToInt64

(* A wire InstanceFilter read by ConvertToAos and written by               *)
(* ConvertToProto is unchanged.                                            *)
LEMMA FilterRoundTrip ==
    ASSUME NEW m \in ProtoFilters
    PROVE  InstanceFilterToProto(InstanceFilterToAos(m)) = m
<1> DEFINE f == InstanceFilterToAos(m)
<1>1. m = [service_id |-> m.service_id, subject_id |-> m.subject_id,
           instance |-> m.instance]
  BY DEF ProtoFilters
<1>2. /\ m.service_id \in Strings /\ m.subject_id \in Strings
      /\ m.instance \in Int64
  BY DEF ProtoFilters
<1>3. (IF f.serviceID # None THEN f.serviceID ELSE "") = m.service_id
  BY <1>2, ConvertAssumption DEF InstanceFilterToAos
<1>4. (IF f.subjectID # None THEN f.subjectID ELSE "") = m.subject_id
  BY <1>2, ConvertAssumption DEF InstanceFilterToAos
<1>5. (IF f.instance # None THEN ToInt64(f.instance) ELSE -1) = m.instance
  <2>1. CASE m.instance = -1
    BY <2>1 DEF InstanceFilterToAos
  <2>2. CASE m.instance # -1
    <3>1. f.instance = ToUInt64(m.instance)
      BY <2>2 DEF InstanceFilterToAos
    <3>2. ToUInt64(m.instance) \in Int /\ ToInt64(ToUInt64(m.instance)) = m.instance
      BY <1>2, CastRoundTrip
    <3>3. f.instance # None
      BY <3>1, <3>2, ConvertAssumption
    <3> QED
      BY <3>1, <3>2, <3>3
  <2> QED
    BY <2>1, <2>2
<1> QED
  BY <1>1, <1>3, <1>4, <1>5 DEF InstanceFilterToProto

-----------------------------------------------------------------------------
(* The inductive invariant: the message never changes, and once a wire     *)
(* filter has been converted the result is its ConvertToAos.               *)
IInv ==
    /\ msg \in Messages /\ done \in BOOLEAN
    /\ msg.kind = "filterIn" /\ done => result = InstanceFilterToAos(msg.val)

LEMMA InitIInv == Init => IInv
BY DEF Init, IInv

(* Every conversion keeps IInv: only ConvertFilterIn converts a wire       *)
(* filter, and it stores exactly its ConvertToAos.                         *)
LEMMA NextIInv == IInv /\ [Next]_vars => IInv'
<1> SUFFICES ASSUME IInv, [Next]_vars PROVE IInv'
  OBVIOUS
<1>1. CASE ConvertFilterIn
  BY <1>1 DEF ConvertFilterIn, IInv
<1>2. CASE ConvertFilterOut \/ ConvertTimestamp \/ ConvertNetwork
           \/ ConvertEnvVars
  BY <1>2 DEF ConvertFilterOut, ConvertTimestamp, ConvertNetwork,
     ConvertEnvVars, IInv
<1>3. CASE Converted \/ UNCHANGED vars
  BY <1>3 DEF Converted, vars, IInv
<1> QED
  BY <1>1, <1>2, <1>3 DEF Next

(* A wire message of kind filterIn carries a wire InstanceFilter.          *)
LEMMA FilterInMessage ==
    ASSUME NEW m \in Messages, m.kind = "filterIn"
    PROVE  m.val \in ProtoFilters
BY DEF Messages

(* For every integer width and every set of strings, the InstanceFilter    *)
(* a CM request carries (ConvertToAos in the log and env-var requests)     *)
(* converts back by ConvertToProto to the message received.               *)
THEOREM FilterWireRoundTripHolds == Spec => []FilterWireRoundTrip
<1>1. IInv => FilterWireRoundTrip
  BY FilterInMessage, FilterRoundTrip DEF IInv, FilterWireRoundTrip
<1> QED
  BY <1>1, InitIInv, NextIInv, PTL DEF Spec

=============================================================================
