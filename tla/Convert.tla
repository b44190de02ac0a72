------------------------------- MODULE Convert -------------------------------
(***************************************************************************)
(* The conversions of src/src/utils/convert.cpp between the CM protocol's  *)
(* protobuf messages and the core types, for the fields whose conversion   *)
(* does more than copy: the InstanceFilter's instance index (an int64 on   *)
(* the wire, where -1 means "no filter", and an optional uint64 in the     *)
(* core), the optional Timestamp, and the static arrays the repeated       *)
(* fields of NetworkParameters and OverrideEnvVars are pushed into.        *)
(*                                                                         *)
(* Integers keep their width: int64/uint64 are Width-bit two's-complement  *)
(* and unsigned values.  Strings are members of the set Strings.  The      *)
(* state is one message received or one core value to send, and its       *)
(* conversion; TLC checks every message of a bounded set.                  *)
(***************************************************************************)
EXTENDS Integers, Sequences

CONSTANTS
    Width,               \* bits of int64 / uint64
    None,                \* an absent Optional
    Strings,             \* the strings a field may hold; "" among them
    Seconds,             \* Timestamp.seconds values a message may carry
    Items,               \* DNS servers, firewall rules and env vars
    MaxListLen,          \* bound: length of a repeated field on the wire
    MaxDNSServers,       \* capacity of NetworkParameters::mDNSServers
    MaxFirewallRules,    \* capacity of NetworkParameters::mFirewallRules
    MaxEnvVars,          \* capacity of EnvVarInfoArray
    MaxEnvVarsInstances  \* capacity of EnvVarsInstanceInfoArray

ASSUME ConvertAssumption ==
    /\ Width \in Nat \ {0}
    /\ "" \in Strings /\ None \notin Strings /\ None \notin Int
    /\ Seconds \subseteq Int
    /\ {MaxListLen, MaxDNSServers, MaxFirewallRules, MaxEnvVars,
        MaxEnvVarsInstances} \subseteq Nat

Modulus == 2^Width

(* 2^Width is a positive integer: a fact of arithmetic that the provers    *)
(* do not derive from the definition of ^.                                 *)
ASSUME ModulusPositive == Modulus \in Nat \ {0}
Int64   == -(Modulus \div 2) .. (Modulus \div 2) - 1
UInt64  == 0 .. Modulus - 1

(* static_cast<uint64_t> and static_cast<int64_t>: reduction modulo 2^64   *)
(* into the target's range.                                                *)
ToUInt64(s) == s % Modulus
ToInt64(u)  == ((u + Modulus \div 2) % Modulus) - Modulus \div 2

Opt(S) == S \cup {None}
ListOf(S) == UNION {[1..n -> S] : n \in 0..MaxListLen}

(* cloudprotocol::InstanceFilter and servicemanager::v4::InstanceFilter.   *)
AosFilters   == [serviceID : Opt(Strings), subjectID : Opt(Strings),
                 instance : Opt(UInt64)]
ProtoFilters == [service_id : Strings, subject_id : Strings, instance : Int64]

(* Mutant: any negative instance is read as "no filter".                  *)
InstanceFilterToAosNonNeg(m) ==
    [serviceID |-> IF m.service_id # "" THEN m.service_id ELSE None,
     subjectID |-> IF m.subject_id # "" THEN m.subject_id ELSE None,
     instance  |-> IF m.instance >= 0 THEN ToUInt64(m.instance) ELSE None]

(* ConvertToAos(InstanceFilter): an empty ID is absent; -1 is no instance, *)
(* any other value is cast to uint64.                                      *)
InstanceFilterToAos(m) ==
    [serviceID |-> IF m.service_id # "" THEN m.service_id ELSE None,
     subjectID |-> IF m.subject_id # "" THEN m.subject_id ELSE None,
     instance  |-> IF m.instance # -1 THEN ToUInt64(m.instance) ELSE None]

(* ConvertToProto(InstanceFilter): absent IDs stay unset (""), instance is *)
(* -1 unless present, then cast to int64.                                  *)
InstanceFilterToProto(f) ==
    [service_id |-> IF f.serviceID # None THEN f.serviceID ELSE "",
     subject_id |-> IF f.subjectID # None THEN f.subjectID ELSE "",
     instance   |-> IF f.instance # None THEN ToInt64(f.instance) ELSE -1]

(* ConvertToAos(Timestamp): a time only for positive seconds.              *)
ProtoTimestamps == [seconds : Seconds, nanos : {0}]
TimestampToAos(t) ==
    IF t.seconds > 0 THEN [sec |-> t.seconds, nsec |-> t.nanos] ELSE None

(* StaticArray::PushBack: appends while below capacity, else returns       *)
(* eNoMemory and leaves the array as it was.                               *)
PushBack(arr, cap, x) ==
    IF Len(arr) < cap THEN [arr |-> Append(arr, x), err |-> FALSE]
    ELSE [arr |-> arr, err |-> TRUE]

(* A loop of PushBack calls whose errors are ignored.                      *)
PushAllIgnoringErrors(s, cap) ==
    LET f[k \in 0..Len(s)] ==
          IF k = 0 THEN <<>> ELSE PushBack(f[k - 1], cap, s[k]).arr
    IN  f[Len(s)]

(* ConvertToAos(NetworkParameters): every DNS server and firewall rule is  *)
(* pushed and the PushBack errors are dropped.                             *)
ProtoNetworkParameters == [dns_servers : ListOf(Items), rules : ListOf(Items)]
NetworkParametersToAos(m) ==
    [dnsServers    |-> PushAllIgnoringErrors(m.dns_servers, MaxDNSServers),
     firewallRules |-> PushAllIgnoringErrors(m.rules, MaxFirewallRules)]

(* servicemanager::v4::OverrideEnvVars: per instance filter, its env vars. *)
ProtoEnvVarsInstances == [instance_filter : ProtoFilters,
                          variables : ListOf(Items)]
ProtoOverrideEnvVars ==
    UNION {[1..n -> ProtoEnvVarsInstances] : n \in 0..MaxListLen}

(* Mutant: a variable that does not fit is dropped and the loop goes on.  *)
OverrideEnvVarsToAosIgnoring(src) ==
    LET step[k \in 0..Len(src)] ==
          IF k = 0 THEN [dst |-> <<>>, err |-> FALSE]
          ELSE IF step[k - 1].err THEN step[k - 1]
          ELSE LET vars == PushAllIgnoringErrors(src[k].variables, MaxEnvVars)
                   pd   == PushBack(step[k - 1].dst, MaxEnvVarsInstances,
                                    [filter |-> InstanceFilterToAos(
                                                  src[k].instance_filter),
                                     variables |-> vars])
               IN  [dst |-> pd.arr, err |-> pd.err]
    IN  step[Len(src)]

(* ConvertToAos(OverrideEnvVars): for each entry, push every variable into *)
(* a fresh array, then the entry into dst; the first PushBack error is     *)
(* returned at once, with dst holding the entries pushed before it.        *)
OverrideEnvVarsToAos(src) ==
    LET pushVars(s) ==
          LET v[k \in 0..Len(s)] ==
                IF k = 0 THEN [arr |-> <<>>, err |-> FALSE]
                ELSE IF v[k - 1].err THEN v[k - 1]
                ELSE PushBack(v[k - 1].arr, MaxEnvVars, s[k])
          IN  v[Len(s)]
        step[k \in 0..Len(src)] ==
          IF k = 0 THEN [dst |-> <<>>, err |-> FALSE]
          ELSE IF step[k - 1].err THEN step[k - 1]
          ELSE LET vars == pushVars(src[k].variables)
                   pd   == PushBack(step[k - 1].dst, MaxEnvVarsInstances,
                                    [filter |-> InstanceFilterToAos(
                                                  src[k].instance_filter),
                                     variables |-> vars.arr])
               IN  IF vars.err THEN [dst |-> step[k - 1].dst, err |-> TRUE]
                   ELSE [dst |-> pd.arr, err |-> pd.err]
    IN  step[Len(src)]

-----------------------------------------------------------------------------
(***************************************************************************)
(* One message and its conversion.                                         *)
(***************************************************************************)

Messages ==
    [kind : {"filterIn"}, val : ProtoFilters]
    \cup [kind : {"filterOut"}, val : AosFilters]
    \cup [kind : {"timestamp"}, val : ProtoTimestamps]
    \cup [kind : {"network"}, val : ProtoNetworkParameters]
    \cup [kind : {"envVars"}, val : ProtoOverrideEnvVars]

VARIABLES
    msg,     \* the message received, or the core value to send
    result,  \* its conversion
    done     \* whether the conversion has run

vars == <<msg, result, done>>

Init == msg \in Messages /\ result = None /\ done = FALSE

ConvertFilterIn ==
    /\ msg.kind = "filterIn" /\ ~done
    /\ result' = InstanceFilterToAos(msg.val)
    /\ done' = TRUE /\ UNCHANGED msg

ConvertFilterOut ==
    /\ msg.kind = "filterOut" /\ ~done
    /\ result' = InstanceFilterToProto(msg.val)
    /\ done' = TRUE /\ UNCHANGED msg

ConvertTimestamp ==
    /\ msg.kind = "timestamp" /\ ~done
    /\ result' = TimestampToAos(msg.val)
    /\ done' = TRUE /\ UNCHANGED msg

ConvertNetwork ==
    /\ msg.kind = "network" /\ ~done
    /\ result' = NetworkParametersToAos(msg.val)
    /\ done' = TRUE /\ UNCHANGED msg

ConvertEnvVars ==
    /\ msg.kind = "envVars" /\ ~done
    /\ result' = OverrideEnvVarsToAos(msg.val)
    /\ done' = TRUE /\ UNCHANGED msg

(* The message has been converted; nothing further happens to it.         *)
Converted == done /\ UNCHANGED vars

Next ==
    \/ ConvertFilterIn \/ ConvertFilterOut \/ ConvertTimestamp
    \/ ConvertNetwork \/ ConvertEnvVars \/ Converted

Spec == Init /\ [][Next]_vars

-----------------------------------------------------------------------------
(***************************************************************************)
(* Properties                                                              *)
(***************************************************************************)

(* Every InstanceFilter CM sends, read by ConvertToAos and sent back by    *)
(* ConvertToProto, is the message it was: the int64/uint64 casts and the  *)
(* -1 and "" conventions lose nothing on the wire side.                    *)
FilterWireRoundTrip ==
    msg.kind = "filterIn" /\ done
        => InstanceFilterToProto(result) = msg.val

(* Spec section 8, boundaries: instance = -1 on the wire if and only if   *)
(* the core filter has no instance (ConvertToProto of an InstanceFilter).  *)
FilterNoInstanceIffMinusOne ==
    msg.kind = "filterOut" /\ done
        => (result.instance = -1 <=> msg.val.instance = None)

(* Spec section 8, boundaries: a Timestamp is absent if and only if its    *)
(* seconds are 0 (ConvertToAos of a Timestamp).                            *)
TimestampAbsentIffZero ==
    msg.kind = "timestamp" /\ done
        => (result = None <=> msg.val.seconds = 0)

(* Spec section 6, wire contracts: the conversion of NetworkParameters     *)
(* preserves every DNS server and firewall rule CM sent.                   *)
NetworkParametersPreserved ==
    msg.kind = "network" /\ done
        => /\ result.dnsServers = msg.val.dns_servers
           /\ result.firewallRules = msg.val.rules

(* ConvertToAos of OverrideEnvVars either reports an error or yields one   *)
(* entry per instance, with that instance's filter and all its variables,  *)
(* in order; and it reports an error only when some list exceeds its      *)
(* application limit.                                                      *)
EnvVarsAllOrError ==
    msg.kind = "envVars" /\ done =>
        LET src == msg.val
            fits == /\ Len(src) <= MaxEnvVarsInstances
                    /\ \A k \in 1..Len(src) :
                         Len(src[k].variables) <= MaxEnvVars
        IN  /\ result.err <=> ~fits
            /\ ~result.err =>
                 result.dst = [k \in 1..Len(src) |->
                                [filter |-> InstanceFilterToAos(
                                              src[k].instance_filter),
                                 variables |-> src[k].variables]]

=============================================================================
