----------------------------- MODULE SsrfGuard ------------------------------
(***************************************************************************)
(* assertSafeProbeTarget: whether a target may be probed, called through   *)
(* the proxy or given a route. Addresses are numbers here, and text where  *)
(* the code compares text: an IPv6 address is known by its first and last  *)
(* group, the ones between being zero, and its text starts with the first  *)
(* group in hexadecimal, without leading zeros.                            *)
(***************************************************************************)
EXTENDS Naturals, Sequences, FiniteSets

CONSTANTS
  Octets,         \* of each of the four positions, those that are tried
  Groups,         \* of IPv6 addresses
  NoReason        \* null

VARIABLES
  target,         \* of the call: [protocol, credentials, address], or none yet
  allowed,        \* ALLOW_PRIVATE_PROBE_TARGETS
  outcome         \* "none", "bad" or "ok", and the reason

guardVars == <<target, allowed, outcome>>

-----------------------------------------------------------------------------
BLOCKED_IPV4_RANGES ==
  {[range |-> <<0, 0, 0, 0>>, bits |-> 8, reason |-> "red actual"],
   [range |-> <<10, 0, 0, 0>>, bits |-> 8, reason |-> "red privada"],
   [range |-> <<100, 64, 0, 0>>, bits |-> 10, reason |-> "CGNAT"],
   [range |-> <<127, 0, 0, 0>>, bits |-> 8, reason |-> "loopback"],
   [range |-> <<169, 254, 0, 0>>, bits |-> 16, reason |-> "link-local"],
   [range |-> <<172, 16, 0, 0>>, bits |-> 12, reason |-> "red privada"],
   [range |-> <<192, 0, 0, 0>>, bits |-> 24, reason |-> "reservado IETF"],
   [range |-> <<192, 168, 0, 0>>, bits |-> 16, reason |-> "red privada"],
   [range |-> <<198, 18, 0, 0>>, bits |-> 15, reason |-> "benchmarking"],
   [range |-> <<224, 0, 0, 0>>, bits |-> 4, reason |-> "multicast"],
   [range |-> <<240, 0, 0, 0>>, bits |-> 4, reason |-> "reservado"]}

\* Octets have 8 bits and groups 16, and null is no reason.
ASSUME GuardAssumption ==
  /\ \A i \in 1 .. 4: Octets[i] \subseteq 0 .. 255
  /\ Groups \subseteq Nat /\ \A g \in Groups: g < 65536
  /\ \A r \in BLOCKED_IPV4_RANGES: r.reason # NoReason

\* (a bug) Whole octets are compared.
ClearedByOctet(bits, i) == IF bits >= 8 * i THEN 0 ELSE 8

\* How many of the low bits of octet i the mask of /bits clears.
Cleared(bits, i) ==
  IF bits >= 8 * i THEN 0 ELSE IF bits <= 8 * (i - 1) THEN 8 ELSE 8 * i - bits

\* (ip & mask) = (range & mask): the same bits are left, octet by octet.
IsInCidr(ip, range, bits) == \A i \in 1 .. 4:
  ip[i] \div 2^Cleared(bits, i) = range[i] \div 2^Cleared(bits, i)

BlockedReasonForIpv4(ip) ==
  LET found == {r \in BLOCKED_IPV4_RANGES: IsInCidr(ip, r.range, r.bits)}
  IN IF found = {} THEN NoReason ELSE (CHOOSE r \in found: TRUE).reason

\* (a bug) The octets of a group change places.
MappedSwapped(high, low) == <<high % 256, high \div 256, low % 256, low \div 256>>

\* parseInt of the two groups and the four octets in them.
MappedOctets(high, low) == <<high \div 256, high % 256, low \div 256, low % 256>>

\* The hexadecimal digits of a group, as they are printed: the text starts with
\* them unless the group is zero, where it starts with "::".
Digits(n) ==
  LET all == <<n \div 4096, (n \div 256) % 16, (n \div 16) % 16, n % 16>>
      zeros == {k \in 0 .. 4: \A i \in 1 .. k: all[i] = 0}
  IN SubSeq(all, Cardinality(zeros), 4)

StartsWith(digits, prefix) ==
  Len(digits) >= Len(prefix) /\ SubSeq(digits, 1, Len(prefix)) = prefix

PrivatePrefixes == {<<15, 12>>, <<15, 13>>}

BlockedReasonForIpv6(address) ==
  CASE address.form = "decimal" -> BlockedReasonForIpv4(address.octets)
    [] address.form = "hex" ->
         LET o == address.octets
         IN BlockedReasonForIpv4(MappedOctets(256 * o[1] + o[2], 256 * o[3] + o[4]))
    [] address.form = "v6" ->
         LET text == Digits(address.first)
         IN IF address.first = 0 /\ address.last \in {0, 1} THEN "loopback"
            ELSE IF StartsWith(text, <<15, 14, 8, 0>>) THEN "link-local"
            ELSE IF \E p \in PrivatePrefixes: StartsWith(text, p) THEN "red privada"
            ELSE NoReason

Reason(address) ==
  IF address.form = "v4" THEN BlockedReasonForIpv4(address.octets)
  ELSE BlockedReasonForIpv6(address)

-----------------------------------------------------------------------------
Ipv4 == {<<a, b, c, d>>: a \in Octets[1], b \in Octets[2], c \in Octets[3], d \in Octets[4]}

\* An address, in a form the URL or the resolver writes it in; "hex" is the
\* mapped form with its octets in two groups.
Addresses ==
  [form: {"v4", "decimal", "hex"}, octets: Ipv4]
  \cup [form: {"v6"}, first: Groups, last: {0, 1, 2}]

GuardInit == target = <<>> /\ allowed \in BOOLEAN /\ outcome = <<"none", NoReason>>

\* new URL throws, the protocol is another, or the URL has credentials, or its
\* host does not resolve.
Malformed ==
  /\ target = <<>>
  /\ outcome' = <<"bad", "url">>
  /\ UNCHANGED <<target, allowed>>

\* The address of the host or the one it resolves to.
Resolved ==
  /\ target = <<>> /\ outcome[1] = "none"
  /\ \E a \in Addresses:
       /\ target' = a
       /\ outcome' = IF allowed \/ Reason(a) = NoReason THEN <<"ok", NoReason>>
                     ELSE <<"bad", Reason(a)>>
  /\ UNCHANGED allowed

GuardNext == Malformed \/ Resolved

GuardSpec == GuardInit /\ [][GuardNext]_guardVars

-----------------------------------------------------------------------------
Judged == target # <<>> /\ ~allowed

(* The special-purpose ranges of IPv4, by their first and last addresses. *)
Ranges ==
  {<<<<0, 0, 0, 0>>, <<0, 255, 255, 255>>>>,
   <<<<10, 0, 0, 0>>, <<10, 255, 255, 255>>>>,
   <<<<100, 64, 0, 0>>, <<100, 127, 255, 255>>>>,
   <<<<127, 0, 0, 0>>, <<127, 255, 255, 255>>>>,
   <<<<169, 254, 0, 0>>, <<169, 254, 255, 255>>>>,
   <<<<172, 16, 0, 0>>, <<172, 31, 255, 255>>>>,
   <<<<192, 0, 0, 0>>, <<192, 0, 0, 255>>>>,
   <<<<192, 168, 0, 0>>, <<192, 168, 255, 255>>>>,
   <<<<198, 18, 0, 0>>, <<198, 19, 255, 255>>>>,
   <<<<224, 0, 0, 0>>, <<255, 255, 255, 255>>>>}

\* The order of addresses.
UpTo(a, b) ==
  a = b \/ \E i \in 1 .. 4: a[i] < b[i] /\ \A j \in 1 .. i - 1: a[j] = b[j]

\* An IPv4 address is refused exactly when it lies between the first and the
\* last address of a range, whatever bits the mask leaves (ssrf-guard.ts:41-48).
RefusedByRange == Judged /\ target.form = "v4" =>
  (outcome[1] = "bad" <=> \E r \in Ranges: UpTo(r[1], target.octets) /\ UpTo(target.octets, r[2]))

\* An IPv4 address is judged alike in its own form and in both mapped forms
\* (ssrf-guard.ts:61-77).
MappedAlike == Judged /\ target.form \in {"decimal", "hex"} =>
  outcome[2] = BlockedReasonForIpv4(target.octets)

\* Of the other IPv6 addresses, the private ones are those whose first byte is
\* 0xfc or 0xfd (ssrf-guard.ts:81).
UniqueLocalByFirstByte == Judged /\ target.form = "v6" =>
  (outcome[2] = "red privada" <=> target.first \div 256 \in {252, 253})
=============================================================================
