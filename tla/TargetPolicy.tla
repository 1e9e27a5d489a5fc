----------------------------- MODULE TargetPolicy -----------------------------
(* Which addresses the SOCKS server connects to (src/server.rs).  Without         *)
(* --allow-private-targets these are the public ones.                             *)
(*                                                                                *)
(* The networks in question are told apart by the first 16 bits of an address:    *)
(* two octets of an IPv4 address, mapped into IPv6 or not, and the first segment  *)
(* of an IPv6 address, whose rest matters only where the segment is 0.            *)
EXTENDS Integers, Sequences, SequencesExt

V4(a, b) == [family |-> "v4", octets |-> <<a, b>>]
Mapped(a, b) == [family |-> "mapped", octets |-> <<a, b>>]
V6(segment, rest) == [family |-> "v6", segment |-> segment, rest |-> rest]

Succeeded == 0
GeneralFailure == 1
ConnectionNotAllowed == 2
NetworkUnreachable == 3
HostUnreachable == 4
ConnectionRefused == 5
TtlExpired == 6
CommandNotSupported == 7
AddressTypeNotSupported == 8
ReplyCodes == 0..8

(* is_private, is_loopback, is_link_local and the two tests on the first octet,   *)
(* which take in the unspecified, the broadcast and the multicast addresses.      *)
is_public_ipv4(octets) ==
    LET a == octets[1]
        b == octets[2]
    IN ~ \/ a = 10 \/ (a = 172 /\ b \div 16 = 1) \/ (a = 192 /\ b = 168)
         \/ a = 127
         \/ a = 169 /\ b = 254
         \/ a = 0 \/ a >= 224

(* is_loopback or is_unspecified, is_multicast, is_unique_local and               *)
(* is_ipv6_unicast_link_local: the first 8, 7 and 10 bits.                        *)
is_public_ipv6(segment, rest) ==
    ~ \/ segment = 0 /\ rest \in {"zero", "one"}
      \/ segment \div 256 = 255
      \/ segment \div 512 = 126
      \/ segment \div 64 = 1018

(* Faulty: an IPv4 address mapped into IPv6 is judged as the IPv6 address it is.  *)
is_public_ip_unmapped(ip) ==
    CASE ip.family = "v4" -> is_public_ipv4(ip.octets)
      [] ip.family = "mapped" -> is_public_ipv6(0, "other")
      [] ip.family = "v6" -> is_public_ipv6(ip.segment, ip.rest)

is_public_ip(ip) ==
    IF ip.family = "v6" THEN is_public_ipv6(ip.segment, ip.rest) ELSE is_public_ipv4(ip.octets)

target_ip_allowed(ip, allow_private_targets) == allow_private_targets \/ is_public_ip(ip)

(* A resolved target is one address or a reply code.                              *)
Resolved(ip) == [code |-> Succeeded, addrs |-> <<ip>>]
Unresolved(code) == [code |-> code, addrs |-> <<>>]

(* The first allowed of the addresses a name resolves to.                         *)
select_allowed_resolved_addr(addrs, allow_private_targets) ==
    LET first == SelectInSeq(addrs, LAMBDA ip : target_ip_allowed(ip, allow_private_targets)) IN
    CASE first # 0 -> Resolved(addrs[first])
      [] first = 0 /\ addrs # <<>> -> Unresolved(ConnectionNotAllowed)
      [] OTHER -> Unresolved(HostUnreachable)

(* Faulty: a timeout of the system counts as any other error.                     *)
map_connect_error_coarse(kind) ==
    CASE kind = "ConnectionRefused" -> ConnectionRefused
      [] kind \in {"NotFound", "AddrNotAvailable"} -> HostUnreachable
      [] kind = "NetworkUnreachable" -> NetworkUnreachable
      [] OTHER -> GeneralFailure

(* What a failed connect() is reported as, the kind of its error given.           *)
map_connect_error(kind) ==
    CASE kind = "ConnectionRefused" -> ConnectionRefused
      [] kind \in {"NotFound", "AddrNotAvailable"} -> HostUnreachable
      [] kind = "TimedOut" -> TtlExpired
      [] kind = "NetworkUnreachable" -> NetworkUnreachable
      [] OTHER -> GeneralFailure

ConnectErrors == {"ConnectionRefused", "NotFound", "AddrNotAvailable", "TimedOut",
                  "NetworkUnreachable", "Other"}
================================================================================
