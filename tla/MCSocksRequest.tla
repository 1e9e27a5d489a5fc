---------------------------- MODULE MCSocksRequest ----------------------------
(* The programs and lookups of the run of SocksRequest.                          *)
EXTENDS SocksRequest

(* Both sides of every boundary of the networks that are not public.             *)
Octets == {<<0, 0>>, <<1, 0>>, <<9, 255>>, <<10, 0>>, <<10, 255>>, <<11, 0>>,
           <<126, 255>>, <<127, 0>>, <<128, 0>>, <<169, 253>>, <<169, 254>>, <<169, 255>>,
           <<172, 15>>, <<172, 16>>, <<172, 31>>, <<172, 32>>,
           <<192, 167>>, <<192, 168>>, <<192, 169>>, <<223, 255>>, <<224, 0>>, <<255, 255>>}
IPv4 == {V4(o[1], o[2]) : o \in Octets} \cup {Mapped(o[1], o[2]) : o \in Octets}
IPv6 == {V6(0, "zero"), V6(0, "one"), V6(0, "other")}
        \cup {V6(s, "one") : s \in {1, 8193, 64511, 64512, 65023, 65024, 65151, 65152,
                                    65215, 65216, 65279, 65280, 65535}}

Domain(length, text) == [family |-> "domain", length |-> length, text |-> text]
Names == {Domain(1, "plain"), Domain(255, "plain")}
OddTargets == {Domain(0, "plain"), Domain(1, "control"), Domain(1, "binary"),
               [family |-> "unknown"]}

Wellformed(target) ==
    [version |-> 5, methods |-> {0}, command |-> 1, reserved |-> 0, target |-> target,
     port |-> 443, sends |-> 9, closes |-> FALSE]

(* Every target; every combination of other fields; every place to stop.         *)
MCPrograms ==
    {Wellformed(target) : target \in IPv4 \cup IPv6 \cup Names}
    \cup
    {[version |-> version, methods |-> methods, command |-> command, reserved |-> reserved,
      target |-> target, port |-> 0, sends |-> sends, closes |-> closes] :
        version \in {4, 5}, methods \in {{}, {2}, {0, 2}}, command \in {1, 2}, reserved \in {0, 1},
        target \in {V4(8, 8)} \cup OddTargets, sends \in 0..9, closes \in BOOLEAN}

(* What a name may resolve to.                                                   *)
MCAnswers == SeqOf({V4(8, 8), V4(10, 0), Mapped(127, 0), V6(8193, "one"), V6(65152, "one")}, 3)
================================================================================
