---------------------------- MODULE MCLifecycle ----------------------------
(* Small instances of Lifecycle for TLC.                                   *)
EXTENDS Lifecycle

(* NICs with usual and with extreme limits of their MTU.                   *)
MCLimits == {0, 1399, 1400, 1401, 33468, 65534, 65535, 65536}
MCNumbers == {0}

NoOption == [o \in Option |-> None]
Mandatory == [NoOption EXCEPT !["ip"] = "good", !["socket_dir"] = "dir"]

(* What is given on the command line: the search for the largest MTU, a    *)
(* number, a port that is taken for one, a bad address, keys.              *)
MCCmdLines ==
  {NoOption, Mandatory, [Mandatory EXCEPT !["ip"] = "bad"],
   [Mandatory EXCEPT !["nic_mtu"] = <<"max", 0>>],
   [Mandatory EXCEPT !["nic_mtu"] = <<"number", 9000>>, !["key"] = "good"],
   [Mandatory EXCEPT !["nic_mtu"] = <<"number", -1>>],
   [Mandatory EXCEPT !["dpdk_port"] = 49], [Mandatory EXCEPT !["key"] = "bad"]}
MCFiles ==
  {NoFile, Unreadable,
   [NoOption EXCEPT !["ip"] = "good", !["key"] = "good", !["nic_mtu"] = <<"bad", 0>>],
   [NoOption EXCEPT !["dpdk_port"] = -1], [NoOption EXCEPT !["dpdk_port"] = NotANumber],
   [Mandatory EXCEPT !["key"] = "bad"]}
=============================================================================
