----------------------------- MODULE NodeTable -----------------------------
(***************************************************************************)
(* The table of the vehicle's boxes (common/hh_helper.cpp over             *)
(* interface/fota.h) and its lookups, each of which takes the first entry  *)
(* that fits.  A box is named by its ECU name; its NodeId is its position. *)
(***************************************************************************)
EXTENDS Naturals, Sequences

CONSTANT PC_SIMULATION   \* TRUE: the build that puts all boxes on one host

ASSUME PC_SIMULATIONAssumption == PC_SIMULATION \in BOOLEAN

ECUNames == <<"TBOX", "CGW", "IDCM", "ADCM", "VDCM", "BDCM", "DSM", "ARC", "VSP",
              "DLP", "IEM/DVR", "FSE">>

\* The last number of 192.168.0.x, and 0 for an address that is not defined yet.
Addresses == <<1, 2, 4, 0, 7, 9, 11, 12, 13, 14, 0, 16>>

Localhost == 127

Entries == 1..Len(ECUNames)
Nodes == {ECUNames[i] : i \in Entries}

IpOf(i) == IF PC_SIMULATION THEN Localhost ELSE Addresses[i]

First(entries) == CHOOSE i \in entries : \A j \in entries : i <= j

NodeToInt(node) == First({i \in Entries : ECUNames[i] = node}) - 1

\* Mutant: the value of a node, which counts from 0, is taken for its position.
NodeToIpByValue(node) == IpOf(NodeToInt(node))

NodeToIp(node) == IpOf(NodeToInt(node) + 1)

IpToNode(ip) == ECUNames[First({i \in Entries : IpOf(i) = ip})]

=============================================================================
