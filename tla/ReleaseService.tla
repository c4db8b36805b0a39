------------------------------ MODULE ReleaseService ------------------------------
(***************************************************************************)
(* pkg/danmep: which IPAM service, if any, takes an address of a DanmEp    *)
(* back.  Addresses are opaque values: the absent address ("" or "none" in *)
(* the Go code) is NoIP, and the only fact used about any other address is *)
(* whether it lies inside the CIDRs DANM manages for the network           *)
(* (Options.Cidr and Options.Pool6.Cidr), that is, whether it is in Cidr.  *)
(***************************************************************************)
CONSTANTS
  NoIP,     \* the absent address of an interface
  Cidr      \* the addresses inside the CIDRs managed by DANM's own IPAM

(* DANM's IPAM never hands out the absent address.  WasIpAllocatedByDanm,  *)
(* of the DANM library, parses its argument, so "" and "none" are in no    *)
(* CIDR.                                                                   *)
ASSUME CidrAssumption == NoIP \notin Cidr

(* The two implementations of IsIPAllocatedByMe, asked in this order by    *)
(* SelectReleaseIpServiceImplementation.                                   *)
DanmOwns(ip) == ip \in Cidr

CalicoOwns(ep, ip) ==
  /\ ip # NoIP
  /\ ip \notin Cidr
  /\ ep.type = "calico"

(* The service chosen for an address; "none" is the nil of the Go code,    *)
(* which makes DeleteDanmEp fail.                                          *)
SelectReleaseService(ep, ip) ==
  IF DanmOwns(ip) THEN "danm"
  ELSE IF CalicoOwns(ep, ip) THEN "calico"
  ELSE "none"
=============================================================================
