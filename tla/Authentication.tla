--------------------------- MODULE Authentication ---------------------------
(***************************************************************************)
(* The chain of keys of xfsbl_authentication.c.  A certificate carries a   *)
(* primary public key (PPK) and a secondary one (SPK) that some PPK has    *)
(* signed; the SPK signs headers and partitions.  The PPK of a boot header *)
(* that was authenticated is kept (EfusePpkKey) and vouches for every      *)
(* later certificate, whatever PPK that one carries.                       *)
(*                                                                         *)
(* A key is a number; 0 is the buffer nobody filled yet, a key that        *)
(* verifies nothing.  A signature is represented by who made it.           *)
(***************************************************************************)
EXTENDS Integers

CONSTANTS
  EfuseRsa,      \* eFUSE RSA_EN is programmed
  EfuseKeys      \* the rest of the eFUSEs, see EfuseArray

(***************************************************************************)
(* The eFUSEs: the two hashes of primary keys, which of them are revoked,  *)
(* the SPK ID in force, and the user eFUSE bits that are programmed.       *)
(***************************************************************************)
EfuseArray ==
  [ppk : [{0, 1} -> Nat], revoked : SUBSET {0, 1}, spkId : Nat, user : SUBSET Nat]

ASSUME KeyAssumption == EfuseRsa \in BOOLEAN /\ EfuseKeys \in EfuseArray

(***************************************************************************)
(* A certificate: the PPK it carries and the eFUSE hash it selects, the    *)
(* SPK's ID and the eFUSEs that ID refers to, and the PPK that signed all  *)
(* of these.                                                               *)
(***************************************************************************)
Certificate ==
  [ppk : Nat, select : {0, 1}, fuse : 0 .. 3, id : Nat, by : Nat \ {0}]

SPKID_EFUSE == 1
USER_EFUSE == 2
USER_EFUSE_VALUES == 1 .. 256

(***************************************************************************)
(* XFsbl_PpkVer: the carried PPK is the one of the selected hash, and that *)
(* one is in force.  A mutant does not look at the revocation bits.        *)
(***************************************************************************)
PpkVerUnrevoked(ac) == EfuseKeys.ppk[ac.select] = ac.ppk
PpkVer(ac) == ac.select \notin EfuseKeys.revoked /\ EfuseKeys.ppk[ac.select] = ac.ppk

(***************************************************************************)
(* XFsbl_SpkVer with the PPK kept from the boot header.  The SPK's ID is   *)
(* compared only when eFUSE RSA_EN is programmed; a user eFUSE revokes the *)
(* ID whose bit is programmed.  A mutant trusts the PPK of the certificate *)
(* it is checking.                                                         *)
(***************************************************************************)
SpkInForce(ac) ==
  IF ac.fuse = SPKID_EFUSE THEN ac.id = EfuseKeys.spkId
  ELSE ac.id \in USER_EFUSE_VALUES /\ ac.id \notin EfuseKeys.user
SpkVerSelf(ac, key) ==
  /\ ac.fuse \in {SPKID_EFUSE, USER_EFUSE}
  /\ ac.by = ac.ppk
  /\ EfuseRsa => SpkInForce(ac)
SpkVer(ac, key) ==
  /\ ac.fuse \in {SPKID_EFUSE, USER_EFUSE}
  /\ ac.by = key
  /\ EfuseRsa => SpkInForce(ac)

(***************************************************************************)
(* XFsbl_BhAuthentication, and the authentication of the header tables     *)
(* against the same certificate: the PPK is kept once XFsbl_PpkVer let it  *)
(* pass, before anything signed is looked at.                              *)
(***************************************************************************)
PpkPasses(ac) == EfuseRsa => PpkVer(ac)
BhAuthentication(ac, signed) == PpkPasses(ac) /\ SpkVer(ac, ac.ppk) /\ signed

(***************************************************************************)
(* XFsbl_Authentication of a partition: its SPK under the kept PPK, then   *)
(* its bytes under the SPK.                                                *)
(***************************************************************************)
PartitionAuthentication(ac, key, intact) == SpkVer(ac, key) /\ intact
=============================================================================
