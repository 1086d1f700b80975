------------------------------- MODULE MCFsbl -------------------------------
(***************************************************************************)
(* Boot images for the runs.  A partition is built from a plain one by     *)
(* what is done to protect it; an image is a sequence of partitions after  *)
(* the FSBL.                                                               *)
(***************************************************************************)
EXTENDS FsblProperties

MCTcmBank == 4
MCAcWords == 2

(***************************************************************************)
(* eFUSEs: the hashes of the primary keys 1 and 2, the second one revoked, *)
(* SPK ID 7 in force, user eFUSE 5 programmed.  Key 3 is in none of them.  *)
(***************************************************************************)
MCEfuseKeys ==
  [ppk |-> [s \in {0, 1} |-> s + 1], revoked |-> {1}, spkId |-> 7, user |-> {5}]
Cert(key) ==
  [ppk |-> key, select |-> IF key = 2 THEN 1 ELSE 0, fuse |-> SPKID_EFUSE,
   id |-> 7, by |-> key]
UserCert(i) == [Cert(1) EXCEPT !.fuse = USER_EFUSE, !.id = i]

(***************************************************************************)
(* Partitions.                                                             *)
(***************************************************************************)
Plain(cpu, addr) ==
  [ZeroHeader EXCEPT !.sum = TRUE, !.cpu = cpu, !.dev = DEVICE_PS,
                     !.unenc = 2, !.enc = 2, !.total = 2,
                     !.load = addr, !.exec = addr]
SignedWith(h, cert) ==
  [h EXCEPT !.rsa = TRUE, !.total = @ + MCAcWords, !.cert = cert]
Signed(h) == SignedWith(h, Cert(1))
Encrypted(h) == [h EXCEPT !.aes = TRUE, !.enc = @ + 1, !.total = @ + 1]
Checksum(h) == [h EXCEPT !.cksum = 3]
Corrupted(h) == [h EXCEPT !.intact = FALSE]
Bitstream ==
  [Plain(CPU_NONE, "DUMMY_PL") EXCEPT !.dev = DEVICE_PL, !.exec = "ZERO"]
SignedBitstream == [Signed(Bitstream) EXCEPT !.block = 1]
PmuFw == [Plain(CPU_PMU, "PMU_RAM") EXCEPT !.dev = DEVICE_PMU]
PmuFwPart2 == [PmuFw EXCEPT !.exec = "ZERO"]
Xip(cpu) ==
  [Plain(cpu, "DDR_D") EXCEPT !.unenc = 0, !.enc = 0, !.total = 0, !.exec = "QSPI"]
R5(cpu) == Plain(cpu, "ZERO")
Atf == Plain(CPU_A53_0, "OCM")
Uboot == Plain(CPU_NONE, "DDR_A")
Foreign(h) == [h EXCEPT !.owner = 1]

(***************************************************************************)
(* Images.                                                                 *)
(***************************************************************************)
FsblHeader == Plain(CPU_A53_0, "OCM")
Img(parts) ==
  [rsa |-> FALSE, sha2 |-> FALSE, ac |-> FALSE, cert |-> Cert(1), signed |-> TRUE,
   sum |-> TRUE, ppd |-> XIH_IHT_PPD_SAME, n |-> Len(parts) + 1,
   ph |-> [p \in 0 .. (XIH_MAX_PARTITIONS - 1) |->
             IF p = 0 THEN FsblHeader
             ELSE IF p <= Len(parts) THEN parts[p] ELSE ZeroHeader]]
Authenticated(im) == [im EXCEPT !.rsa = TRUE, !.ac = TRUE]
WithAc(im) == [im EXCEPT !.ac = TRUE]
WithCert(im, cert) == [im EXCEPT !.ac = TRUE, !.cert = cert]
OnDevice(im, ppd) == [im EXCEPT !.ppd = ppd]
ImagesOf(s) == [i \in 0 .. (Len(s) - 1) |-> s[i + 1]]

(***************************************************************************)
(* Images of the shape the boards use: PMU firmware, a bitstream, the      *)
(* trusted firmware, U-Boot and an R5 application; one was tampered with.  *)
(***************************************************************************)
Typical ==
  Authenticated(Img(<< PmuFw, PmuFwPart2, Encrypted(Bitstream),
                       Encrypted(Signed(Atf)), R5(CPU_R5_0) >>))
Simple ==
  Img(<< Checksum(Atf), Uboot, Corrupted(R5(CPU_R5_1)), Plain(CPU_A53_0 + 1, "DDR_B"),
         Bitstream >>)
Tampered == Authenticated(Img(<< Corrupted(Signed(Atf)), Uboot >>))
TypicalImages == ImagesOf(<< Typical, Tampered, Simple, Simple >>)

(***************************************************************************)
(* Images that are each refused at another place, then one that is sound   *)
(* and has as many partitions as the header table may have, most of them   *)
(* bitstreams, whose event is the second longest.                          *)
(***************************************************************************)
Broken == <<
  [Img(<< Atf >>) EXCEPT !.sum = FALSE],
  Img(<< >>),
  OnDevice(Img(<< Atf >>), XIH_IHT_PPD_USB),
  [Img(<< Atf >>) EXCEPT !.rsa = TRUE],
  [Authenticated(Img(<< Atf >>)) EXCEPT !.signed = FALSE],
  Authenticated(Img(<< Uboot, Corrupted(Signed(Atf)) >>)),
  Img(<< Atf, Corrupted(Encrypted(Bitstream)) >>),
  Img(<< Corrupted(Checksum(Plain(CPU_A53_0, "DDR_A"))) >>),
  Img(<< [Atf EXCEPT !.sum = FALSE] >>),
  Img(<< [Atf EXCEPT !.total = 3] >>),
  Img(<< Atf, [R5(CPU_R5_0) EXCEPT !.unenc = 5, !.enc = 5, !.total = 5] >>),
  Authenticated(
    Img(<< Atf, [Signed(R5(CPU_R5_0)) EXCEPT !.unenc = 3, !.enc = 3, !.total = 5] >>)),
  Img(<< [Atf EXCEPT !.aa32 = TRUE] >>),
  Img(<< R5(CPU_R5_1), Xip(CPU_PMU) >>),
  Authenticated(Img(<< Signed(Bitstream), Atf >>)),
  [Authenticated(Img(<< SignedBitstream, Atf >>)) EXCEPT !.sha2 = TRUE],
  Authenticated(Img(<< Checksum(Signed(Atf)) >>)),
  Img(<< Plain(CPU_A53_3, "DDR_B"), Atf >>),
  Authenticated(Img(<< Corrupted(SignedBitstream), Atf >>)),
  Img(<< Signed(Atf) >>),
  Authenticated(Img(<< SignedWith(Atf, Cert(3)) >>)),
  Authenticated(Img(<< SignedWith(Atf, [Cert(1) EXCEPT !.fuse = 3]) >>)),
  Authenticated([Img(<< Atf >>) EXCEPT !.cert.by = 3]) >>
FullImage ==
  Authenticated(Img(<< SignedBitstream, Foreign(R5(CPU_R5_0)),
                       SignedWith(Atf, UserCert(5)), Uboot, PmuFw, R5(CPU_R5_1) >>
                    \o [p \in 1 .. 25 |-> Bitstream]))
BrokenImages == ImagesOf(Broken \o << FullImage, Simple >>)

(***************************************************************************)
(* R5 applications between others, for early handoff: two partitions for   *)
(* the same R5 in a row, an R5 last, an image with nothing for the running *)
(* CPU.                                                                    *)
(***************************************************************************)
EarlyImages ==
  ImagesOf(<< Img(<< R5(CPU_R5_0), Plain(CPU_R5_0, "ATCM"), Atf, R5(CPU_R5_1) >>),
              Img(<< Atf, R5(CPU_R5_1), Plain(CPU_A53_0 + 1, "DDR_A"), R5(CPU_R5_0) >>),
              Img(<< Plain(CPU_A53_0 + 1, "DDR_A"), R5(CPU_R5_L) >>),
              Simple >>)

(***************************************************************************)
(* For programmed eFUSEs: an image that asks for the key in the header,    *)
(* one without a certificate, certificates under a revoked, an unknown and *)
(* a withdrawn key, of the header and of a partition, one with a plain     *)
(* partition, one on a second device.                                      *)
(***************************************************************************)
SecureAtf == Encrypted(Signed(Atf))
UnderKey(k) == WithCert(Img(<< Encrypted(SignedWith(Atf, Cert(k))) >>), Cert(k))
SecureImages ==
  ImagesOf(<< Authenticated(Img(<< SecureAtf >>)),
              Img(<< SecureAtf >>),
              [WithAc(Img(<< SecureAtf >>)) EXCEPT !.signed = FALSE],
              UnderKey(2), UnderKey(3),
              WithCert(Img(<< SecureAtf >>), [Cert(1) EXCEPT !.id = 6]),
              WithAc(Img(<< Encrypted(R5(CPU_R5_0)),
                            Encrypted(SignedWith(Atf, Cert(3))) >>)),
              WithAc(Img(<< Encrypted(SignedWith(Atf, UserCert(5))) >>)),
              WithCert(Img(<< SecureAtf, Uboot >>), UserCert(4)),
              WithAc(Img(<< Encrypted(Atf), Encrypted(R5(CPU_R5_L)) >>)),
              OnDevice(WithAc(Img(<< >>)), 5),
              WithAc(Img(<< Encrypted(SignedBitstream), SecureAtf >>)) >>)

(***************************************************************************)
(* One image each for the places where the code and its comments part:     *)
(* more partitions than labels, a copy of an image whose file was cut      *)
(* short, as many partitions as there are labels.                          *)
(***************************************************************************)
TwiceOf(im) == ImagesOf(<< im, im >>)
FifthPartitionImages ==
  TwiceOf(Img(<< Atf, Plain(CPU_A53_0 + 1, "DDR_A"), Plain(CPU_A53_0 + 2, "DDR_B"),
                 Uboot, Plain(CPU_A53_3, "DDR_C") >>))
CutShortImages ==
  ImagesOf(<< Img(<< Uboot, Corrupted(Checksum(Atf)) >>), Img(<< Uboot >>), Simple >>)
FourPartitionImages ==
  TwiceOf(Img(<< Atf, Plain(CPU_A53_0 + 1, "DDR_B"), Uboot, R5(CPU_R5_0) >>))
=============================================================================
